-------------------------- MODULE EventLoopProofs ---------------------------
(***************************************************************************)
(* Theorems about EventLoop, for any rules, descriptors and directions.    *)
(***************************************************************************)
EXTENDS EventLoop, SequenceTheorems, TLAPS

\* What std::list::erase leaves, element by element.
LEMMA RemoveAtElements ==
  ASSUME NEW S, NEW s \in Seq(S), NEW i \in 1 .. Len(s)
  PROVE  /\ RemoveAt(s, i) \in Seq(S)
         /\ Len(RemoveAt(s, i)) = Len(s) - 1
         /\ \A k \in 1 .. Len(s) - 1 :
                RemoveAt(s, i)[k] = IF k < i THEN s[k] ELSE s[k + 1]
<1> DEFINE a == SubSeq(s, 1, i - 1)
           b == SubSeq(s, i + 1, Len(s))
<1>1. /\ a \in Seq(S) /\ Len(a) = i - 1
      /\ \A k \in 1 .. i - 1 : a[k] = s[k]
  OBVIOUS
<1>2. /\ b \in Seq(S) /\ Len(b) = Len(s) - i
      /\ \A k \in 1 .. Len(s) - i : b[k] = s[k + i]
  OBVIOUS
<1> HIDE DEF a, b
<1>3. /\ a \o b \in Seq(S) /\ Len(a \o b) = Len(s) - 1
      /\ \A k \in 1 .. Len(s) - 1 :
            (a \o b)[k] = IF k < i THEN a[k] ELSE b[k - (i - 1)]
  <2>1. /\ a \o b \in Seq(S) /\ Len(a \o b) = Len(a) + Len(b)
        /\ \A k \in 1 .. Len(a) + Len(b) :
              (a \o b)[k] = IF k <= Len(a) THEN a[k] ELSE b[k - Len(a)]
    BY <1>1, <1>2, ConcatProperties
  <2>2. Len(a) + Len(b) = Len(s) - 1 /\ Len(a) = i - 1  BY <1>1, <1>2
  <2>3. \A k \in 1 .. Len(s) - 1 : k <= i - 1 <=> k < i  OBVIOUS
  <2> QED BY <2>1, <2>2, <2>3
<1>4. RemoveAt(s, i) = a \o b  BY DEF RemoveAt, a, b
<1> QED BY <1>1, <1>2, <1>3, <1>4

\* What user code may do to the list of rules, the flags and the kernel:
\* append at most one rule, only ever set flags, and of a descriptor it does
\* not close only ever take conditions away.
LEMMA UserCodeEffect ==
  ASSUME TypeOK, NEW list \in Seq(Rules), NEW drained,
         NEW ended \in SUBSET Descriptors, UserCode(list, drained, ended)
  PROVE  /\ rules' \in Seq(Rules)
         /\ rules' = list \/ \E r \in Rules : rules' = Append(list, r)
         /\ wants' \subseteq Rules
         /\ eof \subseteq eof' /\ closed \subseteq closed'
         /\ closed' \subseteq eof' /\ eof' \subseteq Descriptors
         /\ cond' \in [Descriptors -> SUBSET Flags]
         /\ \A d \in Descriptors \ closed' :
               cond'[d] = cond[d] \/ cond'[d] = cond[d] \ {"IN", "OUT"}
<1>1. /\ rules' \in Seq(Rules)
      /\ rules' = list \/ \E r \in Rules : rules' = Append(list, r)
      /\ wants' \subseteq Rules
      /\ closed \subseteq closed' /\ closed' \subseteq Descriptors
  <2>1. CASE DoesNothing(list)  BY <2>1 DEF DoesNothing, TypeOK
  <2>2. CASE AddsRule(list)
    <3>1. PICK r \in Rules :
              rules' = Append(list, r) /\ UNCHANGED <<closed, wants>>
      BY <2>2 DEF AddsRule, add_rule
    <3>2. Append(list, r) \in Seq(Rules)  BY AppendProperties
    <3> QED BY <3>1, <3>2 DEF TypeOK
  <2>3. CASE ClosesFd(list)  BY <2>3 DEF ClosesFd, TypeOK
  <2>4. CASE ChangesInterest(list)  BY <2>4 DEF ChangesInterest, TypeOK
  <2> QED BY <2>1, <2>2, <2>3, <2>4 DEF UserCode
<1>2. eof' = eof \cup ended \cup closed'  BY DEF UserCode
<1>3. cond' = [d \in Descriptors |->
                   IF d \in closed' \ closed THEN {"NVAL"}
                   ELSE IF d \in drained THEN cond[d] \ {"IN", "OUT"}
                   ELSE cond[d]]
  BY DEF UserCode
<1>4. cond' \in [Descriptors -> SUBSET Flags]
  BY <1>3 DEF TypeOK, Flags
<1> QED BY <1>1, <1>2, <1>3, <1>4 DEF TypeOK

-----------------------------------------------------------------------------

\* Leaving wait_next_event(), in any way, keeps the types.
LEMMA ReturnType ==
  ASSUME NEW r \in Results, Return(r)
  PROVE  /\ pc' = "idle" /\ result' \in Results
         /\ pollfds' = <<>> /\ something_to_poll' = FALSE
         /\ it' = 1 /\ idx' = 1
BY DEF Return

\* Type correctness is inductive: neither loop runs past its end, and the
\* first loop makes exactly one pollfd for each rule that it keeps.
LEMMA TypeInductive == TypeOK /\ [Next]_vars => TypeOK'
<1> SUFFICES ASSUME TypeOK, [Next]_vars PROVE TypeOK'  OBVIOUS
<1> USE EventLoopAssumption
<1>0. <<>> \in Seq(PollfdType) /\ Len(<<>>) = 0  OBVIOUS
<1>1. CASE UNCHANGED vars
  BY <1>1 DEF vars, user, fds, locals, history, TypeOK
<1>2. CASE Kernel
  <2>1. PICK d \in Descriptors : Reused(d) \/ \E c \in Conditions : Becomes(d, c)
    BY <1>2 DEF Kernel
  <2>2. CASE Reused(d)
    BY <1>2, <2>2 DEF Kernel, Reused, locals, history, TypeOK
  <2>3. ASSUME NEW c \in Conditions, Becomes(d, c) PROVE TypeOK'
    <3> DEFINE v == (IF c = "HUP" THEN cond[d] \ {"OUT"} ELSE cond[d]) \cup {c}
    <3>1. v \in SUBSET Flags  BY DEF TypeOK
    <3>2. cond' = [cond EXCEPT ![d] = v]  BY <2>3 DEF Becomes
    <3> QED BY <1>2, <3>1, <3>2 DEF Kernel, locals, history, TypeOK
  <2> QED BY <2>1, <2>2, <2>3
<1>3. CASE Caller
  <2>1. UserCode(rules, {}, {}) /\ UNCHANGED <<pc, locals, result, history>>
        /\ pc = "idle"
    BY <1>3 DEF Caller
  <2>2. rules' = rules \/ \E r \in Rules : rules' = Append(rules, r)
    BY <2>1, UserCodeEffect DEF TypeOK
  <2>3. Len(rules') >= Len(rules) /\ Len(rules') \in Nat
    BY <2>2, AppendProperties DEF TypeOK
  <2> QED BY <2>1, <2>3, UserCodeEffect DEF locals, history, TypeOK
<1>4. CASE Call
  BY <1>4 DEF Call, user, fds, locals, TypeOK, Results
<1>5. CASE SetupCancel
  <2> DEFINE list == RemoveAt(rules, it)
  <2>1. /\ pc = "setup" /\ it \in 1 .. Len(rules) /\ UserCode(list, {}, {})
        /\ triggered' = triggered \cup {rules[it]}
        /\ served' = served \cup {rules[it]}
        /\ UNCHANGED <<pc, locals, result, grown>>
    BY <1>5 DEF SetupCancel, TypeOK
  <2>2. list \in Seq(Rules) /\ Len(list) = Len(rules) - 1
    BY <2>1, RemoveAtElements DEF TypeOK
  <2> HIDE DEF list
  <2>3. rules' = list \/ \E r \in Rules : rules' = Append(list, r)
    BY <2>1, <2>2, UserCodeEffect
  <2>4. Len(rules') >= Len(rules) - 1 /\ Len(rules') \in Nat
    BY <2>2, <2>3, AppendProperties DEF TypeOK
  <2>5. rules[it] \in Rules  BY <2>1 DEF TypeOK
  <2> QED BY <2>1, <2>2, <2>4, <2>5, UserCodeEffect DEF locals, TypeOK
<1>6. CASE SetupCancelThrows
  <2>1. /\ it \in 1 .. Len(rules) /\ UserCode(rules, {}, {})
        /\ Return("UserThrew")
        /\ triggered' = triggered \cup {rules[it]}
        /\ UNCHANGED <<served, grown>>
    BY <1>6 DEF SetupCancelThrows, TypeOK
  <2>2. rules[it] \in Rules  BY <2>1 DEF TypeOK
  <2> QED BY <1>0, <2>1, <2>2, UserCodeEffect, ReturnType DEF Results, TypeOK
<1>7. CASE SetupPollfd
  <2> DEFINE r == rules[it]
             p == [rule |-> r, events |-> IF r \in wants THEN {DirOf[r]} ELSE {},
                   revents |-> {}]
  <2>1. pc = "setup" /\ it \in 1 .. Len(rules) /\ r \in Rules
    BY <1>7 DEF SetupPollfd, TypeOK
  <2>2. p \in PollfdType  BY <2>1 DEF PollfdType
  <2>3. pollfds' = pollfds \o <<p>>  BY <1>7 DEF SetupPollfd, Pollfds
  <2> HIDE DEF p
  <2>4. pollfds' \in Seq(PollfdType) /\ Len(pollfds') = Len(pollfds) + 1
    BY <2>2, <2>3, ConcatProperties DEF TypeOK
  <2> QED BY <1>7, <2>1, <2>4 DEF SetupPollfd, user, fds, history, TypeOK
<1>8. CASE SetupDone
  <2>1. CASE Return("Exit")
    BY <1>0, <1>8, <2>1, ReturnType DEF SetupDone, user, fds, history, Results, TypeOK
  <2>2. CASE pc' = "poll" /\ UNCHANGED <<locals, result>>
    BY <1>8, <2>2 DEF SetupDone, user, fds, locals, history, TypeOK
  <2> QED BY <1>8, <2>1, <2>2 DEF SetupDone
<1>9. CASE Poll
  <2>1. CASE PollReturns
    <3> DEFINE answers == [i \in 1 .. Len(pollfds) |->
                 [pollfds[i] EXCEPT !.revents = Reported(pollfds[i])]]
    <3>1. \A i \in 1 .. Len(pollfds) :
              [pollfds[i] EXCEPT !.revents = Reported(pollfds[i])] \in PollfdType
      <4> SUFFICES ASSUME NEW i \in 1 .. Len(pollfds)
                   PROVE  [pollfds[i] EXCEPT !.revents = Reported(pollfds[i])] \in PollfdType
        OBVIOUS
      <4>1. pollfds[i] \in PollfdType  BY DEF TypeOK
      <4>2. Reported(pollfds[i]) \in SUBSET Flags
        BY <4>1 DEF Reported, PollfdType, TypeOK
      <4> QED BY <4>1, <4>2 DEF PollfdType
    <3>2. answers \in Seq(PollfdType)  BY <3>1 DEF TypeOK
    <3>3. StartDispatch(answers)
      BY <2>1 DEF PollReturns
    <3> HIDE DEF answers
    <3> QED BY <3>2, <3>3 DEF StartDispatch, user, fds, TypeOK
  <2>2. CASE PollTimesOut
    BY <1>0, <2>2, ReturnType DEF PollTimesOut, user, fds, history, Results, TypeOK
  <2>3. CASE PollInterrupted
    BY <1>0, <2>3, ReturnType DEF PollInterrupted, user, fds, history, Results, TypeOK
  <2>4. CASE PollFails
    BY <2>4 DEF PollFails, StartDispatch, user, fds, TypeOK
  <2> QED BY <1>9, <2>1, <2>2, <2>3, <2>4 DEF Poll
<1>10. CASE DispatchDone
  BY <1>0, <1>10, ReturnType DEF DispatchDone, user, fds, history, Results, TypeOK
<1>11. ASSUME pc = "dispatch", it <= Len(rules), NEW p,
              \/ DispatchError(p) \/ DispatchCancel(p) \/ DispatchThrows(p)
              \/ DispatchReady(p) \/ DispatchSkip(p)
       PROVE  TypeOK'
  <2>0. it \in 1 .. Len(rules) /\ rules[it] \in Rules
    BY <1>11 DEF TypeOK
  <2>1. CASE DispatchError(p)
    BY <1>0, <2>1, ReturnType DEF DispatchError, user, fds, history, Results, TypeOK
  <2>2. CASE DispatchCancel(p)
    <3> DEFINE list == RemoveAt(rules, it)
    <3>1. /\ UserCode(list, {}, {}) /\ idx' = idx + 1 /\ it' = it
          /\ triggered' = triggered \cup {rules[it]}
          /\ served' = served \cup {rules[it]}
          /\ grown' \in BOOLEAN
          /\ UNCHANGED <<pc, pollfds, something_to_poll, result>>
      BY <2>2 DEF DispatchCancel, Advance, TypeOK
    <3>2. list \in Seq(Rules) /\ Len(list) = Len(rules) - 1
      BY <2>0, RemoveAtElements DEF TypeOK
    <3> HIDE DEF list
    <3>3. rules' = list \/ \E r \in Rules : rules' = Append(list, r)
      BY <3>1, <3>2, UserCodeEffect
    <3>4. Len(rules') >= Len(rules) - 1 /\ Len(rules') \in Nat
      BY <3>2, <3>3, AppendProperties DEF TypeOK
    <3> QED BY <1>11, <2>0, <3>1, <3>2, <3>4, UserCodeEffect DEF TypeOK
  <2>3. CASE DispatchThrows(p)
    <3>1. PICK drained \in SUBSET Descriptors, ended \in SUBSET {FdOf[rules[it]]} :
             UserCode(rules, drained, ended)
      BY <2>3 DEF DispatchThrows, Callback
    <3>2. /\ Return("UserThrew") /\ triggered' = triggered \cup {rules[it]}
          /\ served' = served \/ served' = served \cup {rules[it]}
          /\ grown' = grown
      BY <2>3 DEF DispatchThrows, Callback
    <3>3. ended \in SUBSET Descriptors /\ rules \in Seq(Rules)  BY <2>0 DEF TypeOK
    <3> QED BY <1>0, <2>0, <3>1, <3>2, <3>3, UserCodeEffect, ReturnType DEF Results, TypeOK
  <2>4. CASE DispatchReady(p)
    <3>1. PICK serves \in BOOLEAN, drained \in SUBSET Descriptors,
               ended \in SUBSET {FdOf[rules[it]]} :
             /\ UserCode(rules, drained, ended)
             /\ served' = IF serves THEN served \cup {rules[it]} ELSE served
             /\ \/ Return("BusyThrew")
                \/ NextRule /\ UNCHANGED <<pc, pollfds, something_to_poll, result>>
      BY <2>4 DEF DispatchReady, Callback
    <3>2. /\ triggered' = triggered \cup {rules[it]} /\ grown' \in BOOLEAN
      BY <2>4 DEF DispatchReady, TypeOK
    <3>3. ended \in SUBSET Descriptors /\ rules \in Seq(Rules)
      BY <2>0 DEF TypeOK
    <3>4. rules' = rules \/ \E r \in Rules : rules' = Append(rules, r)
      BY <3>1, <3>3, UserCodeEffect
    <3>5. Len(rules') >= Len(rules) /\ Len(rules') \in Nat
      BY <3>3, <3>4, AppendProperties
    <3>6. CASE Return("BusyThrew")
      BY <1>0, <2>0, <3>1, <3>2, <3>3, <3>5, <3>6, UserCodeEffect, ReturnType
         DEF Results, TypeOK
    <3>7. CASE NextRule /\ UNCHANGED <<pc, pollfds, something_to_poll, result>>
      <4>1. it' = it + 1 /\ idx' = idx + 1
        BY <3>7 DEF NextRule
      <4>2. it' \in 1 .. Len(rules') + 1 /\ idx' \in Nat \ {0}
        BY <1>11, <2>0, <3>5, <4>1 DEF TypeOK
      <4>3. /\ rules' \in Seq(Rules) /\ wants' \subseteq Rules
            /\ closed' \subseteq eof' /\ eof' \subseteq Descriptors
            /\ cond' \in [Descriptors -> SUBSET Flags]
        BY <3>1, <3>3, UserCodeEffect
      <4>4. triggered' \subseteq Rules /\ served' \subseteq triggered'
        BY <2>0, <3>1, <3>2 DEF TypeOK
      <4> QED BY <1>11, <3>2, <3>7, <4>2, <4>3, <4>4 DEF TypeOK
    <3> QED BY <3>1, <3>6, <3>7
  <2>5. CASE DispatchSkip(p)
    BY <1>11, <2>0, <2>5 DEF DispatchSkip, NextRule, user, fds, history, TypeOK
  <2> QED BY <1>11, <2>1, <2>2, <2>3, <2>4, <2>5
<1> QED BY <1>1, <1>2, <1>3, <1>4, <1>5, <1>6, <1>7, <1>8, <1>9, <1>10, <1>11
        DEF Next, wait_next_event, Setup, Dispatch

\* The loops of wait_next_event() keep to the list and the vector they walk.
THEOREM TypeCorrect == Spec => []TypeOK
<1>1. Init => TypeOK
  <2> SUFFICES ASSUME Init PROVE TypeOK  OBVIOUS
  <2>1. <<>> \in Seq(Rules) /\ <<>> \in Seq(PollfdType) /\ Len(<<>>) = 0  OBVIOUS
  <2>2. cond \in [Descriptors -> SUBSET Flags]  BY DEF Init
  <2>3. /\ rules = <<>> /\ pollfds = <<>> /\ it = 1 /\ idx = 1 /\ pc = "idle"
        /\ eof = {} /\ closed = {} /\ wants = Rules /\ something_to_poll = FALSE
        /\ result = "None" /\ triggered = {} /\ served = {}
        /\ grown = FALSE
    BY DEF Init
  <2>4. /\ rules \in Seq(Rules) /\ pollfds \in Seq(PollfdType)
        /\ Len(rules) = 0 /\ Len(pollfds) = 0
    BY <2>1, <2>3
  <2>5. it \in 1 .. Len(rules) + 1 /\ idx \in Nat \ {0} /\ Len(pollfds) = it - 1
    BY <2>3, <2>4
  <2>6. something_to_poll \in BOOLEAN /\ grown \in BOOLEAN
    BY <2>3, Zenon
  <2>7. result \in Results  BY <2>3 DEF Results
  <2> QED BY <2>2, <2>3, <2>4, <2>5, <2>6, <2>7, Zenon DEF TypeOK
<1> QED BY <1>1, TypeInductive, PTL DEF Spec

-----------------------------------------------------------------------------
(* The alignment of the two counters of the second loop.                   *)

\* User code keeps every rule of the list where it is.
LEMMA UserCodeKeeps ==
  ASSUME TypeOK, NEW list \in Seq(Rules), NEW drained,
         NEW ended \in SUBSET Descriptors, UserCode(list, drained, ended)
  PROVE  /\ rules' \in Seq(Rules)
         /\ Len(rules') = Len(list) \/ Len(rules') = Len(list) + 1
         /\ \A k \in 1 .. Len(list) : rules'[k] = list[k]
<1>1. CASE rules' = list  BY <1>1
<1>2. ASSUME NEW r \in Rules, rules' = Append(list, r)
      PROVE  /\ Len(rules') = Len(list) + 1
             /\ \A k \in 1 .. Len(list) : rules'[k] = list[k]
  BY <1>2, AppendProperties
<1> QED BY <1>1, <1>2, UserCodeEffect

\* What Aligned needs to be inductive: the first loop makes the pollfds in the
\* order of the rules, erased rules leave none behind, and in the second loop
\* no more pollfds are left than rules, so that a rule which user code appends
\* lands beyond the last of them.
InOrder ==
    /\ pc = "idle" => it = 1
    /\ pc = "setup" => \A j \in 1 .. it - 1 : pollfds[j].rule = rules[j]
    /\ pc = "poll" => \A j \in 1 .. Len(rules) : pollfds[j].rule = rules[j]
    /\ pc = "dispatch" => Len(pollfds) <= idx + (Len(rules) - it)
    /\ Aligned

\* Returning makes InOrder true.
LEMMA ReturnInOrder ==
  ASSUME NEW r, Return(r) PROVE InOrder'
BY DEF Return, InOrder, Aligned

\* Every step keeps the pollfds and the rules in step.
LEMMA OrderInductive == TypeOK /\ InOrder /\ [Next]_vars => InOrder'
<1> SUFFICES ASSUME TypeOK, InOrder, [Next]_vars PROVE InOrder'  OBVIOUS
<1> USE EventLoopAssumption
<1>1. CASE UNCHANGED vars
  BY <1>1 DEF vars, user, fds, locals, history, InOrder, Aligned
<1>2. CASE Kernel
  BY <1>2 DEF Kernel, locals, history, InOrder, Aligned
<1>3. CASE Caller
  BY <1>3 DEF Caller, locals, InOrder, Aligned
<1>4. CASE Call
  BY <1>4 DEF Call, locals, InOrder, Aligned
<1>5. CASE SetupCancel
  <2> DEFINE list == RemoveAt(rules, it)
  <2>1. /\ pc = "setup" /\ it \in 1 .. Len(rules) /\ UserCode(list, {}, {})
        /\ UNCHANGED <<pc, locals>>
    BY <1>5 DEF SetupCancel, TypeOK
  <2>2. /\ list \in Seq(Rules) /\ Len(list) = Len(rules) - 1
        /\ \A k \in 1 .. it - 1 : list[k] = rules[k]
    <3>1. /\ list \in Seq(Rules) /\ Len(list) = Len(rules) - 1
          /\ \A k \in 1 .. Len(rules) - 1 :
                list[k] = IF k < it THEN rules[k] ELSE rules[k + 1]
      BY <2>1, RemoveAtElements DEF TypeOK
    <3>2. \A k \in 1 .. it - 1 : k \in 1 .. Len(rules) - 1 /\ k < it  BY <2>1
    <3> QED BY <3>1, <3>2
  <2> HIDE DEF list
  <2>3. \A k \in 1 .. Len(list) : rules'[k] = list[k]
    BY <2>1, <2>2, UserCodeKeeps
  <2>4. \A k \in 1 .. it - 1 : rules'[k] = rules[k]
    <3>1. Len(rules) \in Nat  BY DEF TypeOK
    <3>2. \A k \in 1 .. it - 1 : k \in 1 .. Len(list)  BY <2>1, <2>2, <3>1
    <3> QED BY <2>2, <2>3, <3>2
  <2> QED BY <2>1, <2>4 DEF locals, InOrder, Aligned
<1>6. CASE SetupCancelThrows
  BY <1>6, ReturnInOrder DEF SetupCancelThrows
<1>7. CASE SetupPollfd
  <2> DEFINE p == [rule |-> rules[it],
                   events |-> IF rules[it] \in wants THEN {DirOf[rules[it]]} ELSE {},
                   revents |-> {}]
  <2>1. /\ pc = "setup" /\ it \in 1 .. Len(rules) /\ rules[it] \in Rules
        /\ pc' = "setup" /\ it' = it + 1 /\ rules' = rules
    BY <1>7 DEF SetupPollfd, user, TypeOK
  <2>2. p \in PollfdType /\ p.rule = rules[it]  BY <2>1 DEF PollfdType
  <2>3. pollfds' = pollfds \o <<p>>  BY <1>7 DEF SetupPollfd, Pollfds
  <2> HIDE DEF p
  <2>4. /\ \A j \in 1 .. it - 1 : pollfds'[j] = pollfds[j]
        /\ pollfds'[it] = p
    <3>1. Len(pollfds) = it - 1 /\ pollfds \in Seq(PollfdType)  BY <2>1 DEF TypeOK
    <3> QED BY <2>1, <2>2, <2>3, <3>1, ConcatProperties
  <2>5. \A j \in 1 .. it' - 1 : pollfds'[j].rule = rules'[j]
    BY <2>1, <2>2, <2>4 DEF InOrder, TypeOK
  <2> QED BY <2>1, <2>5 DEF InOrder, Aligned
<1>8. CASE SetupDone
  <2>1. CASE Return("Exit")  BY <2>1, ReturnInOrder
  <2>2. CASE pc' = "poll" /\ UNCHANGED <<locals, result>>
    <3>1. pc = "setup" /\ it - 1 = Len(rules) /\ rules' = rules
      BY <1>8 DEF SetupDone, user, TypeOK
    <3> QED BY <2>2, <3>1 DEF locals, InOrder, Aligned
  <2> QED BY <1>8, <2>1, <2>2 DEF SetupDone
<1>9. CASE Poll
  <2>1. ASSUME pc = "poll", NEW answers \in Seq(PollfdType), StartDispatch(answers),
               Len(answers) = Len(pollfds),
               \A j \in 1 .. Len(pollfds) : answers[j].rule = pollfds[j].rule
        PROVE  InOrder'
    <3>1. /\ pc' = "dispatch" /\ it' = 1 /\ idx' = 1 /\ rules' = rules
          /\ pollfds' = answers
      BY <2>1 DEF StartDispatch, user
    <3>2. /\ Len(answers) = Len(rules) /\ Len(rules) \in Nat
          /\ \A j \in 1 .. Len(rules) : answers[j].rule = rules[j]
      BY <2>1 DEF InOrder, TypeOK
    <3> QED BY <3>1, <3>2 DEF InOrder, Aligned
  <2>2. CASE PollReturns
    <3> DEFINE answers == [i \in 1 .. Len(pollfds) |->
                 [pollfds[i] EXCEPT !.revents = Reported(pollfds[i])]]
    <3>1. /\ pc = "poll" /\ StartDispatch(answers)  BY <2>2 DEF PollReturns
    <3>2. pollfds' = answers /\ pollfds' \in Seq(PollfdType)
      BY <3>1, TypeInductive DEF StartDispatch, TypeOK
    <3>3. \A j \in 1 .. Len(pollfds) : pollfds[j] \in PollfdType  BY DEF TypeOK
    <3>4. \A j \in 1 .. Len(pollfds) : answers[j].rule = pollfds[j].rule
      BY <3>3 DEF PollfdType
    <3>5. Len(answers) = Len(pollfds)  BY DEF TypeOK
    <3> HIDE DEF answers
    <3> QED BY <2>1, <3>1, <3>2, <3>4, <3>5
  <2>3. CASE PollTimesOut  BY <2>3, ReturnInOrder DEF PollTimesOut
  <2>4. CASE PollInterrupted  BY <2>4, ReturnInOrder DEF PollInterrupted
  <2>5. CASE PollFails
    BY <2>1, <2>5 DEF PollFails, TypeOK
  <2> QED BY <1>9, <2>2, <2>3, <2>4, <2>5 DEF Poll
<1>10. CASE DispatchDone
  BY <1>10, ReturnInOrder DEF DispatchDone
<1>11. ASSUME pc = "dispatch", it <= Len(rules), NEW p,
              \/ DispatchError(p) \/ DispatchCancel(p) \/ DispatchThrows(p)
              \/ DispatchReady(p) \/ DispatchSkip(p)
       PROVE  InOrder'
  <2>0. /\ it \in 1 .. Len(rules) /\ rules[it] \in Rules /\ idx \in Nat
        /\ Len(rules) \in Nat /\ Len(pollfds) \in Nat /\ rules \in Seq(Rules)
        /\ Len(pollfds) <= idx + (Len(rules) - it)
        /\ \A k \in it .. Len(rules) :
              IF idx + (k - it) <= Len(pollfds)
              THEN pollfds[idx + (k - it)].rule = rules[k] ELSE grown
    BY <1>11 DEF InOrder, Aligned, TypeOK
  <2>1. CASE DispatchError(p)  BY <2>1, ReturnInOrder DEF DispatchError
  <2>2. CASE DispatchCancel(p)
    <3> DEFINE list == RemoveAt(rules, it)
    <3>1. /\ UserCode(list, {}, {}) /\ idx' = idx + 1 /\ it' = it
          /\ grown' = (grown \/ Len(rules') = Len(rules))
          /\ UNCHANGED <<pc, pollfds>>
      BY <2>2 DEF DispatchCancel, Advance
    <3>2. /\ list \in Seq(Rules) /\ Len(list) = Len(rules) - 1
          /\ \A k \in it .. Len(rules) - 1 : list[k] = rules[k + 1]
      <4>1. /\ list \in Seq(Rules) /\ Len(list) = Len(rules) - 1
            /\ \A k \in 1 .. Len(rules) - 1 :
                  list[k] = IF k < it THEN rules[k] ELSE rules[k + 1]
        BY <2>0, RemoveAtElements
      <4>2. \A k \in it .. Len(rules) - 1 : k \in 1 .. Len(rules) - 1 /\ ~(k < it)
        BY <2>0
      <4> QED BY <4>1, <4>2
    <3> HIDE DEF list
    <3>3. /\ rules' \in Seq(Rules)
          /\ Len(rules') = Len(list) \/ Len(rules') = Len(list) + 1
          /\ \A k \in 1 .. Len(list) : rules'[k] = list[k]
      BY <3>1, <3>2, UserCodeKeeps
    <3>4. Len(pollfds) <= idx' + (Len(rules') - it')
      BY <2>0, <3>1, <3>2, <3>3
    <3>5. ASSUME NEW k \in it .. Len(rules')
          PROVE  IF idx' + (k - it) <= Len(pollfds)
                 THEN pollfds[idx' + (k - it)].rule = rules'[k] ELSE grown'
      <4>1. CASE k <= Len(rules) - 1
        <5>1. /\ rules'[k] = rules[k + 1] /\ k + 1 \in it .. Len(rules)
              /\ idx' + (k - it) = idx + ((k + 1) - it)
          BY <2>0, <3>1, <3>2, <3>3, <4>1
        <5>2. IF idx + ((k + 1) - it) <= Len(pollfds)
              THEN pollfds[idx + ((k + 1) - it)].rule = rules[k + 1] ELSE grown
          BY <2>0, <5>1
        <5> QED BY <3>1, <5>1, <5>2
      <4>2. CASE k > Len(rules) - 1
        <5>1. k = Len(rules) /\ Len(rules') = Len(rules)
          BY <2>0, <3>2, <3>3, <4>2
        <5>2. ~(idx' + (k - it) <= Len(pollfds))  BY <2>0, <3>1, <5>1
        <5> QED BY <3>1, <5>1, <5>2
      <4> QED BY <2>0, <4>1, <4>2
    <3> QED BY <1>11, <3>1, <3>4, <3>5 DEF InOrder, Aligned
  <2>3. CASE DispatchThrows(p)  BY <2>3, ReturnInOrder DEF DispatchThrows
  <2>4. CASE DispatchReady(p)
    <3>1. PICK drained \in SUBSET Descriptors, ended \in SUBSET {FdOf[rules[it]]} :
             /\ UserCode(rules, drained, ended)
             /\ \/ Return("BusyThrew")
                \/ NextRule /\ UNCHANGED <<pc, pollfds>>
      BY <2>4 DEF DispatchReady, Callback
    <3>2. grown' = (grown \/ Len(rules') > Len(rules))
      BY <2>4 DEF DispatchReady
    <3>3. /\ rules' \in Seq(Rules)
          /\ Len(rules') = Len(rules) \/ Len(rules') = Len(rules) + 1
          /\ \A k \in 1 .. Len(rules) : rules'[k] = rules[k]
      <4>1. ended \in SUBSET Descriptors  BY <2>0
      <4> QED BY <2>0, <3>1, <4>1, UserCodeKeeps
    <3>4. CASE NextRule /\ UNCHANGED <<pc, pollfds>>
      <4>1. it' = it + 1 /\ idx' = idx + 1 /\ UNCHANGED <<pc, pollfds>>
        BY <3>4 DEF NextRule
      <4>2. Len(pollfds) <= idx' + (Len(rules') - it')
        BY <2>0, <3>3, <4>1
      <4>3. ASSUME NEW k \in it' .. Len(rules')
            PROVE  IF idx' + (k - it') <= Len(pollfds)
                   THEN pollfds[idx' + (k - it')].rule = rules'[k] ELSE grown'
        <5>0. /\ k \in Nat /\ k >= it /\ k >= 1 /\ k <= Len(rules')
              /\ idx' + (k - it') = idx + (k - it)
          <6>1. it \in Nat /\ it >= 1 /\ idx \in Nat  BY <2>0
          <6>2. Len(rules') \in Nat  BY <3>3
          <6>3. it' = it + 1 /\ idx' = idx + 1  BY <4>1
          <6>4. k \in (it + 1) .. Len(rules')  BY <6>3
          <6>5. k \in Nat /\ k >= it /\ k >= 1 /\ k <= Len(rules')
            BY <6>1, <6>2, <6>4
          <6>6. (idx + 1) + (k - (it + 1)) = idx + (k - it)  BY <6>1, <6>5
          <6> QED BY <6>3, <6>5, <6>6
        <5>1. CASE k <= Len(rules)
          <6>1. k \in 1 .. Len(rules) /\ k \in it .. Len(rules)
            BY <2>0, <5>0, <5>1
          <6>2. rules'[k] = rules[k]  BY <3>3, <6>1
          <6>3. IF idx + (k - it) <= Len(pollfds)
                THEN pollfds[idx + (k - it)].rule = rules[k] ELSE grown
            BY <2>0, <6>1
          <6> QED BY <3>2, <5>0, <6>2, <6>3
        <5>2. CASE k > Len(rules)
          <6>1. Len(rules') > Len(rules) /\ ~(idx + (k - it) <= Len(pollfds))
            BY <2>0, <3>3, <5>0, <5>2
          <6> QED BY <3>2, <5>0, <6>1
        <5> QED BY <2>0, <5>0, <5>1, <5>2
      <4> QED BY <1>11, <4>1, <4>2, <4>3 DEF InOrder, Aligned
    <3> QED BY <3>1, <3>4, ReturnInOrder
  <2>5. CASE DispatchSkip(p)
    <3>1. /\ it' = it + 1 /\ idx' = idx + 1
          /\ UNCHANGED <<pc, pollfds, rules, grown>>
      BY <2>5 DEF DispatchSkip, NextRule, user, history
    <3>2. \A k \in it' .. Len(rules) :
             k \in it .. Len(rules) /\ idx' + (k - it') = idx + (k - it)
      <4> SUFFICES ASSUME NEW k \in it' .. Len(rules)
                   PROVE  /\ k \in it .. Len(rules)
                          /\ idx' + (k - it') = idx + (k - it)
        OBVIOUS
      <4>1. it \in Nat /\ idx \in Nat /\ Len(rules) \in Nat  BY <2>0
      <4>2. it' = it + 1 /\ idx' = idx + 1  BY <3>1
      <4>3. k \in (it + 1) .. Len(rules)  BY <4>2
      <4>4. (idx + 1) + (k - (it + 1)) = idx + (k - it)  BY <4>1, <4>3
      <4>5. k \in it .. Len(rules)  BY <4>1, <4>3
      <4> QED BY <4>2, <4>4, <4>5
    <3>3. Len(pollfds) <= idx' + (Len(rules) - it')  BY <2>0, <3>1
    <3> QED BY <1>11, <2>0, <3>1, <3>2, <3>3 DEF InOrder, Aligned
  <2> QED BY <1>11, <2>1, <2>2, <2>3, <2>4, <2>5
<1> QED BY <1>1, <1>2, <1>3, <1>4, <1>5, <1>6, <1>7, <1>8, <1>9, <1>10, <1>11
        DEF Next, wait_next_event, Setup, Dispatch

\* The second loop of wait_next_event() never uses the pollfd of one rule for
\* another, and indexes past the vector only for rules appended meanwhile,
\* whatever callbacks and cancels do and however long the list is.
THEOREM AlignedCorrect == Spec => []Aligned
<1>1. Init => InOrder  BY DEF Init, InOrder, Aligned
<1>2. InOrder => Aligned  BY DEF InOrder
<1> QED BY <1>1, <1>2, TypeCorrect, OrderInductive, PTL DEF Spec

-----------------------------------------------------------------------------
(* A rule is cancelled only when there is nothing left to read.            *)

\* A pollfd asks for nothing but the direction of its rule.
AsksForItsOwn(p) == p.events \subseteq {DirOf[p.rule]}

\* A hangup that poll(2) reported is still there, and if it was reported
\* without anything to read there still is nothing to read, unless the
\* descriptor was closed meanwhile.
HangupStands(p) ==
    "HUP" \in p.revents /\ FdOf[p.rule] \notin closed =>
        /\ "HUP" \in cond[FdOf[p.rule]]
        /\ "IN" \in p.events \ p.revents => "IN" \notin cond[FdOf[p.rule]]

\* The answers of poll(2) hold until the second loop gets to them, although
\* the kernel and the callbacks of other rules run in between.
AnswersStand ==
    /\ \A j \in 1 .. Len(pollfds) : AsksForItsOwn(pollfds[j])
    /\ pc \in {"idle", "setup", "poll"} =>
          \A j \in 1 .. Len(pollfds) : pollfds[j].revents = {}
    /\ \A j \in 1 .. Len(pollfds) : HangupStands(pollfds[j])

\* Leaving wait_next_event() drops the answers with the vector.
LEMMA ReturnStands ==
  ASSUME NEW r, Return(r) PROVE AnswersStand'
<1>1. pollfds' = <<>>  BY DEF Return
<1>2. Len(pollfds') = 0  BY <1>1
<1> QED BY <1>2 DEF AnswersStand

\* User code that runs while the vector stays as it is.
LEMMA UserCodeStands ==
  ASSUME TypeOK, AnswersStand, NEW list \in Seq(Rules), NEW drained,
         NEW ended \in SUBSET Descriptors, UserCode(list, drained, ended),
         UNCHANGED <<pc, pollfds>>
  PROVE  AnswersStand'
<1>1. SUFFICES ASSUME NEW j \in 1 .. Len(pollfds) PROVE HangupStands(pollfds[j])'
  BY DEF AnswersStand, AsksForItsOwn
<1> DEFINE p == pollfds[j]
           d == FdOf[p.rule]
<1>2. p \in PollfdType /\ d \in Descriptors
  <2>1. p \in PollfdType  BY DEF TypeOK
  <2> QED BY <2>1, EventLoopAssumption DEF PollfdType
<1>3. p' = p /\ d' = d  OBVIOUS
<1>4. HangupStands(p)  BY DEF AnswersStand
<1>5. /\ closed \subseteq closed'
      /\ d \notin closed' => cond'[d] = cond[d] \/ cond'[d] = cond[d] \ {"IN", "OUT"}
  BY <1>2, UserCodeEffect
<1> HIDE DEF p, d
<1>6. HangupStands(p)'
  <2> SUFFICES ASSUME "HUP" \in p.revents, d \notin closed'
               PROVE  /\ "HUP" \in cond'[d]
                      /\ "IN" \in p.events \ p.revents => "IN" \notin cond'[d]
    BY <1>3 DEF HangupStands, d
  <2>1. /\ "HUP" \in cond[d]
        /\ "IN" \in p.events \ p.revents => "IN" \notin cond[d]
    BY <1>4, <1>5 DEF HangupStands, d
  <2> QED BY <1>5, <2>1
<1> QED BY <1>6 DEF p

\* No step, of the kernel or of user code, makes an answer untrue.
LEMMA StandInductive == TypeOK /\ AnswersStand /\ [Next]_vars => AnswersStand'
<1> SUFFICES ASSUME TypeOK, AnswersStand, [Next]_vars PROVE AnswersStand'  OBVIOUS
<1> USE EventLoopAssumption
<1>0. rules \in Seq(Rules) /\ {} \in SUBSET Descriptors
  BY DEF TypeOK
<1>1. ASSUME UNCHANGED <<pc, pollfds, closed, cond>> PROVE AnswersStand'
  BY <1>1 DEF AnswersStand, AsksForItsOwn, HangupStands
<1>2. CASE Kernel
  <2>1. /\ UNCHANGED <<pc, pollfds, closed>>
        /\ \E d \in Descriptors : Reused(d) \/ \E c \in Conditions : Becomes(d, c)
    BY <1>2 DEF Kernel, locals
  <2>2. \A d \in Descriptors : "HUP" \in cond[d] => cond'[d] = cond[d]
    <3>1. PICK d \in Descriptors : Reused(d) \/ \E c \in Conditions : Becomes(d, c)
      BY <2>1
    <3>2. "HUP" \notin cond[d]  BY <3>1 DEF Reused, Becomes
    <3>3. \A e \in Descriptors \ {d} : cond'[e] = cond[e]
      BY <3>1 DEF Reused, Becomes, TypeOK
    <3> QED BY <3>2, <3>3
  <2>3. ASSUME NEW j \in 1 .. Len(pollfds) PROVE HangupStands(pollfds[j])'
    <3>1. FdOf[pollfds[j].rule] \in Descriptors
      <4>1. pollfds[j] \in PollfdType  BY DEF TypeOK
      <4> QED BY <4>1 DEF PollfdType
    <3>2. HangupStands(pollfds[j])  BY DEF AnswersStand
    <3> QED BY <2>1, <2>2, <3>1, <3>2 DEF HangupStands
  <2> QED BY <2>1, <2>3 DEF AnswersStand, AsksForItsOwn
<1>3. CASE Caller
  BY <1>0, <1>3, UserCodeStands DEF Caller, locals
<1>4. CASE Call
  BY <1>4 DEF Call, user, fds, locals, AnswersStand, AsksForItsOwn, HangupStands
<1>5. CASE SetupCancel
  <2>1. /\ it \in 1 .. Len(rules) /\ UserCode(RemoveAt(rules, it), {}, {})
        /\ UNCHANGED <<pc, pollfds>>
    BY <1>5 DEF SetupCancel, locals, TypeOK
  <2>2. RemoveAt(rules, it) \in Seq(Rules)  BY <1>0, <2>1, RemoveAtElements
  <2> QED BY <1>0, <2>1, <2>2, UserCodeStands
<1>6. CASE SetupCancelThrows
  BY <1>6, ReturnStands DEF SetupCancelThrows
<1>7. CASE SetupPollfd
  <2> DEFINE r == rules[it]
             p == [rule |-> r, events |-> IF r \in wants THEN {DirOf[r]} ELSE {},
                   revents |-> {}]
  <2>1. /\ pc = "setup" /\ it \in 1 .. Len(rules) /\ r \in Rules
        /\ UNCHANGED <<pc, closed, cond>>
    BY <1>7 DEF SetupPollfd, user, fds, TypeOK
  <2>2. p \in PollfdType /\ p.revents = {} /\ AsksForItsOwn(p)
    BY <2>1 DEF PollfdType, AsksForItsOwn
  <2>3. pollfds' = pollfds \o <<p>>  BY <1>7 DEF SetupPollfd, Pollfds
  <2> HIDE DEF p
  <2>4. \A j \in 1 .. Len(pollfds') :
           pollfds'[j] = p \/ \E k \in 1 .. Len(pollfds) : pollfds'[j] = pollfds[k]
    <3>1. pollfds \in Seq(PollfdType)  BY DEF TypeOK
    <3> QED BY <2>2, <2>3, <3>1, ConcatProperties
  <2>5. ASSUME NEW j \in 1 .. Len(pollfds')
        PROVE  AsksForItsOwn(pollfds'[j]) /\ pollfds'[j].revents = {}
    BY <2>1, <2>2, <2>4 DEF AnswersStand
  <2> QED BY <2>5 DEF AnswersStand, HangupStands, AsksForItsOwn
<1>8. CASE SetupDone
  <2>1. CASE Return("Exit")  BY <2>1, ReturnStands
  <2>2. CASE pc' = "poll" /\ UNCHANGED <<locals, result>>
    BY <1>8, <2>2
       DEF SetupDone, user, fds, locals, AnswersStand, AsksForItsOwn, HangupStands
  <2> QED BY <1>8, <2>1, <2>2 DEF SetupDone
<1>9. CASE Poll
  <2>1. CASE PollReturns
    <3> DEFINE answers == [i \in 1 .. Len(pollfds) |->
                 [pollfds[i] EXCEPT !.revents = Reported(pollfds[i])]]
    <3>1. pollfds' = answers /\ pc' = "dispatch" /\ UNCHANGED <<closed, cond>>
      BY <2>1 DEF PollReturns, StartDispatch, user, fds
    <3>2. Len(answers) = Len(pollfds)  BY DEF TypeOK
    <3>3. ASSUME NEW j \in 1 .. Len(pollfds)
          PROVE  AsksForItsOwn(answers[j]) /\ HangupStands(answers[j])
      <4> DEFINE p == pollfds[j]
                 a == answers[j]
      <4>1. p \in PollfdType /\ AsksForItsOwn(p)  BY DEF TypeOK, AnswersStand
      <4>2. /\ a.rule = p.rule /\ a.events = p.events
            /\ a.revents = cond[FdOf[p.rule]] \cap (p.events \cup {"HUP", "ERR", "NVAL"})
        BY <4>1 DEF Reported, PollfdType
      <4> HIDE DEF a, p
      <4>3. AsksForItsOwn(a) /\ HangupStands(a)
        BY <4>1, <4>2 DEF AsksForItsOwn, HangupStands
      <4> QED BY <4>3 DEF a
    <3> HIDE DEF answers
    <3>4. ASSUME NEW j \in 1 .. Len(pollfds')
          PROVE  AsksForItsOwn(pollfds[j])' /\ HangupStands(pollfds[j])'
      <4>1. AsksForItsOwn(answers[j]) /\ HangupStands(answers[j])
        BY <3>1, <3>2, <3>3
      <4> QED BY <3>1, <4>1 DEF AsksForItsOwn, HangupStands
    <3> QED BY <3>1, <3>4 DEF AnswersStand
  <2>2. CASE PollTimesOut  BY <2>2, ReturnStands DEF PollTimesOut
  <2>3. CASE PollInterrupted  BY <2>3, ReturnStands DEF PollInterrupted
  <2>4. CASE PollFails
    BY <2>4 DEF PollFails, StartDispatch, user, fds, AnswersStand, AsksForItsOwn,
                HangupStands
  <2> QED BY <1>9, <2>1, <2>2, <2>3, <2>4 DEF Poll
<1>10. CASE DispatchDone
  BY <1>10, ReturnStands DEF DispatchDone
<1>11. ASSUME pc = "dispatch", it <= Len(rules), NEW p,
              \/ DispatchError(p) \/ DispatchCancel(p) \/ DispatchThrows(p)
              \/ DispatchReady(p) \/ DispatchSkip(p)
       PROVE  AnswersStand'
  <2>0. it \in 1 .. Len(rules) /\ rules[it] \in Rules
    BY <1>11 DEF TypeOK
  <2>1. CASE DispatchError(p)  BY <2>1, ReturnStands DEF DispatchError
  <2>2. CASE DispatchCancel(p)
    <3>1. RemoveAt(rules, it) \in Seq(Rules)  BY <1>0, <2>0, RemoveAtElements
    <3> QED BY <1>0, <2>2, <3>1, UserCodeStands DEF DispatchCancel
  <2>3. CASE DispatchThrows(p)  BY <2>3, ReturnStands DEF DispatchThrows
  <2>4. CASE DispatchReady(p)
    <3>1. PICK drained \in SUBSET Descriptors, ended \in SUBSET {FdOf[rules[it]]} :
             /\ UserCode(rules, drained, ended)
             /\ Return("BusyThrew") \/ UNCHANGED <<pc, pollfds>>
      BY <2>4 DEF DispatchReady, Callback
    <3>2. ended \in SUBSET Descriptors  BY <2>0
    <3> QED BY <1>0, <3>1, <3>2, UserCodeStands, ReturnStands
  <2>5. CASE DispatchSkip(p)  BY <1>1, <2>5 DEF DispatchSkip, user, fds
  <2> QED BY <1>11, <2>1, <2>2, <2>3, <2>4, <2>5
<1> QED BY <1>1, <1>2, <1>3, <1>4, <1>5, <1>6, <1>7, <1>8, <1>9, <1>10, <1>11
        DEF Next, wait_next_event, Setup, Dispatch, vars, user, fds, locals

\* User code erases nothing: the rules that go were not in its list.
LEMMA UserCodeErasesNothing ==
  ASSUME TypeOK, NEW list \in Seq(Rules), NEW drained,
         NEW ended \in SUBSET Descriptors, UserCode(list, drained, ended),
         NEW k \in 1 .. Len(list)
  PROVE  list[k] \in Installed'
<1>1. list[k] = rules'[k] /\ k \in 1 .. Len(rules')
  BY UserCodeKeeps
<1> QED BY <1>1 DEF Installed

\* A rule that goes away in a step that erases position it was at it.
LEMMA OnlyTheErased ==
  ASSUME TypeOK, it \in 1 .. Len(rules), UserCode(RemoveAt(rules, it), {}, {}),
         NEW r \in Installed \ Installed'
  PROVE  r = rules[it]
<1> DEFINE list == RemoveAt(rules, it)
<1>1. PICK k \in 1 .. Len(rules) : r = rules[k]  BY DEF Installed
<1>2. /\ list \in Seq(Rules) /\ Len(list) = Len(rules) - 1
      /\ \A j \in 1 .. Len(rules) - 1 :
             list[j] = IF j < it THEN rules[j] ELSE rules[j + 1]
  BY RemoveAtElements DEF TypeOK
<1> HIDE DEF list
<1>3. \A j \in 1 .. Len(list) : list[j] # r
  BY <1>2, UserCodeErasesNothing DEF list
<1>4. CASE k < it
  <2>1. Len(rules) \in Nat /\ k \in 1 .. Len(rules) - 1  BY <1>4 DEF TypeOK
  <2>2. list[k] = rules[k]  BY <1>2, <1>4, <2>1
  <2> QED BY <1>1, <1>2, <1>3, <2>1, <2>2
<1>5. CASE k > it
  <2>1. k - 1 \in 1 .. Len(rules) - 1 /\ ~(k - 1 < it) /\ (k - 1) + 1 = k
    BY <1>5 DEF TypeOK
  <2>2. list[k - 1] = rules[k]  BY <1>2, <2>1
  <2> QED BY <1>1, <1>2, <1>3, <2>1, <2>2
<1> QED BY <1>1, <1>4, <1>5 DEF TypeOK

\* A hangup never makes wait_next_event() drop a rule while bytes are unread,
\* although the answer of poll(2) is old when the second loop acts on it.
THEOREM NothingReadableLostCorrect == Spec => NothingReadableLost
<1> DEFINE Lossless ==
      \A r \in Installed \ Installed' :
          DirOf[r] = "IN" /\ FdOf[r] \notin eof /\ idx <= Len(pollfds)
              => "IN" \notin cond[FdOf[r]]
<1>1. TypeOK /\ Aligned /\ AnswersStand /\ [Next]_vars => [Lossless]_vars
  <2> SUFFICES ASSUME TypeOK, Aligned, AnswersStand, Next,
                      NEW r \in Installed \ Installed',
                      DirOf[r] = "IN", FdOf[r] \notin eof, idx <= Len(pollfds)
               PROVE  "IN" \notin cond[FdOf[r]]
    OBVIOUS
  <2> USE EventLoopAssumption
  <2>0. rules \in Seq(Rules) /\ {} \in SUBSET Descriptors /\ closed \subseteq eof
    BY DEF TypeOK
  <2>1. rules' # rules  BY DEF Installed
  <2>2. ~\E drained, ended : /\ ended \in SUBSET Descriptors
                             /\ UserCode(rules, drained, ended)
    BY <2>0, UserCodeErasesNothing DEF Installed
  <2>3. CASE SetupCancel
    <3>1. it \in 1 .. Len(rules) /\ UserCode(RemoveAt(rules, it), {}, {}) /\ NoMoreToPoll
      BY <2>3 DEF SetupCancel, TypeOK
    <3>2. r = rules[it]  BY <3>1, OnlyTheErased
    <3> QED BY <2>0, <3>1, <3>2 DEF NoMoreToPoll, Fd
  <2>4. ASSUME pc = "dispatch", it <= Len(rules), NEW p \in Entries, DispatchCancel(p)
        PROVE  "IN" \notin cond[FdOf[r]]
    <3>1. it \in 1 .. Len(rules) /\ UserCode(RemoveAt(rules, it), {}, {}) /\ Defunct(p)
      BY <2>4 DEF DispatchCancel, TypeOK
    <3>2. r = rules[it]  BY <3>1, OnlyTheErased
    <3>3. p = pollfds[idx] /\ idx \in 1 .. Len(pollfds) /\ p \in PollfdType
      BY <2>4 DEF Entries, TypeOK
    <3>4. p.rule = r
      <4>1. it \in it .. Len(rules) /\ idx + (it - it) = idx  BY <3>1 DEF TypeOK
      <4> QED BY <2>4, <3>2, <3>3, <4>1 DEF Aligned
    <3>5. AsksForItsOwn(p) /\ HangupStands(p)  BY <3>3 DEF AnswersStand
    <3>6. p.events = {"IN"} /\ "IN" \notin p.revents /\ "HUP" \in p.revents
      BY <3>1, <3>4, <3>5 DEF Defunct, PollReady, AsksForItsOwn
    <3> QED BY <2>0, <3>4, <3>5, <3>6 DEF HangupStands
  <2>5. ASSUME pc = "dispatch", it <= Len(rules), NEW p, DispatchReady(p) PROVE FALSE
    <3>1. rules[it] \in Rules  BY <2>5 DEF TypeOK
    <3>2. PICK drained \in SUBSET Descriptors, ended \in SUBSET {FdOf[rules[it]]} :
             UserCode(rules, drained, ended)
      BY <2>5 DEF DispatchReady, Callback
    <3> QED BY <2>2, <3>1, <3>2
  <2>6. ASSUME pc = "dispatch", it <= Len(rules), NEW p, DispatchThrows(p) PROVE FALSE
    <3>1. rules[it] \in Rules  BY <2>6 DEF TypeOK
    <3>2. PICK drained \in SUBSET Descriptors, ended \in SUBSET {FdOf[rules[it]]} :
             UserCode(rules, drained, ended)
      BY <2>6 DEF DispatchThrows, Callback
    <3> QED BY <2>2, <3>1, <3>2
  <2>7. ASSUME NEW p, DispatchError(p) \/ DispatchSkip(p) PROVE FALSE
    BY <2>1, <2>7 DEF DispatchError, DispatchSkip, user
  <2>8. ~Caller /\ ~SetupCancelThrows
    BY <2>0, <2>2 DEF Caller, SetupCancelThrows
  <2>9. ~Kernel /\ ~Call /\ ~SetupPollfd /\ ~SetupDone /\ ~Poll /\ ~DispatchDone
    BY <2>1 DEF Kernel, Call, SetupPollfd, SetupDone, Poll, PollReturns, PollTimesOut,
                PollInterrupted, PollFails, StartDispatch, DispatchDone, user
  <2> QED BY <2>3, <2>4, <2>5, <2>6, <2>7, <2>8, <2>9
          DEF Next, wait_next_event, Setup, Dispatch
<1>2. Init => AnswersStand
  <2> SUFFICES ASSUME Init PROVE AnswersStand  OBVIOUS
  <2>1. pollfds = <<>> /\ Len(<<>>) = 0  BY DEF Init
  <2> QED BY <2>1 DEF AnswersStand
<1>3. NothingReadableLost <=> [][Lossless]_vars
  BY PTL DEF NothingReadableLost
<1> QED BY <1>1, <1>2, <1>3, TypeCorrect, AlignedCorrect, StandInductive, PTL DEF Spec

-----------------------------------------------------------------------------
(* A call that found something to do did something, or says so.            *)

\* No rule is in the list twice, and none has two pollfds.
Once == \A j, k \in 1 .. Len(rules) : rules[j] = rules[k] => j = k

PolledOnce ==
    \A j, k \in 1 .. Len(pollfds) : pollfds[j].rule = pollfds[k].rule => j = k

\* From pollfd `first' on, a rule that was polled for its event still wants it.
StillWanted(first) ==
    \A j \in first .. Len(pollfds) :
        pollfds[j].events # {} => pollfds[j].rule \in wants

\* A ready rule that the second loop has passed gave up its interest.
PassedGaveUp ==
    \A j \in 1 .. Len(pollfds) :
        j < idx /\ PollReady(pollfds[j]) => pollfds[j].rule \notin wants

\* What NoSpin needs to be inductive: as long as nothing was served or erased,
\* no user code ran but that of ready rules, each of which had to use it to
\* give up its own interest; so the list has not grown either.
Quiet ==
    /\ PolledOnce
    /\ pc # "idle" => result = "None"
    /\ pc \in {"setup", "poll"} => ~grown /\ (served = {} => StillWanted(1))
    /\ pc = "dispatch" /\ served = {} => ~grown /\ StillWanted(idx) /\ PassedGaveUp

\* add_rule() never adds a rule that is in the list.
LEMMA UserCodeOnce ==
  ASSUME TypeOK, NEW list \in Seq(Rules), NEW drained, NEW ended,
         UserCode(list, drained, ended),
         \A k \in 1 .. Len(list) : list[k] \in Installed,
         \A j, k \in 1 .. Len(list) : list[j] = list[k] => j = k
  PROVE  Once'
<1>1. CASE rules' = list  BY <1>1 DEF Once
<1>2. ASSUME NEW r \in Rules \ Installed, rules' = Append(list, r)  PROVE Once'
  <2>1. /\ Len(rules') = Len(list) + 1 /\ Len(list) \in Nat
        /\ \A k \in 1 .. Len(list) : rules'[k] = list[k]
        /\ rules'[Len(list) + 1] = r
    BY <1>2, AppendProperties
  <2>2. SUFFICES ASSUME NEW j \in 1 .. Len(rules'), NEW k \in 1 .. Len(rules'),
                        rules'[j] = rules'[k]
                 PROVE  j = k
    BY DEF Once
  <2>3. /\ j \in 1 .. Len(list) \/ j = Len(list) + 1
        /\ k \in 1 .. Len(list) \/ k = Len(list) + 1
    BY <2>1
  <2> QED BY <2>1, <2>2, <2>3
<1>3. rules' = list \/ \E r \in Rules \ Installed : rules' = Append(list, r)
  BY DEF UserCode, DoesNothing, AddsRule, ClosesFd, ChangesInterest, add_rule
<1> QED BY <1>1, <1>2, <1>3

\* The same of the list without the rule that the loop erases.
LEMMA EraseOnce ==
  ASSUME TypeOK, Once, it \in 1 .. Len(rules), UserCode(RemoveAt(rules, it), {}, {})
  PROVE  Once'
<1> DEFINE list == RemoveAt(rules, it)
<1>1. /\ list \in Seq(Rules) /\ Len(list) = Len(rules) - 1
      /\ \A k \in 1 .. Len(rules) - 1 :
            list[k] = IF k < it THEN rules[k] ELSE rules[k + 1]
  BY RemoveAtElements DEF TypeOK
<1>2. UserCode(list, {}, {})  OBVIOUS
<1> HIDE DEF list
<1> DEFINE at(k) == IF k < it THEN k ELSE k + 1
<1>3. ASSUME NEW k \in 1 .. Len(list)
      PROVE  at(k) \in 1 .. Len(rules) /\ list[k] = rules[at(k)]
  <2>1. Len(rules) \in Nat /\ k \in 1 .. Len(rules) - 1  BY <1>1 DEF TypeOK
  <2>2. list[k] = IF k < it THEN rules[k] ELSE rules[k + 1]  BY <1>1, <2>1
  <2>3. CASE k < it  BY <2>1, <2>2, <2>3
  <2>4. CASE ~(k < it)  BY <2>1, <2>2, <2>4
  <2> QED BY <2>3, <2>4
<1>4. ASSUME NEW j \in 1 .. Len(list), NEW k \in 1 .. Len(list), at(j) = at(k)
      PROVE  j = k
  <2>1. j \in Int /\ k \in Int /\ it \in Int  BY <1>1 DEF TypeOK
  <2> QED BY <1>4, <2>1
<1> HIDE DEF at
<1>5. \A k \in 1 .. Len(list) : list[k] \in Installed
  BY <1>3 DEF Installed
<1>6. \A j, k \in 1 .. Len(list) : list[j] = list[k] => j = k
  BY <1>3, <1>4 DEF Once
<1> QED BY <1>1, <1>2, <1>5, <1>6, UserCodeOnce

\* No step puts a rule into the list twice.
LEMMA OnceInductive == TypeOK /\ Once /\ [Next]_vars => Once'
<1> SUFFICES ASSUME TypeOK, Once, [Next]_vars PROVE Once'  OBVIOUS
<1>0. /\ rules \in Seq(Rules)
      /\ \A k \in 1 .. Len(rules) : rules[k] \in Installed
      /\ \A j, k \in 1 .. Len(rules) : rules[j] = rules[k] => j = k
  BY DEF TypeOK, Installed, Once
<1>1. ASSUME UNCHANGED rules PROVE Once'  BY <1>1 DEF Once
<1>2. ASSUME NEW drained, NEW ended, UserCode(rules, drained, ended) PROVE Once'
  BY <1>0, <1>2, UserCodeOnce
<1>3. CASE Caller \/ SetupCancelThrows
  BY <1>2, <1>3 DEF Caller, SetupCancelThrows
<1>4. CASE SetupCancel
  <2>1. it \in 1 .. Len(rules)  BY <1>4 DEF SetupCancel, TypeOK
  <2> QED BY <1>4, <2>1, EraseOnce DEF SetupCancel
<1>5. ASSUME it <= Len(rules), NEW p,
             \/ DispatchError(p) \/ DispatchCancel(p) \/ DispatchThrows(p)
             \/ DispatchReady(p) \/ DispatchSkip(p)
      PROVE  Once'
  <2>1. CASE DispatchCancel(p)
    <3>1. it \in 1 .. Len(rules)  BY <1>5 DEF TypeOK
    <3> QED BY <2>1, <3>1, EraseOnce DEF DispatchCancel
  <2>2. CASE DispatchThrows(p) \/ DispatchReady(p)
    BY <1>2, <2>2 DEF DispatchThrows, DispatchReady, Callback
  <2>3. CASE DispatchError(p) \/ DispatchSkip(p)
    BY <1>1, <2>3 DEF DispatchError, DispatchSkip, user
  <2> QED BY <1>5, <2>1, <2>2, <2>3
<1>6. CASE Kernel \/ Call \/ SetupPollfd \/ SetupDone \/ Poll \/ DispatchDone
  BY <1>1, <1>6 DEF Kernel, Call, SetupPollfd, SetupDone, Poll, PollReturns, PollTimesOut,
                    PollInterrupted, PollFails, StartDispatch, DispatchDone, user
<1> QED BY <1>1, <1>3, <1>4, <1>5, <1>6
        DEF Next, wait_next_event, Setup, Dispatch, vars, user

\* Leaving wait_next_event() makes Quiet true.
LEMMA ReturnQuiet ==
  ASSUME NEW r, Return(r) PROVE Quiet'
<1>1. pollfds' = <<>> /\ pc' = "idle"  BY DEF Return
<1>2. Len(pollfds') = 0  BY <1>1
<1> QED BY <1>1, <1>2 DEF Quiet, PolledOnce

\* No step leaves a ready rule behind that still wants its event.
LEMMA QuietInductive ==
  TypeOK /\ InOrder /\ Once /\ Quiet /\ [Next]_vars => Quiet'
<1> SUFFICES ASSUME TypeOK, InOrder, Once, Quiet, [Next]_vars PROVE Quiet'  OBVIOUS
<1> USE EventLoopAssumption
<1>1. CASE UNCHANGED vars
  BY <1>1 DEF vars, user, fds, locals, history, Quiet, PolledOnce, StillWanted,
              PassedGaveUp, PollReady
<1>2. CASE Kernel
  BY <1>2 DEF Kernel, locals, history, Quiet, PolledOnce, StillWanted,
              PassedGaveUp, PollReady
<1>3. CASE Caller
  BY <1>3 DEF Caller, locals, Quiet, PolledOnce
<1>4. CASE Call
  <2>1. /\ pc' = "setup" /\ result' = "None" /\ ~grown' /\ UNCHANGED pollfds
        /\ pc = "idle"
    BY <1>4 DEF Call, locals
  <2>2. Len(pollfds) = 0  BY <2>1 DEF TypeOK, InOrder
  <2>3. Len(pollfds') = 0  BY <2>1, <2>2
  <2> QED BY <2>1, <2>3 DEF Quiet, PolledOnce, StillWanted
<1>5. CASE SetupCancel
  <2>1. /\ pc = "setup" /\ served' # {} /\ UNCHANGED <<pc, pollfds, result, grown>>
    BY <1>5 DEF SetupCancel, locals
  <2> QED BY <2>1 DEF Quiet, PolledOnce
<1>6. CASE SetupCancelThrows
  BY <1>6, ReturnQuiet DEF SetupCancelThrows
<1>7. CASE SetupPollfd
  <2> DEFINE r == rules[it]
             p == [rule |-> r, events |-> IF r \in wants THEN {DirOf[r]} ELSE {},
                   revents |-> {}]
  <2>1. /\ pc = "setup" /\ it \in 1 .. Len(rules) /\ r \in Rules
        /\ pc' = "setup" /\ UNCHANGED <<result, wants, served, grown>>
    BY <1>7 DEF SetupPollfd, user, history, TypeOK
  <2>2. p \in PollfdType /\ p.rule = rules[it] /\ (p.events # {} => p.rule \in wants)
    BY <2>1 DEF PollfdType
  <2>3. pollfds' = pollfds \o <<p>>  BY <1>7 DEF SetupPollfd, Pollfds
  <2> HIDE DEF p
  <2>4. /\ Len(pollfds') = it /\ it \in Nat
        /\ \A j \in 1 .. it - 1 : pollfds'[j] = pollfds[j]
        /\ pollfds'[it] = p
    <3>1. Len(pollfds) = it - 1 /\ pollfds \in Seq(PollfdType)  BY <2>1 DEF TypeOK
    <3> QED BY <2>1, <2>2, <2>3, <3>1, ConcatProperties
  <2>5. \A j \in 1 .. it : pollfds'[j].rule = rules[j] /\ j \in 1 .. Len(rules)
    BY <2>1, <2>2, <2>4 DEF InOrder, TypeOK
  <2>6. PolledOnce'
    <3> SUFFICES ASSUME NEW j \in 1 .. it, NEW k \in 1 .. it,
                        pollfds'[j].rule = pollfds'[k].rule
                 PROVE  j = k
      BY <2>4 DEF PolledOnce
    <3> QED BY <2>5 DEF Once
  <2>7. ASSUME served' = {} PROVE StillWanted(1)'
    <3> SUFFICES ASSUME NEW j \in 1 .. it, pollfds'[j].events # {}
                 PROVE  pollfds'[j].rule \in wants
      BY <2>1, <2>4 DEF StillWanted
    <3>1. CASE j = it  BY <2>2, <2>4, <3>1
    <3>2. CASE j # it
      <4>1. Len(pollfds) = it - 1  BY <2>1 DEF TypeOK
      <4>2. j \in 1 .. Len(pollfds) /\ pollfds'[j] = pollfds[j]  BY <2>4, <3>2, <4>1
      <4> QED BY <2>1, <2>7, <4>2 DEF Quiet, StillWanted
    <3> QED BY <3>1, <3>2
  <2> QED BY <2>1, <2>6, <2>7 DEF Quiet
<1>8. CASE SetupDone
  <2>1. CASE Return("Exit")  BY <2>1, ReturnQuiet
  <2>2. CASE pc' = "poll" /\ UNCHANGED <<locals, result>>
    BY <1>8, <2>2 DEF SetupDone, user, locals, history, Quiet, PolledOnce, StillWanted
  <2> QED BY <1>8, <2>1, <2>2 DEF SetupDone
<1>9. CASE Poll
  <2>1. ASSUME pc = "poll", NEW answers \in Seq(PollfdType), StartDispatch(answers),
               Len(answers) = Len(pollfds),
               \A j \in 1 .. Len(pollfds) : /\ answers[j].rule = pollfds[j].rule
                                            /\ answers[j].events = pollfds[j].events
        PROVE  Quiet'
    <3>1. /\ pc' = "dispatch" /\ idx' = 1 /\ pollfds' = answers
          /\ UNCHANGED <<wants, served, grown, result>>
      BY <2>1 DEF StartDispatch, user
    <3>2. PolledOnce'  BY <2>1, <3>1 DEF Quiet, PolledOnce
    <3>3. served = {} => StillWanted(idx)'
      BY <2>1, <3>1 DEF Quiet, StillWanted
    <3>4. PassedGaveUp'  BY <3>1 DEF PassedGaveUp
    <3> QED BY <2>1, <3>1, <3>2, <3>3, <3>4 DEF Quiet
  <2>2. CASE PollReturns
    <3> DEFINE answers == [i \in 1 .. Len(pollfds) |->
                 [pollfds[i] EXCEPT !.revents = Reported(pollfds[i])]]
    <3>1. /\ pc = "poll" /\ StartDispatch(answers)  BY <2>2 DEF PollReturns
    <3>2. pollfds' = answers /\ pollfds' \in Seq(PollfdType)
      BY <3>1, TypeInductive DEF StartDispatch, TypeOK
    <3>3. \A j \in 1 .. Len(pollfds) : pollfds[j] \in PollfdType  BY DEF TypeOK
    <3>4. \A j \in 1 .. Len(pollfds) : /\ answers[j].rule = pollfds[j].rule
                                       /\ answers[j].events = pollfds[j].events
      BY <3>3 DEF PollfdType
    <3>5. Len(answers) = Len(pollfds)  BY DEF TypeOK
    <3> HIDE DEF answers
    <3> QED BY <2>1, <3>1, <3>2, <3>4, <3>5
  <2>3. CASE PollTimesOut  BY <2>3, ReturnQuiet DEF PollTimesOut
  <2>4. CASE PollInterrupted  BY <2>4, ReturnQuiet DEF PollInterrupted
  <2>5. CASE PollFails  BY <2>1, <2>5 DEF PollFails, TypeOK
  <2> QED BY <1>9, <2>2, <2>3, <2>4, <2>5 DEF Poll
<1>10. CASE DispatchDone
  BY <1>10, ReturnQuiet DEF DispatchDone
<1>11. ASSUME pc = "dispatch", it <= Len(rules), NEW p \in Entries,
              \/ DispatchError(p) \/ DispatchCancel(p) \/ DispatchThrows(p)
              \/ DispatchReady(p) \/ DispatchSkip(p)
       PROVE  Quiet'
  <2>0. it \in 1 .. Len(rules) /\ idx \in Nat \ {0} /\ Len(pollfds) \in Nat
    BY <1>11 DEF TypeOK
  <2>1. CASE DispatchError(p)  BY <2>1, ReturnQuiet DEF DispatchError
  <2>2. CASE DispatchCancel(p)
    <3>1. /\ served' # {} /\ UNCHANGED <<pc, pollfds, result>>
      BY <2>2 DEF DispatchCancel
    <3> QED BY <1>11, <3>1 DEF Quiet, PolledOnce
  <2>3. CASE DispatchThrows(p)  BY <2>3, ReturnQuiet DEF DispatchThrows
  <2>4. ASSUME served = {}
        PROVE  /\ idx \in 1 .. Len(pollfds) /\ p = pollfds[idx]
               /\ p.rule = rules[it]
               /\ ~grown /\ StillWanted(idx) /\ PassedGaveUp
    <3>1. ~grown /\ StillWanted(idx) /\ PassedGaveUp  BY <1>11, <2>4 DEF Quiet
    <3>2. it \in it .. Len(rules) /\ idx + (it - it) = idx  BY <2>0
    <3>3. idx <= Len(pollfds) /\ pollfds[idx].rule = rules[it]
      BY <1>11, <3>1, <3>2 DEF InOrder, Aligned
    <3>4. p = pollfds[idx]  BY <1>11, <3>3 DEF Entries
    <3> QED BY <2>0, <3>1, <3>3, <3>4
  <2>5. CASE DispatchReady(p)
    <3>1. PICK serves \in BOOLEAN, drained \in SUBSET Descriptors,
               ended \in SUBSET {FdOf[rules[it]]} :
             /\ UserCode(rules, drained, ended)
             /\ served' = IF serves THEN served \cup {rules[it]} ELSE served
             /\ \/ Return("BusyThrew")
                \/ /\ ~BusyWait(rules[it], serves) /\ NextRule
                   /\ UNCHANGED <<pc, pollfds, result>>
      BY <2>5 DEF DispatchReady, Callback
    <3>2. /\ PollReady(p) /\ grown' = (grown \/ Len(rules') > Len(rules))
      BY <2>5 DEF DispatchReady
    <3>3. CASE Return("BusyThrew")  BY <3>3, ReturnQuiet
    <3>4. ASSUME ~BusyWait(rules[it], serves), idx' = idx + 1,
                 UNCHANGED <<pc, pollfds, result>>
          PROVE  Quiet'
      <4>1. CASE served' # {}  BY <1>11, <3>4, <4>1 DEF Quiet, PolledOnce
      <4>2. CASE served' = {}
        <5>1. served = {} /\ ~serves  BY <3>1, <4>2
        <5>2. rules[it] \notin wants'  BY <3>4, <5>1 DEF BusyWait
        <5>3. rules[it] \in wants
          <6>1. p.events # {}  BY <3>2 DEF PollReady
          <6>2. idx \in idx .. Len(pollfds)  BY <2>4, <5>1
          <6> QED BY <2>4, <5>1, <6>1, <6>2 DEF StillWanted
        <5>4. ChangesInterest(rules)
          BY <3>1, <5>2, <5>3 DEF UserCode, DoesNothing, AddsRule, ClosesFd
        <5>5. wants' = wants \ {rules[it]} /\ rules' = rules
          BY <5>2, <5>3, <5>4 DEF ChangesInterest
        <5>6. ~grown'
          <6>1. ~(Len(rules') > Len(rules))  BY <5>5 DEF TypeOK
          <6> QED BY <2>4, <3>2, <5>1, <6>1
        <5>7. StillWanted(idx)'
          <6> SUFFICES ASSUME NEW j \in (idx + 1) .. Len(pollfds), pollfds[j].events # {}
                       PROVE  pollfds[j].rule \in wants'
            BY <3>4 DEF StillWanted
          <6>1. /\ j \in idx .. Len(pollfds) /\ j \in 1 .. Len(pollfds) /\ j # idx
            BY <2>0
          <6>2. pollfds[j].rule # rules[it]
            BY <2>4, <5>1, <6>1 DEF Quiet, PolledOnce
          <6>3. pollfds[j].rule \in wants  BY <2>4, <5>1, <6>1 DEF StillWanted
          <6> QED BY <5>5, <6>2, <6>3
        <5>8. PassedGaveUp'
          <6> SUFFICES ASSUME NEW j \in 1 .. Len(pollfds), j < idx + 1,
                              PollReady(pollfds[j])
                       PROVE  pollfds[j].rule \notin wants'
            BY <3>4 DEF PassedGaveUp, PollReady
          <6>1. CASE j = idx  BY <2>4, <5>1, <5>2, <6>1
          <6>2. CASE j # idx
            <7>1. j < idx  BY <2>0, <6>2
            <7> QED BY <2>4, <5>1, <5>5, <7>1 DEF PassedGaveUp
          <6> QED BY <6>1, <6>2
        <5> QED BY <1>11, <3>4, <5>6, <5>7, <5>8 DEF Quiet, PolledOnce
      <4> QED BY <4>1, <4>2
    <3> QED BY <3>1, <3>3, <3>4 DEF NextRule
  <2>6. CASE DispatchSkip(p)
    <3>1. /\ idx' = idx + 1 /\ UNCHANGED <<pc, pollfds, result, wants, served, grown>>
          /\ ~PollReady(p)
      BY <2>6 DEF DispatchSkip, NextRule, user, history
    <3>2. CASE served # {}  BY <1>11, <3>1, <3>2 DEF Quiet, PolledOnce
    <3>3. CASE served = {}
      <4>1. StillWanted(idx)'
        <5>1. \A j \in (idx + 1) .. Len(pollfds) : j \in idx .. Len(pollfds)
          BY <2>0
        <5> QED BY <2>4, <3>1, <3>3, <5>1 DEF StillWanted
      <4>2. PassedGaveUp'
        <5> SUFFICES ASSUME NEW j \in 1 .. Len(pollfds), j < idx + 1,
                            PollReady(pollfds[j])
                     PROVE  pollfds[j].rule \notin wants
          BY <3>1 DEF PassedGaveUp, PollReady
        <5>1. j # idx  BY <2>4, <3>1, <3>3
        <5>2. j < idx  BY <2>0, <5>1
        <5> QED BY <2>4, <3>3, <5>2 DEF PassedGaveUp
      <4> QED BY <1>11, <2>4, <3>1, <3>3, <4>1, <4>2 DEF Quiet, PolledOnce
    <3> QED BY <3>2, <3>3
  <2> QED BY <1>11, <2>1, <2>2, <2>3, <2>5, <2>6
<1> QED BY <1>1, <1>2, <1>3, <1>4, <1>5, <1>6, <1>7, <1>8, <1>9, <1>10, <1>11
        DEF Next, wait_next_event, Setup, Dispatch

\* wait_next_event() never returns Success from a call that found an event it
\* had asked for unless something came of it: its busy-wait check cannot be
\* passed by all the callbacks of a call without any effect.
THEOREM NoSpinCorrect == Spec => NoSpin
<1> DEFINE Spun ==
      /\ pc = "dispatch" /\ result' = "Success"
      /\ \E i \in 1 .. Len(pollfds) : PollReady(pollfds[i])
<1> DEFINE Moved ==
      \/ served # {}
      \/ \E i \in 1 .. Len(pollfds) :
            pollfds[i].events # {} /\ pollfds[i].rule \notin wants
<1>1. TypeOK /\ InOrder /\ Quiet /\ [Next]_vars => [Spun => Moved]_vars
  <2> SUFFICES ASSUME TypeOK, InOrder, Quiet, Next, pc = "dispatch", result' = "Success",
                      NEW i \in 1 .. Len(pollfds), PollReady(pollfds[i]), served = {}
               PROVE  pollfds[i].events # {} /\ pollfds[i].rule \notin wants
    OBVIOUS
  <2>1. result = "None"  BY DEF Quiet
  <2>2. ~\E r \in Results \ {"Success"} : Return(r)
    BY DEF Return
  <2>3. DispatchDone
    <3>1. ~UNCHANGED result  BY <2>1
    <3>2. ~Kernel /\ ~Caller /\ ~Call /\ ~Setup /\ ~Poll
      BY <3>1 DEF Kernel, Caller, Call, Setup, SetupCancel, SetupCancelThrows, SetupPollfd,
             SetupDone, Poll, PollReturns, PollTimesOut, PollInterrupted, PollFails
    <3>3. ASSUME NEW p
          PROVE  /\ ~DispatchError(p) /\ ~DispatchCancel(p) /\ ~DispatchThrows(p)
                 /\ ~DispatchReady(p) /\ ~DispatchSkip(p)
      BY <2>2, <3>1 DEF DispatchError, DispatchCancel, DispatchThrows, DispatchReady,
                        DispatchSkip, Results
    <3> QED BY <3>2, <3>3 DEF Next, wait_next_event, Dispatch
  <2>4. i < idx
    <3>1. it > Len(rules)  BY <2>3 DEF DispatchDone
    <3>2. Len(pollfds) <= idx + (Len(rules) - it)  BY DEF InOrder
    <3> QED BY <3>1, <3>2 DEF TypeOK
  <2>5. pollfds[i].rule \notin wants  BY <2>4 DEF Quiet, PassedGaveUp
  <2> QED BY <2>5 DEF PollReady
<1>2. Init => Once /\ Quiet
  <2> SUFFICES ASSUME Init PROVE Once /\ Quiet  OBVIOUS
  <2>1. rules = <<>> /\ pollfds = <<>> /\ pc = "idle" /\ Len(<<>>) = 0  BY DEF Init
  <2> QED BY <2>1 DEF Once, Quiet, PolledOnce
<1>3. NoSpin <=> [][Spun => Moved]_vars
  BY PTL DEF NoSpin
<1>4. Init => InOrder  BY DEF Init, InOrder, Aligned
<1> QED BY <1>1, <1>2, <1>3, <1>4, TypeCorrect, OrderInductive, OnceInductive,
           QuietInductive, PTL DEF Spec
=============================================================================
