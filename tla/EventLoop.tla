----------------------------- MODULE EventLoop ------------------------------
(***************************************************************************)
(* EventLoop (libsponge/util/eventloop.hh, eventloop.cc): add_rule() and   *)
(* wait_next_event(), which polls the descriptors of the rules and calls   *)
(* the callbacks of those that are ready.                                  *)
(*                                                                         *)
(* A step of the model is one turn of one of the two loops of              *)
(* wait_next_event(), or its call of poll(2), so that the kernel can move  *)
(* between them.  Iterators and indices count from 1; `it' is the position *)
(* in `rules' of the element the iterator points to.                       *)
(*                                                                         *)
(* Rule::callback, Rule::cancel, Rule::interest and the caller are user    *)
(* code.  A callback may read or write descriptors or not; each piece of   *)
(* user code may do at most one more thing: close a descriptor, add a      *)
(* rule, or change what an interest() returns; and it may then throw.      *)
(* `wants' is the set of the rules whose interest() returns true.          *)
(*                                                                         *)
(* The kernel is external: cond[d] is what poll(2) would now report of     *)
(* descriptor d if asked for everything.                                   *)
(*                                                                         *)
(* Three history variables, read by no action, are about the current or    *)
(* last call of wait_next_event(): `triggered' is the set of the rules     *)
(* whose callback or cancel was called, `served' that of those which read  *)
(* or wrote their descriptor or were erased, `grown' is whether add_rule() *)
(* was called during the second loop.                                      *)
(***************************************************************************)
EXTENDS Integers, Sequences, SequencesExt

CONSTANTS
    Rules,         \* the Rule objects
    Descriptors,   \* the FDWrapper objects
    FdOf,          \* Rule::fd
    DirOf,         \* Rule::direction: "IN" is POLLIN, "OUT" is POLLOUT
    Conditions,    \* what the kernel may come to report of a descriptor
    MaxIdx         \* bound: user code adds no rule once idx is beyond this

Flags == {"IN", "OUT", "HUP", "ERR", "NVAL"}

ASSUME EventLoopAssumption ==
    /\ FdOf \in [Rules -> Descriptors]
    /\ DirOf \in [Rules -> {"IN", "OUT"}]
    /\ Conditions \subseteq Flags \ {"NVAL"}
    /\ MaxIdx \in Nat

VARIABLES
    rules,                                \* EventLoop::_rules
    eof, closed,                          \* the flags of FDWrapper, as sets
    cond,                                 \* the kernel
    wants,                                \* what Rule::interest returns
    pc, pollfds, something_to_poll, it, idx,   \* inside wait_next_event()
    result,                               \* how the last call ended
    triggered, served, grown  \* history

fds     == <<eof, closed, cond>>
user    == <<rules, fds, wants>>
locals  == <<pollfds, something_to_poll, it, idx>>
history == <<triggered, served, grown>>
vars    == <<user, pc, locals, result, history>>

Installed == {rules[i] : i \in 1 .. Len(rules)}

Init ==
    /\ rules = <<>>
    /\ eof = {} /\ closed = {}
    /\ cond = [d \in Descriptors |-> {}]
    /\ wants = Rules
    /\ pc = "idle"
    /\ pollfds = <<>> /\ something_to_poll = FALSE /\ it = 1 /\ idx = 1
    /\ result = "None"
    /\ triggered = {} /\ served = {} /\ grown = FALSE

-----------------------------------------------------------------------------
(* The kernel.  Nothing new becomes readable or writable after a hangup,   *)
(* and a hangup or an error lasts.  Steps of the kernel are needed only    *)
(* where the code can tell: from poll(2) to the end of the second loop.    *)

Becomes(d, c) ==
    /\ c \notin cond[d] /\ cond[d] \cap {"HUP", "NVAL"} = {}
    /\ cond' = [cond EXCEPT ![d] = (IF c = "HUP" THEN @ \ {"OUT"} ELSE @) \cup {c}]

\* The number of a closed descriptor is given to another file.
Reused(d) ==
    /\ cond[d] = {"NVAL"}
    /\ cond' = [cond EXCEPT ![d] = {}]

Kernel ==
    /\ pc \in {"poll", "dispatch"}
    /\ \E d \in Descriptors : Reused(d) \/ \E c \in Conditions : Becomes(d, c)
    /\ UNCHANGED <<rules, eof, closed, wants, pc, locals, result, history>>

-----------------------------------------------------------------------------
(* User code. *)

\* add_rule(): duplicate the descriptor, push the rule back.  (The same rule
\* may be added again once it has been cancelled.)
add_rule(list, r) == Append(list, r)

\* User code does at most one thing besides serving its descriptor; the
\* rules, without those the loop erases, are `list'.
DoesNothing(list) ==
    rules' = list /\ UNCHANGED <<closed, wants>>

AddsRule(list) ==
    \E r \in Rules \ Installed :
        idx <= MaxIdx /\ rules' = add_rule(list, r) /\ UNCHANGED <<closed, wants>>

ClosesFd(list) ==
    \E d \in Descriptors \ closed :
        closed' = closed \cup {d} /\ rules' = list /\ UNCHANGED wants

ChangesInterest(list) ==
    \E r \in Rules :
        /\ wants' = IF r \in wants THEN wants \ {r} ELSE wants \cup {r}
        /\ rules' = list /\ UNCHANGED closed

\* User code that reads or writes the descriptors in `drained' until they
\* would block, and gets an end of file from those in `ended'.
UserCode(list, drained, ended) ==
    /\ \/ DoesNothing(list) \/ AddsRule(list)
       \/ ClosesFd(list) \/ ChangesInterest(list)
    /\ eof' = eof \cup ended \cup closed'
    /\ cond' = [d \in Descriptors |->
                   IF d \in closed' \ closed THEN {"NVAL"}
                   ELSE IF d \in drained THEN cond[d] \ {"IN", "OUT"}
                   ELSE cond[d]]

-----------------------------------------------------------------------------
(* wait_next_event(). *)

\* The function returns or throws, and its local variables are gone.
Return(r) ==
    /\ pc' = "idle" /\ result' = r
    /\ pollfds' = <<>> /\ something_to_poll' = FALSE /\ it' = 1 /\ idx' = 1

\* Between two calls the caller is free to do what user code does.
Caller ==
    /\ pc = "idle"
    /\ UserCode(rules, {}, {})
    /\ UNCHANGED <<pc, locals, result, history>>

Call ==
    /\ pc = "idle"
    /\ pc' = "setup" /\ result' = "None"
    /\ triggered' = {} /\ served' = {} /\ grown' = FALSE
    /\ UNCHANGED <<user, locals>>

Fd == FdOf[rules[it]]

\* Mutant: a closed descriptor is only noticed by a rule that reads.
NoMoreToPollReadersOnly == DirOf[rules[it]] = "IN" /\ Fd \in eof \cup closed

\* First loop: the rule reads and is at EOF, or its descriptor is closed.
NoMoreToPoll == (DirOf[rules[it]] = "IN" /\ Fd \in eof) \/ Fd \in closed

\* First loop, lines 69-80: cancel() is called, then the rule erased.
SetupCancel ==
    /\ pc = "setup" /\ it <= Len(rules) /\ NoMoreToPoll
    /\ UserCode(RemoveAt(rules, it), {}, {})
    /\ triggered' = triggered \cup {rules[it]}
    /\ served' = served \cup {rules[it]}
    /\ UNCHANGED <<pc, locals, result, grown>>

\* ... or cancel() throws, and the rule stays.
SetupCancelThrows ==
    /\ pc = "setup" /\ it <= Len(rules) /\ NoMoreToPoll
    /\ UserCode(rules, {}, {})
    /\ Return("UserThrew")
    /\ triggered' = triggered \cup {rules[it]}
    /\ UNCHANGED <<served, grown>>

\* Mutant: a rule that is not interested gets no pollfd.
PollfdsOfInterested(r) ==
    IF r \in wants THEN <<[rule |-> r, events |-> {DirOf[r]}, revents |-> {}]>> ELSE <<>>

\* The pollfd of a rule; its field `rule' stands for the descriptor's number.
Pollfds(r) ==
    <<[rule |-> r, events |-> IF r \in wants THEN {DirOf[r]} ELSE {}, revents |-> {}]>>

\* First loop, lines 82-88: every rule gets a pollfd, with no events in it if
\* the rule is not interested.
SetupPollfd ==
    /\ pc = "setup" /\ it <= Len(rules) /\ ~NoMoreToPoll
    /\ pollfds' = pollfds \o Pollfds(rules[it])
    /\ something_to_poll' = (something_to_poll \/ rules[it] \in wants)
    /\ it' = it + 1
    /\ UNCHANGED <<user, pc, idx, result, history>>

SetupDone ==
    /\ pc = "setup" /\ it > Len(rules)
    /\ \/ ~something_to_poll /\ Return("Exit")
       \/ something_to_poll /\ pc' = "poll" /\ UNCHANGED <<locals, result>>
    /\ UNCHANGED <<user, history>>

\* What poll(2) reports: of what was asked for, and errors and hangups always.
Reported(p) == cond[FdOf[p.rule]] \cap (p.events \cup {"HUP", "ERR", "NVAL"})

SomethingReported == \E i \in 1 .. Len(pollfds) : Reported(pollfds[i]) # {}

StartDispatch(answers) ==
    /\ pollfds' = answers
    /\ pc' = "dispatch" /\ it' = 1 /\ idx' = 1
    /\ UNCHANGED <<user, something_to_poll, result, triggered, served, grown>>

PollReturns ==
    /\ pc = "poll" /\ SomethingReported
    /\ StartDispatch([i \in 1 .. Len(pollfds) |->
                        [pollfds[i] EXCEPT !.revents = Reported(pollfds[i])]])

PollTimesOut ==
    /\ pc = "poll" /\ ~SomethingReported
    /\ Return("Timeout")
    /\ UNCHANGED <<user, history>>

PollInterrupted ==
    /\ pc = "poll"
    /\ Return("Exit")
    /\ UNCHANGED <<user, history>>

\* Any other error of poll(2) is caught and dropped: the second loop runs
\* over pollfds whose revents are still 0.
PollFails ==
    /\ pc = "poll"
    /\ StartDispatch(pollfds)

\* `pollfds[idx]': past the end of the vector it may hold anything.
Entries ==
    IF idx <= Len(pollfds) THEN {pollfds[idx]}
    ELSE [rule : {rules[it]}, events : {{}, {"IN"}, {"OUT"}}, revents : SUBSET Flags]

PollError(p) == p.revents \cap {"ERR", "NVAL"} # {}

PollReady(p) == p.revents \cap p.events # {}

\* Mutant: a hangup cancels the rule even if its descriptor is readable.
DefunctHup(p) == "HUP" \in p.revents /\ p.events # {}

\* The only condition that was reported is a hangup.
Defunct(p) == "HUP" \in p.revents /\ p.events # {} /\ ~PollReady(p)

\* One turn of the second loop, on the rule at `it' and the pollfd p: first
\* lines 112-115.
DispatchError(p) ==
    /\ PollError(p)
    /\ Return("PollThrew")
    /\ UNCHANGED <<user, history>>

\* Mutant: only turns that keep their rule move on to the next pollfd.
AdvanceOnErase == UNCHANGED <<it, idx>>

\* After an erase the iterator is already at the next rule.
Advance == idx' = idx + 1 /\ UNCHANGED it

\* Second loop, lines 120-127.
DispatchCancel(p) ==
    /\ ~PollError(p) /\ Defunct(p)
    /\ UserCode(RemoveAt(rules, it), {}, {})
    /\ Advance
    /\ triggered' = triggered \cup {rules[it]}
    /\ served' = served \cup {rules[it]}
    /\ grown' = (grown \/ Len(rules') = Len(rules))
    /\ UNCHANGED <<pc, pollfds, something_to_poll, result>>

\* The callback of r, up to its end or its throw.  If it serves its descriptor
\* it may leave something to read or write, drain it, or be told of its end.
Callback(r, serves) ==
    \E drained \in SUBSET Descriptors, ended \in SUBSET {FdOf[r]} :
        /\ serves => FdOf[r] \notin closed
        /\ FdOf[r] \in drained => serves /\ ended = {}
        /\ ended # {} => /\ serves /\ DirOf[r] = "IN"
                         /\ cond[FdOf[r]] \cap {"IN", "HUP"} # {}
        /\ UserCode(rules, drained, ended)
        /\ served' = IF serves THEN served \cup {r} ELSE served

\* cancel() or the callback throws in the second loop.
DispatchThrows(p) ==
    /\ ~PollError(p)
    /\ \/ Defunct(p) /\ UserCode(rules, {}, {}) /\ UNCHANGED served
       \/ ~Defunct(p) /\ PollReady(p) /\ \E serves \in BOOLEAN : Callback(rules[it], serves)
    /\ Return("UserThrew")
    /\ triggered' = triggered \cup {rules[it]}
    /\ UNCHANGED grown

\* Mutant: a callback that leaves its descriptor alone is never a busy wait.
BusyWaitNever(r, serves) == FALSE

\* service_count() did not change and the rule is still interested.
BusyWait(r, serves) == ~serves /\ r \in wants'

\* Mutant: the loop stops at the first rule it has looked at.
StopAtFirst == it' = Len(rules') + 1 /\ idx' = idx + 1

NextRule == it' = it + 1 /\ idx' = idx + 1

\* Second loop, lines 129-141: the callback returns.
DispatchReady(p) ==
    LET r == rules[it]
    IN  /\ ~PollError(p) /\ ~Defunct(p) /\ PollReady(p)
        /\ \E serves \in BOOLEAN :
              /\ Callback(r, serves)
              /\ \/ BusyWait(r, serves) /\ Return("BusyThrew")
                 \/ /\ ~BusyWait(r, serves) /\ NextRule
                    /\ UNCHANGED <<pc, pollfds, something_to_poll, result>>
        /\ triggered' = triggered \cup {r}
        /\ grown' = (grown \/ Len(rules') > Len(rules))

DispatchSkip(p) ==
    /\ ~PollError(p) /\ ~Defunct(p) /\ ~PollReady(p)
    /\ UNCHANGED <<user, pc, pollfds, something_to_poll, result, history>>
    /\ NextRule

DispatchDone ==
    /\ pc = "dispatch" /\ it > Len(rules)
    /\ Return("Success")
    /\ UNCHANGED <<user, history>>

-----------------------------------------------------------------------------

Setup == SetupCancel \/ SetupCancelThrows \/ SetupPollfd \/ SetupDone

Poll == PollReturns \/ PollTimesOut \/ PollInterrupted \/ PollFails

Dispatch ==
    \/ /\ pc = "dispatch" /\ it <= Len(rules)
       /\ \E p \in Entries : \/ DispatchError(p) \/ DispatchCancel(p)
                             \/ DispatchThrows(p) \/ DispatchReady(p)
                             \/ DispatchSkip(p)
    \/ DispatchDone

wait_next_event == Call \/ Setup \/ Poll \/ Dispatch

Next == Kernel \/ Caller \/ wait_next_event

Spec == Init /\ [][Next]_vars

\* A caller that keeps calling wait_next_event() (catching what it throws),
\* and a poll(2) that is not forever interrupted or out of memory.
FairSpec == Spec /\ WF_vars(wait_next_event) /\ SF_vars(PollReturns)

-----------------------------------------------------------------------------
(* Properties that hold of the code. *)

PollfdType == [rule : Rules, events : {{}, {"IN"}, {"OUT"}}, revents : SUBSET Flags]

Results ==
    {"None", "Success", "Timeout", "Exit", "PollThrew", "BusyThrew", "UserThrew"}

\* The variables keep their types; neither iterator ever points past the end
\* of the list; and when poll(2) is called the vector is as long as the list.
TypeOK ==
    /\ rules \in Seq(Rules) /\ wants \subseteq Rules
    /\ closed \subseteq eof /\ eof \subseteq Descriptors
    /\ cond \in [Descriptors -> SUBSET Flags]
    /\ pc \in {"idle", "setup", "poll", "dispatch"}
    /\ pollfds \in Seq(PollfdType)
    /\ something_to_poll \in BOOLEAN
    /\ it \in 1 .. Len(rules) + 1 /\ idx \in Nat \ {0}
    /\ pc \in {"idle", "setup"} => Len(pollfds) = it - 1
    /\ pc = "poll" => Len(pollfds) = Len(rules)
    /\ result \in Results
    /\ triggered \subseteq Rules /\ served \subseteq triggered
    /\ grown \in BOOLEAN

\* The two counters of the second loop stay in step however many rules are
\* erased: the pollfd that is looked at, and every later one, is that of the
\* rule it is used for; and the vector is too short only for rules that
\* add_rule() appended while the second loop was running.
Aligned ==
    pc = "dispatch" =>
        \A k \in it .. Len(rules) :
            IF idx + (k - it) <= Len(pollfds)
            THEN pollfds[idx + (k - it)].rule = rules[k]
            ELSE grown

\* A rule that reads is erased only when nothing is left to read: unless its
\* descriptor has been closed or read to its end, no unread byte is there.
NothingReadableLost ==
    [][\A r \in Installed \ Installed' :
            DirOf[r] = "IN" /\ FdOf[r] \notin eof /\ idx <= Len(pollfds)
                => "IN" \notin cond[FdOf[r]]]_vars

\* No silent busy wait: a call that found an event it had asked for returns
\* Success only if some rule served its descriptor or was erased, or a rule
\* that was polled is no longer interested.
NoSpin ==
    [][pc = "dispatch" /\ result' = "Success"
         /\ (\E i \in 1 .. Len(pollfds) : PollReady(pollfds[i]))
       => \/ served # {}
          \/ \E i \in 1 .. Len(pollfds) :
                pollfds[i].events # {} /\ pollfds[i].rule \notin wants]_vars

Threw == result \in {"PollThrew", "BusyThrew", "UserThrew"}

\* A rule that can read no more, or whose descriptor is closed.
Dead(r) ==
    r \in Installed /\ (FdOf[r] \in closed \/ (DirOf[r] = "IN" /\ FdOf[r] \in eof))

\* A rule that is interested, and whose event or hangup poll(2) would report.
Due(r) ==
    /\ r \in Installed /\ r \in wants /\ ~Dead(r)
    /\ cond[FdOf[r]] \cap {DirOf[r], "HUP"} # {}

\* Every call of wait_next_event() ends.  The first loop runs for ever if each
\* cancel() adds another rule that is already dead; then the rules behind the
\* iterator are never looked at again.  It takes such user code to break it.
CallsEnd == []<>(pc = "idle")

\* No starvation: as long as calls end, an interested rule whose descriptor is
\* ready or hung up is called or cancelled sooner or later, wherever it is in
\* the list, unless wait_next_event() throws before it gets there or the rule
\* ceases to be due.
DueRulesTriggered ==
    CallsEnd => \A r \in Rules : Due(r) ~> r \in triggered \/ ~Due(r) \/ Threw

\* As long as calls end, a dead rule is erased sooner or later, so that its
\* duplicate of the descriptor is released; only user code that throws can
\* prevent it.
DeadRulesErased ==
    CallsEnd => \A r \in Rules : Dead(r) ~> ~Dead(r) \/ result = "UserThrew"

-----------------------------------------------------------------------------
(* Statements of the source's comments that the code refutes. *)

\* eventloop.cc, above the first loop: "set up the pollfd for each rule", and
\* the second loop takes pollfds[idx] for each rule.
EveryRulePolled ==
    pc = "dispatch" /\ it <= Len(rules) => idx <= Len(pollfds)

\* eventloop.hh, Result::Success: "At least one Rule was triggered."
SuccessMeansTriggered ==
    result = "Success" => triggered # {}
=============================================================================
