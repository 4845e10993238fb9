------------------------- MODULE ManagerControlProofs -------------------------
(***************************************************************************)
(* The Manager keeps its types, and the direct process it tracks is down   *)
(* at the hand-over of an update, at its exit, and when another profile is *)
(* saved.                                                                  *)
(*                                                                         *)
(* The argument is about the dialogs: code behind exec() goes on after     *)
(* anything the tray and the tasks did in the nested loop.  The two        *)
(* dialogs behind which the Manager acts on the machine, the questions of  *)
(* an update and of a profile switch, are opened by the window alone, so   *)
(* that each is the outermost and they are never open together; and while  *)
(* one of them is open no update is under way.                             *)
(***************************************************************************)
EXTENDS ManagerControl, SequenceTheorems, TLAPS

USE BoundsAssumption

\* A call of the UI thread holds the event loop: nothing opens beside it, and the
\* process that start_direct saw (or not) does not begin meanwhile.
CallInv ==
    ui.at # "idle" =>
        /\ modals = <<>>
        /\ update = "none"
        /\ ui.at = "switch" => direct = "none"
        /\ direct = "running" => orphans < MaxOrphans

\* The questions of an update and of a switch are outermost and alone.
DialogInv ==
    \A i \in 1..Len(modals) :
        modals[i].what \in {"update", "switch"} =>
            /\ i = 1
            /\ update = "none"
            /\ modals[i].what = "switch" => direct = "none"

Down == NoDirectDuringHandover /\ ExitStopsDirect

Inv == TypeOK /\ CallInv /\ DialogInv /\ Down

-----------------------------------------------------------------------------
(* Dialogs and calls.                                                      *)

\* A dialog without an argument is a dialog, and so is no call a call.
LEMMA Values ==
    /\ NoProfile \in Profiles
    /\ Idle \in Calls
    /\ \A w \in {"update", "result", "exit", "switch"} : Dialog(w) \in Dialogs
<1>1. NoProfile \in Profiles
  BY DEF NoProfile
<1> QED
  BY <1>1 DEF Idle, Calls, Kinds, Dialog, Dialogs

\* An opened dialog lies above the others.
LEMMA Opened ==
    ASSUME TypeOK, NEW d \in Dialogs, Open(d)
    PROVE  /\ modals' \in Seq(Dialogs) /\ Len(modals') <= MaxModals
           /\ Len(modals') = Len(modals) + 1 /\ modals'[Len(modals')] = d
           /\ \A i \in 1..Len(modals) : modals'[i] = modals[i]
<1>1. modals \in Seq(Dialogs) /\ modals' = Append(modals, d) /\ Len(modals) < MaxModals
  BY DEF TypeOK, Open
<1>2. Len(modals) \in Nat
  BY <1>1, LenProperties
<1> QED
  BY <1>1, <1>2, AppendProperties

\* Closing one leaves the others.
LEMMA Closed ==
    ASSUME TypeOK, modals # <<>>, modals' = Rest
    PROVE  /\ modals' \in Seq(Dialogs) /\ Len(modals') <= MaxModals
           /\ Len(modals') = Len(modals) - 1
           /\ \A i \in 1..Len(modals') : modals'[i] = modals[i]
<1>1. modals \in Seq(Dialogs) /\ Len(modals) <= MaxModals
  BY DEF TypeOK
<1>2. Len(modals) \in Nat /\ Len(modals) # 0
  BY <1>1, EmptySeq, LenProperties
<1>3. modals' = SubSeq(modals, 1, Len(modals) - 1)
  BY DEF Rest
<1> QED
  <2> DEFINE n == Len(modals) - 1
  <2>1. n \in Nat /\ n < Len(modals)
    BY <1>2
  <2>2. \A i \in 1..n : i \in 1..Len(modals)
    BY <2>1, <1>2
  <2>3. modals' = SubSeq(modals, 1, n)
    BY <1>3
  <2> HIDE DEF n
  <2>4. /\ modals' \in Seq(Dialogs)
        /\ Len(modals') = IF 1 <= n THEN n - 1 + 1 ELSE 0
        /\ \A i \in 1..(n - 1 + 1) : modals'[i] = modals[1 + i - 1]
    BY <1>1, <1>2, <2>1, <2>2, <2>3, SubSeqProperties
  <2>5. Len(modals') = n /\ \A i \in 1..n : modals'[i] = modals[i]
    BY <2>1, <2>4
  <2> QED
    BY <1>1, <1>2, <2>1, <2>4, <2>5 DEF n

\* The innermost dialog of a stack.
LEMMA TopOf ==
    ASSUME TypeOK, modals # <<>>
    PROVE  Len(modals) \in Nat \ {0} /\ Len(modals) \in 1..Len(modals) /\ Top \in Dialogs
<1>1. modals \in Seq(Dialogs)
  BY DEF TypeOK
<1>2. Len(modals) \in Nat /\ Len(modals) # 0
  BY <1>1, EmptySeq, LenProperties
<1> QED
  BY <1>1, <1>2, ElementOfSeq DEF Top

\* Only a window or the tray opens dialogs, and only the answered one closes: the
\* questions stay outermost if none of them is opened beside another dialog.
LEMMA OpenedInv ==
    ASSUME Inv, NEW d \in Dialogs, Open(d), UNCHANGED <<update, direct>>,
           d.what \in {"update", "switch"} =>
               modals = <<>> /\ update = "none" /\ (d.what = "switch" => direct = "none")
    PROVE  DialogInv'
<1> SUFFICES ASSUME NEW i \in 1..Len(modals'), modals'[i].what \in {"update", "switch"}
             PROVE  i = 1 /\ update = "none" /\ (modals'[i].what = "switch" => direct = "none")
  BY DEF DialogInv
<1>1. Len(modals) \in Nat
  BY LenProperties DEF Inv, TypeOK
<1>2. /\ Len(modals') = Len(modals) + 1 /\ modals'[Len(modals')] = d
      /\ \A j \in 1..Len(modals) : modals'[j] = modals[j]
  BY Opened DEF Inv
<1>3. CASE i \in 1..Len(modals)
  BY <1>2, <1>3 DEF Inv, DialogInv
<1>4. CASE i = Len(modals')
  <2>1. modals = <<>> /\ update = "none" /\ (d.what = "switch" => direct = "none")
    BY <1>2, <1>4
  <2>2. Len(modals) = 0
    BY <2>1, EmptySeq
  <2> QED
    BY <1>2, <1>4, <2>1, <2>2
<1> QED
  BY <1>1, <1>2, <1>3, <1>4

\* Questions that are still open below a closed dialog stay outermost and alone.
LEMMA ClosedInv ==
    ASSUME Inv, modals # <<>>, modals' = Rest,
           \A i \in 1..Len(modals') :
               modals[i].what \in {"update", "switch"} =>
                   update' = "none" /\ (modals[i].what = "switch" => direct' = "none")
    PROVE  DialogInv'
<1>1. Len(modals) \in Nat /\ Len(modals') = Len(modals) - 1
  BY Closed, LenProperties DEF Inv, TypeOK
<1>2. \A i \in 1..Len(modals') : modals'[i] = modals[i] /\ i \in 1..Len(modals)
  BY <1>1, Closed DEF Inv
<1> QED
  BY <1>2 DEF Inv, DialogInv

\* A question at the top is the only dialog.
LEMMA QuestionAlone ==
    ASSUME Inv, modals # <<>>, Top.what \in {"update", "switch"}
    PROVE  Len(modals) = 1 /\ update = "none" /\ (Top.what = "switch" => direct = "none")
  BY TopOf DEF Inv, DialogInv, Top

-----------------------------------------------------------------------------
(* What the shared operators leave behind.                                 *)

\* The scripts of the operations are sequences of commands.
LEMMA Scripts ==
    /\ <<>> \in Seq(Commands)
    /\ {<<"up">>, <<"down">>, <<"down", "up">>} \subseteq Seq(Commands)
    /\ <<"down", "remove", "configure", "create", "up">> \in Seq(Commands)
  BY DEF Commands

\* An operation that begins, or is ignored, keeps the types.
LEMMA OperationTyped ==
    ASSUME TypeOK, NEW commands \in Seq(Commands), NEW p \in Profiles, RunOperation(commands, p)
    PROVE  op' \in {"none", "running", "shown"} /\ todo' \in Seq(Commands) /\ boot' \in Profiles
  BY DEF TypeOK, RunOperation, worker

\* A refresh keeps the type of the status task.
LEMMA RefreshTyped ==
    ASSUME TypeOK, Refresh
    PROVE  status' \in Answers \cup {"idle", "asked"}
  BY DEF TypeOK, Refresh

WorkerTyped ==
    /\ op \in {"none", "running", "shown"}
    /\ todo \in Seq(Commands)
    /\ boot \in Profiles

\* The operation's variables have their types.
LEMMA WorkerTypedNow == TypeOK => WorkerTyped
  BY DEF TypeOK, WorkerTyped

AgentsTyped ==
    /\ svc \in Services
    /\ direct \in {"none", "running"}
    /\ orphans \in 0..MaxOrphans

\* What a saved configuration and the code behind it change.
LEMMA SavedTyped ==
    ASSUME TypeOK, NEW kind \in Kinds, NEW p \in Profiles, Saved(kind, p),
           kind = "direct" /\ direct = "running" => orphans < MaxOrphans
    PROVE  /\ env' = p /\ conf' = p /\ ui' = Idle
           /\ status' \in Answers \cup {"idle", "asked"}
           /\ WorkerTyped' /\ AgentsTyped'
           /\ kind # "direct" => direct' = direct
<1>1. env' = p /\ conf' = p /\ ui' = Idle /\ Refresh
  BY DEF Saved
<1>2. status' \in Answers \cup {"idle", "asked"}
  BY <1>1, RefreshTyped
<1>3. CASE UNCHANGED <<agents, worker>>
  BY <1>1, <1>2, <1>3 DEF TypeOK, agents, worker, WorkerTyped, AgentsTyped
<1>4. CASE /\ kind = "install"
           /\ RunOperation(<<"down", "remove", "configure", "create", "up">>, p)
           /\ UNCHANGED agents
  <2>1. WorkerTyped'
    BY <1>4, Scripts, OperationTyped DEF WorkerTyped
  <2> QED
    BY <1>1, <1>2, <1>4, <2>1 DEF TypeOK, agents, AgentsTyped
<1>5. CASE /\ kind = "direct"
           /\ orphans' = IF direct = "running" THEN orphans + 1 ELSE orphans
           /\ direct' = "running"
           /\ UNCHANGED <<svc, worker>>
  BY <1>1, <1>2, <1>5 DEF TypeOK, worker, WorkerTyped, AgentsTyped
<1> QED
  BY <1>3, <1>4, <1>5 DEF Saved

\* A save ends in a saved configuration, in nothing, or in a query about a switch
\* away from a direct process that does not run.
LEMMA SaveEnds ==
    ASSUME NEW kind, NEW p, Save(kind, p)
    PROVE  \/ Saved(kind, p)
           \/ ui' = Idle /\ UNCHANGED <<profile, agents, worker, status>>
           \/ /\ direct # "running"
              /\ ui' = [at |-> "switch", kind |-> kind, profile |-> p, seen |-> "?"]
              /\ UNCHANGED <<profile, agents, worker, status>>
  BY DEF Save

-----------------------------------------------------------------------------
(* Types.                                                                  *)

\* Types are kept.  What the direct process and its lost forerunners may do needs
\* CallInv and DialogInv: Run directly looks at their number before the query.
LEMMA TypeStep == Inv /\ [Next]_vars => TypeOK'
<1> SUFFICES ASSUME Inv, [Next]_vars PROVE TypeOK'
  OBVIOUS
<1>0. TypeOK /\ CallInv /\ DialogInv
  BY DEF Inv
<1> USE <1>0, Values
<1> USE DEF profile, agents, worker, buttons
<1>1. CASE RefreshTimer
  BY <1>1, RefreshTyped DEF RefreshTimer, TypeOK
<1>2. CASE StatusSampled
  BY <1>2 DEF StatusSampled, TypeOK
<1>3. CASE StatusApplied
  BY <1>3 DEF StatusApplied, Apply, TypeOK
<1>4. CASE ServiceAction
  <2>1. op' \in {"none", "running", "shown"} /\ todo' \in Seq(Commands) /\ boot' \in Profiles
    BY <1>4, Scripts, OperationTyped DEF ServiceAction, TypeOK
  <2> QED
    BY <1>4, <2>1 DEF ServiceAction, TypeOK
<1>5. CASE Issue
  <2>1. todo \in Seq(Commands) /\ todo # <<>> /\ Head(todo) # "configure"
    BY <1>5 DEF Issue, TypeOK
  <2>2. Head(todo) \in {"up", "down", "remove", "create"}
    BY <2>1, HeadTailProperties DEF Commands
  <2>3. svc' \in Services
    BY <1>5, <2>2 DEF Issue, Step, Services
  <2> QED
    BY <1>5, <2>3 DEF Issue, TypeOK
<1>6. CASE Reached \/ Configure \/ OperationFails
  <2>1. todo' \in Seq(Commands)
    BY <1>6, Scripts, HeadTailProperties DEF Reached, Configure, OperationFails, TypeOK
  <2>2. env' \in Profiles
    BY <1>6 DEF Reached, Configure, OperationFails, TypeOK
  <2> QED
    BY <1>6, <2>1, <2>2 DEF Reached, Configure, OperationFails, TypeOK
<1>7. CASE SvcSettles
  BY <1>7 DEF SvcSettles, TypeOK, Services
<1>8. CASE OperationResult
  <2>1. modals' \in Seq(Dialogs) /\ Len(modals') <= MaxModals
    BY <1>8, Opened DEF OperationResult
  <2> QED
    BY <1>8, <2>1 DEF OperationResult, TypeOK
<1>9. ASSUME NEW kind \in Kinds, NEW p \in Profiles, Save(kind, p),
             kind = "direct" /\ direct = "running" => orphans < MaxOrphans,
             UNCHANGED <<alive, modals, diag, buttons, update>>
      PROVE  TypeOK'
  <2>1. CASE Saved(kind, p)
    BY <1>9, <2>1, SavedTyped DEF TypeOK, WorkerTyped, AgentsTyped
  <2>2. CASE ui' = Idle /\ UNCHANGED <<profile, agents, worker, status>>
    BY <1>9, <2>2 DEF TypeOK
  <2>3. CASE /\ ui' = [at |-> "switch", kind |-> kind, profile |-> p, seen |-> "?"]
             /\ UNCHANGED <<profile, agents, worker, status>>
    <3>1. ui' \in Calls
      BY <1>9, <2>3 DEF Calls
    <3> QED
      BY <1>9, <2>3, <3>1 DEF TypeOK
  <2> QED
    BY <1>9, <2>1, <2>2, <2>3, SaveEnds
<1>10. ASSUME NEW kind \in {"save", "install"}, NEW p \in Profiles, SaveButton(kind, p)
       PROVE  TypeOK'
  BY <1>9, <1>10 DEF SaveButton, Kinds
<1>11. CASE ReloadButton
  BY <1>11, RefreshTyped DEF ReloadButton, TypeOK
<1>12. ASSUME NEW p \in Profiles, DirectButton(p) PROVE TypeOK'
  <2>1. ui' \in Calls
    BY <1>12 DEF DirectButton, Calls, Kinds
  <2> QED
    BY <1>12, <2>1 DEF DirectButton, TypeOK
<1>13. CASE QueryReturns
  <2>1. ui' \in Calls
    BY <1>13 DEF QueryReturns, TypeOK, Calls
  <2> QED
    BY <1>13, <2>1 DEF QueryReturns, TypeOK
<1>14. CASE Blocked
  BY <1>14 DEF Blocked, TypeOK
<1>15. ui.kind \in Kinds /\ ui.profile \in Profiles
  BY DEF TypeOK, Calls
<1>16. CASE DirectAllowed
  <2>1. direct = "running" => orphans < MaxOrphans
    BY <1>16 DEF DirectAllowed, CallInv
  <2> QED
    BY <1>9, <1>15, <1>16, <2>1 DEF DirectAllowed, Kinds
<1>17. CASE SwitchAllowed
  <2>1. direct = "running" => orphans < MaxOrphans
    BY <1>17 DEF SwitchAllowed, CallInv
  <2>2. CASE Saved(ui.kind, ui.profile) /\ UNCHANGED modals
    BY <1>15, <1>17, <2>1, <2>2, SavedTyped DEF SwitchAllowed, TypeOK, WorkerTyped, AgentsTyped
  <2>3. CASE /\ Open([what |-> "switch", kind |-> ui.kind, profile |-> ui.profile])
             /\ ui' = Idle
             /\ UNCHANGED <<profile, agents, worker, status>>
    <3>1. [what |-> "switch", kind |-> ui.kind, profile |-> ui.profile] \in Dialogs
      BY <1>15 DEF Dialogs
    <3>2. modals' \in Seq(Dialogs) /\ Len(modals') <= MaxModals
      BY <2>3, <3>1, Opened
    <3> QED
      BY <1>17, <2>3, <3>2 DEF SwitchAllowed, TypeOK
  <2> QED
    BY <1>17, <2>2, <2>3 DEF SwitchAllowed
<1>18. CASE StopDirectButton
  BY <1>18, RefreshTyped DEF StopDirectButton, TypeOK
<1>19. CASE DirectExits
  BY <1>19 DEF DirectExits, TypeOK
<1>20. CASE RunChecks \/ ChecksEnd
  BY <1>20 DEF RunChecks, ChecksEnd, TypeOK
<1>21. CASE UpdateButton
  <2>1. modals' \in Seq(Dialogs) /\ Len(modals') <= MaxModals
    BY <1>21, Opened DEF UpdateButton
  <2> QED
    BY <1>21, <2>1 DEF UpdateButton, TypeOK
<1>22. CASE DownloadFails \/ Downloaded
  BY <1>22, RefreshTyped DEF DownloadFails, Downloaded, TypeOK
<1>23. <<>> \in Seq(Dialogs) /\ Len(<<>>) <= MaxModals
  OBVIOUS
<1>24. CASE SetupClosesManager
  BY <1>23, <1>24 DEF SetupClosesManager, Quit, TypeOK
<1>25. CASE ExitAction
  <2>1. modals' \in Seq(Dialogs) /\ Len(modals') <= MaxModals /\ alive' \in {"yes", "no"}
    BY <1>23, <1>25, Opened DEF ExitAction, Quit, TypeOK
  <2> QED
    BY <1>25, <2>1 DEF ExitAction, TypeOK
<1>26. ASSUME modals # <<>>, modals' = Rest
       PROVE  modals' \in Seq(Dialogs) /\ Len(modals') <= MaxModals
  BY <1>26, Closed
<1>27. CASE Declined \/ ResultClosed \/ UpdateConfirmed
  <2>1. modals' \in Seq(Dialogs) /\ Len(modals') <= MaxModals
    BY <1>26, <1>27 DEF Declined, ResultClosed, UpdateConfirmed, Answer
  <2> QED
    BY <1>27, <2>1, RefreshTyped DEF Declined, ResultClosed, UpdateConfirmed, TypeOK
<1>28. CASE SwitchConfirmed
  <2>1. Top.kind \in Kinds /\ Top.profile \in Profiles /\ direct = "none"
    BY <1>28, TopOf, QuestionAlone DEF SwitchConfirmed, Answer, Dialogs, Inv
  <2>2. modals' \in Seq(Dialogs) /\ Len(modals') <= MaxModals
    BY <1>26, <1>28 DEF SwitchConfirmed, Answer
  <2> QED
    BY <1>28, <2>1, <2>2, SavedTyped DEF SwitchConfirmed, TypeOK, WorkerTyped, AgentsTyped
<1>29. CASE ExitConfirmed
  BY <1>23, <1>29 DEF ExitConfirmed, Quit, TypeOK
<1>30. CASE UNCHANGED vars
  BY <1>30 DEF vars, TypeOK
<1> QED
  BY <1>1, <1>2, <1>3, <1>4, <1>5, <1>6, <1>7, <1>8, <1>10, <1>11, <1>12, <1>13, <1>14, <1>16,
     <1>17, <1>18, <1>19, <1>20, <1>21, <1>22, <1>24, <1>25, <1>27, <1>28, <1>29, <1>30
     DEF Next, QueryAnswered, DialogAnswered

-----------------------------------------------------------------------------
(* Dialogs, calls and the direct process.                                  *)

Control == CallInv /\ DialogInv /\ Down

\* What leaves dialogs, calls, the update and the processes alone changes nothing.
LEMMA Untouched ==
    ASSUME Control, UNCHANGED <<alive, direct, orphans, ui, modals, update>>
    PROVE  Control'
<1>1. CallInv'
  BY DEF Control, CallInv
<1>2. DialogInv'
  BY DEF Control, DialogInv
<1>3. Down'
  BY DEF Control, Down, NoDirectDuringHandover, ExitStopsDirect
<1> QED
  BY <1>1, <1>2, <1>3 DEF Control

\* A process begins only in an unlocked Manager that is there.
LEMMA SavedControl ==
    ASSUME Inv, NEW kind \in Kinds, NEW p \in Profiles, Saved(kind, p), alive = "yes",
           update = "none", modals = <<>>, UNCHANGED <<alive, modals, update>>
    PROVE  Control'
<1>1. ui'.at = "idle"
  BY DEF Saved, Idle
<1>2. Len(modals) = 0
  BY EmptySeq
<1>3. DialogInv'
  BY <1>2 DEF DialogInv
<1> QED
  BY <1>1, <1>3 DEF Control, CallInv, Down, NoDirectDuringHandover, ExitStopsDirect

\* A save out of the event loop keeps dialogs, calls and processes in step.
LEMMA SaveControl ==
    ASSUME Inv, NEW kind \in Kinds, NEW p \in Profiles, Save(kind, p), alive = "yes",
           update = "none", modals = <<>>, UNCHANGED <<alive, modals, update>>
    PROVE  Control'
<1>1. CASE Saved(kind, p)
  BY <1>1, SavedControl
<1>2. CASE ui' = Idle /\ UNCHANGED <<profile, agents, worker, status>>
  <2>1. ui'.at = "idle"
    BY <1>2 DEF Idle
  <2> QED
    BY <1>2, <2>1 DEF Inv, Control, CallInv, DialogInv, Down, NoDirectDuringHandover,
                      ExitStopsDirect, agents
<1>3. CASE /\ direct # "running"
           /\ ui' = [at |-> "switch", kind |-> kind, profile |-> p, seen |-> "?"]
           /\ UNCHANGED <<profile, agents, worker, status>>
  <2>1. direct = "none"
    BY <1>3 DEF Inv, TypeOK
  <2> QED
    BY <1>3, <2>1 DEF Inv, Control, CallInv, DialogInv, Down, NoDirectDuringHandover,
                      ExitStopsDirect, agents
<1> QED
  BY <1>1, <1>2, <1>3, SaveEnds

\* Dialogs, calls and the direct process keep in step.
LEMMA ControlStep == Inv /\ [Next]_vars => Control'
<1> SUFFICES ASSUME Inv, [Next]_vars PROVE Control'
  OBVIOUS
<1>0. TypeOK /\ CallInv /\ DialogInv /\ Down /\ Control
  BY DEF Inv, Control
<1> USE <1>0, Values
<1> USE DEF agents
<1>1. CASE RefreshTimer \/ StatusSampled \/ StatusApplied
  BY <1>1, Untouched DEF RefreshTimer, StatusSampled, StatusApplied
<1>2. CASE ServiceAction \/ Issue \/ Reached \/ Configure \/ OperationFails \/ SvcSettles
  BY <1>2, Untouched DEF ServiceAction, Issue, Reached, Configure, OperationFails, SvcSettles
<1>3. CASE ReloadButton \/ RunChecks \/ ChecksEnd
  BY <1>3, Untouched DEF ReloadButton, RunChecks, ChecksEnd
<1>4. CASE OperationResult
  <2>1. Dialog("result").what = "result"
    BY DEF Dialog
  <2>2. DialogInv'
    BY <1>4, <2>1, OpenedInv DEF OperationResult
  <2> QED
    BY <1>4, <2>2 DEF OperationResult, Loop, Control, CallInv, Down, NoDirectDuringHandover,
                      ExitStopsDirect
<1>5. ASSUME NEW kind \in {"save", "install"}, NEW p \in Profiles, SaveButton(kind, p)
      PROVE  Control'
  BY <1>5, SaveControl DEF SaveButton, WindowFree, Loop, Locked, Kinds
<1>6. ASSUME NEW p \in Profiles, DirectButton(p) PROVE Control'
  BY <1>6 DEF DirectButton, WindowFree, Loop, Locked, Control, CallInv, DialogInv, Down,
              NoDirectDuringHandover, ExitStopsDirect
<1>7. CASE QueryReturns
  <2>1. ui'.at = ui.at
    BY <1>7 DEF QueryReturns, TypeOK, Calls
  <2> QED
    BY <1>7, <2>1 DEF QueryReturns, Control, CallInv, DialogInv, Down, NoDirectDuringHandover,
                      ExitStopsDirect
<1>8. CASE Blocked
  BY <1>8 DEF Blocked, Idle, Control, CallInv, DialogInv, Down, NoDirectDuringHandover,
              ExitStopsDirect
<1>9. ui.kind \in Kinds /\ ui.profile \in Profiles
  BY DEF TypeOK, Calls
<1>10. CASE DirectAllowed
  <2>1. modals = <<>> /\ update = "none"
    BY <1>10 DEF DirectAllowed, CallInv
  <2> QED
    BY <1>9, <1>10, <2>1, SaveControl DEF DirectAllowed, Kinds
<1>11. CASE SwitchAllowed
  <2>1. modals = <<>> /\ update = "none" /\ direct = "none"
    BY <1>11 DEF SwitchAllowed, CallInv
  <2>2. CASE Saved(ui.kind, ui.profile) /\ UNCHANGED modals
    BY <1>9, <1>11, <2>1, <2>2, SavedControl DEF SwitchAllowed
  <2>3. CASE /\ Open([what |-> "switch", kind |-> ui.kind, profile |-> ui.profile])
             /\ ui' = Idle
             /\ UNCHANGED <<profile, agents, worker, status>>
    <3>1. [what |-> "switch", kind |-> ui.kind, profile |-> ui.profile] \in Dialogs
      BY <1>9 DEF Dialogs
    <3>2. DialogInv'
      BY <1>11, <2>1, <2>3, <3>1, OpenedInv DEF SwitchAllowed
    <3> QED
      BY <1>11, <2>3, <3>2 DEF SwitchAllowed, Idle, Control, CallInv, Down,
                               NoDirectDuringHandover, ExitStopsDirect
  <2> QED
    BY <1>11, <2>2, <2>3 DEF SwitchAllowed
<1>12. CASE StopDirectButton
  BY <1>12 DEF StopDirectButton, WindowFree, Loop, Control, CallInv, DialogInv, Down,
               NoDirectDuringHandover, ExitStopsDirect
<1>13. CASE DirectExits
  BY <1>13 DEF DirectExits, TypeOK, Control, CallInv, DialogInv, Down, NoDirectDuringHandover,
               ExitStopsDirect
<1>14. CASE UpdateButton
  <2>1. modals = <<>> /\ update = "none"
    BY <1>14 DEF UpdateButton, WindowFree, Locked
  <2>2. Dialog("update").what = "update"
    BY DEF Dialog
  <2>3. DialogInv'
    BY <1>14, <2>1, <2>2, OpenedInv DEF UpdateButton
  <2> QED
    BY <1>14, <2>3 DEF UpdateButton, WindowFree, Loop, Control, CallInv, Down,
                       NoDirectDuringHandover, ExitStopsDirect
<1>15. CASE DownloadFails \/ Downloaded
  BY <1>15 DEF DownloadFails, Downloaded, Loop, Control, CallInv, DialogInv, Down,
               NoDirectDuringHandover, ExitStopsDirect
<1>16. ASSUME modals' = <<>> PROVE DialogInv'
  <2>1. Len(modals') = 0
    BY <1>16, EmptySeq
  <2> QED
    BY <2>1 DEF DialogInv
<1>17. CASE SetupClosesManager
  BY <1>16, <1>17 DEF SetupClosesManager, Quit, Control, CallInv, Down, NoDirectDuringHandover,
                      ExitStopsDirect
<1>18. CASE ExitAction
  <2>1. CASE direct = "running" /\ Open(Dialog("exit")) /\ UNCHANGED alive
    <3>1. Dialog("exit").what = "exit"
      BY DEF Dialog
    <3>2. DialogInv'
      BY <1>18, <2>1, <3>1, OpenedInv DEF ExitAction
    <3> QED
      BY <1>18, <2>1, <3>2 DEF ExitAction, TrayFree, Loop, Control, CallInv, Down,
                               NoDirectDuringHandover, ExitStopsDirect
  <2>2. CASE direct = "none" /\ Quit
    BY <1>16, <1>18, <2>2 DEF ExitAction, TrayFree, Loop, Quit, Control, CallInv, Down,
                              NoDirectDuringHandover, ExitStopsDirect
  <2> QED
    BY <1>18, <2>1, <2>2 DEF ExitAction
<1>19. ASSUME modals # <<>>, modals' = Rest, UNCHANGED <<update, direct>> PROVE DialogInv'
  <2>1. \A i \in 1..Len(modals') : i \in 1..Len(modals)
    BY <1>19, Closed, TopOf
  <2> QED
    BY <1>19, <2>1, ClosedInv DEF DialogInv
<1>20. CASE Declined \/ ResultClosed
  <2>1. DialogInv'
    BY <1>19, <1>20 DEF Declined, ResultClosed, Answer
  <2> QED
    BY <1>20, <2>1 DEF Declined, ResultClosed, Answer, Loop, Control, CallInv, Down,
                       NoDirectDuringHandover, ExitStopsDirect
<1>21. ASSUME modals # <<>>, modals' = Rest, Top.what \in {"update", "switch"}
       PROVE  DialogInv' /\ update = "none" /\ (Top.what = "switch" => direct = "none")
  <2>1. Len(modals') = 0
    BY <1>21, QuestionAlone, Closed
  <2> QED
    BY <1>21, <2>1, QuestionAlone DEF DialogInv
<1>22. CASE UpdateConfirmed
  <2>1. DialogInv'
    BY <1>21, <1>22 DEF UpdateConfirmed, Answer
  <2> QED
    BY <1>22, <2>1 DEF UpdateConfirmed, Answer, Loop, Control, CallInv, Down,
                       NoDirectDuringHandover, ExitStopsDirect
<1>23. CASE SwitchConfirmed
  <2>1. DialogInv' /\ update = "none"
    BY <1>21, <1>23 DEF SwitchConfirmed, Answer
  <2>2. ui'.at = "idle"
    BY <1>23 DEF SwitchConfirmed, Saved, Idle
  <2> QED
    BY <1>23, <2>1, <2>2 DEF SwitchConfirmed, Answer, Loop, Control, CallInv, Down,
                             NoDirectDuringHandover, ExitStopsDirect
<1>24. CASE ExitConfirmed
  BY <1>16, <1>24 DEF ExitConfirmed, Answer, Loop, Quit, Control, CallInv, Down,
                      NoDirectDuringHandover, ExitStopsDirect
<1>25. CASE UNCHANGED vars
  BY <1>25, Untouched DEF vars
<1> QED
  BY <1>1, <1>2, <1>3, <1>4, <1>5, <1>6, <1>7, <1>8, <1>10, <1>11, <1>12, <1>13, <1>14, <1>15,
     <1>17, <1>18, <1>20, <1>22, <1>23, <1>24, <1>25 DEF Next, QueryAnswered, DialogAnswered

\* The inductive invariant holds of every behaviour.
LEMMA InvHolds == Spec => []Inv
<1>1. Init => Inv
  <2> SUFFICES ASSUME Init PROVE Inv
    OBVIOUS
  <2>1. modals = <<>> /\ Len(modals) = 0
    BY EmptySeq DEF Init
  <2>2. TypeOK
    BY <2>1, Values, Scripts DEF Init, TypeOK, Services, Answers
  <2>3. CallInv /\ DialogInv /\ Down
    BY <2>1 DEF Init, Idle, CallInv, DialogInv, Down, NoDirectDuringHandover, ExitStopsDirect
  <2> QED
    BY <2>2, <2>3 DEF Inv
<1>2. Inv /\ [Next]_vars => Inv'
  BY TypeStep, ControlStep DEF Inv, Control
<1> QED
  BY <1>1, <1>2, PTL DEF Spec

\* Only a saved configuration changes .env and the Manager's copy at once; to
\* another profile it does so out of a query or behind a question.
LEMMA SwitchStep ==
    Inv /\ [Next]_vars => [conf' # conf /\ env' # env => direct = "none"]_vars
<1> SUFFICES ASSUME Inv, Next, conf' # conf, env' # env PROVE direct = "none"
  OBVIOUS
<1> USE DEF profile
<1>1. CASE \/ RefreshTimer \/ StatusSampled \/ StatusApplied \/ ServiceAction \/ Issue
           \/ Reached \/ Configure \/ OperationFails \/ SvcSettles \/ OperationResult
  BY <1>1 DEF RefreshTimer, StatusSampled, StatusApplied, ServiceAction, Issue, Reached,
              Configure, OperationFails, SvcSettles, OperationResult
<1>2. CASE \/ ReloadButton \/ StopDirectButton \/ DirectExits \/ RunChecks \/ ChecksEnd
           \/ UpdateButton \/ DownloadFails \/ Downloaded \/ SetupClosesManager \/ ExitAction
  BY <1>2 DEF ReloadButton, StopDirectButton, DirectExits, RunChecks, ChecksEnd, UpdateButton,
              DownloadFails, Downloaded, SetupClosesManager, ExitAction
<1>3. CASE Declined \/ ResultClosed \/ UpdateConfirmed \/ ExitConfirmed
  BY <1>3 DEF Declined, ResultClosed, UpdateConfirmed, ExitConfirmed
<1>4. ASSUME NEW kind, NEW p, Save(kind, p) PROVE FALSE
  BY <1>4 DEF Save, Saved
<1>5. ASSUME NEW kind, NEW p, SaveButton(kind, p) PROVE FALSE
  BY <1>4, <1>5 DEF SaveButton
<1>6. CASE DirectAllowed
  BY <1>4, <1>6 DEF DirectAllowed
<1>7. ASSUME NEW p, DirectButton(p) PROVE FALSE
  BY <1>7 DEF DirectButton
<1>8. CASE QueryReturns \/ Blocked
  BY <1>8 DEF QueryReturns, Blocked
<1>9. CASE SwitchAllowed
  BY <1>9 DEF SwitchAllowed, Inv, CallInv
<1>10. CASE SwitchConfirmed
  BY <1>10, QuestionAlone DEF SwitchConfirmed, Answer
<1> QED
  BY <1>1, <1>2, <1>3, <1>5, <1>6, <1>7, <1>8, <1>9, <1>10 DEF Next, QueryAnswered, DialogAnswered

\* Every variable of the Manager keeps its type, and the lost processes their bound.
THEOREM TypeCorrect == Spec => []TypeOK
<1>1. Spec => []Inv
  BY InvHolds
<1>2. Inv => TypeOK
  BY DEF Inv
<1> QED
  BY <1>1, <1>2, PTL

\* When the Updater has been started the direct process is down and stays down,
\* whatever dialogs were open when the download ended (manager.py 1187-1200).
THEOREM NoDirectDuringHandoverHolds == Spec => []NoDirectDuringHandover
<1>1. Inv => NoDirectDuringHandover
  BY DEF Inv, Down
<1> QED
  BY <1>1, InvHolds, PTL

\* However the Manager ends, by the tray, the window or Setup, the direct process
\* it tracks has ended (manager.py 1562-1575).
THEOREM ExitStopsDirectHolds == Spec => []ExitStopsDirect
<1>1. Inv => ExitStopsDirect
  BY DEF Inv, Down
<1> QED
  BY <1>1, InvHolds, PTL

\* Another profile is only saved with the direct process down, also behind the
\* question about pending results (manager.py 914-945).
THEOREM SwitchUnderNoDirectHolds == Spec => SwitchUnderNoDirect
<1>1. Inv /\ [Next]_vars => [conf' # conf /\ env' # env => direct = "none"]_vars
  BY SwitchStep
<1> QED
  BY <1>1, InvHolds, PTL DEF Spec, SwitchUnderNoDirect

-----------------------------------------------------------------------------
(* What the end of an operation rests on: while it is "shown" its dialog is *)
(* there to be closed, and no other result waits above or below it.         *)

IsResult(i) == modals[i].what = "result"

OperationShown ==
    /\ \A i, j \in 1..Len(modals) : IsResult(i) /\ IsResult(j) => i = j
    /\ alive = "yes" => (op = "shown" <=> \E i \in 1..Len(modals) : IsResult(i))
    /\ todo # <<>> => op = "running"

\* An operation goes on as it was, or begins.
Worked == op' \in {op, "running"} /\ (op' # op => op = "none") /\ (todo' # <<>> => op' = "running")

\* A second operation is ignored; a first takes the flag with its script.
LEMMA RunOperationWorked ==
    ASSUME OperationShown, NEW commands, NEW p,
           RunOperation(commands, p) \/ UNCHANGED worker
    PROVE  Worked
BY DEF RunOperation, worker, Worked, OperationShown

\* What follows a save begins at most one operation.
LEMMA SavedWorked ==
    ASSUME OperationShown, NEW kind, NEW p, Saved(kind, p)
    PROVE  Worked
BY RunOperationWorked DEF Saved, worker

\* So does a save, whichever way it goes.
LEMMA SaveWorked ==
    ASSUME OperationShown, NEW kind, NEW p, Save(kind, p)
    PROVE  Worked
BY SavedWorked, RunOperationWorked DEF Save

\* Dialogs that are no results come and go.
LEMMA ShownKept ==
    ASSUME OperationShown, Worked, UNCHANGED modals, alive' = "yes" => alive = "yes"
    PROVE  OperationShown'
BY DEF OperationShown, Worked, IsResult

\* A dialog that is no result opens above the result, or without one.
LEMMA ShownBelow ==
    ASSUME TypeOK, OperationShown, Worked, NEW d \in Dialogs, Open(d), d.what # "result",
           alive' = "yes" => alive = "yes"
    PROVE  OperationShown'
<1>1. /\ Len(modals) \in Nat /\ Len(modals') = Len(modals) + 1 /\ modals'[Len(modals')] = d
      /\ \A i \in 1..Len(modals) : modals'[i] = modals[i]
  BY Opened, LenProperties DEF TypeOK
<1>2. \A i : i \in 1..Len(modals') /\ IsResult(i)' <=> i \in 1..Len(modals) /\ IsResult(i)
  <2>1. \A i : i \in 1..Len(modals') <=> i \in 1..Len(modals) \/ i = Len(modals')
    BY <1>1
  <2> QED
    BY <1>1, <2>1 DEF IsResult
<1> QED
  BY <1>2 DEF OperationShown, Worked

\* Closing the innermost dialog leaves the results below it, and itself if it is none.
LEMMA ResultsBelow ==
    ASSUME TypeOK, modals # <<>>, modals' = Rest
    PROVE  \A i : i \in 1..Len(modals') /\ IsResult(i)'
                      <=> i \in 1..Len(modals) /\ IsResult(i) /\ i # Len(modals)
<1>1. /\ Len(modals) \in Nat /\ Len(modals') = Len(modals) - 1
      /\ \A i \in 1..Len(modals') : modals'[i] = modals[i]
  BY Closed, TopOf
<1>2. \A i : i \in 1..Len(modals') <=> i \in 1..Len(modals) /\ i # Len(modals)
  BY <1>1
<1> QED
  BY <1>1, <1>2 DEF IsResult

\* Closing a dialog that is no result leaves the result.
LEMMA ShownClosed ==
    ASSUME TypeOK, OperationShown, Worked, modals # <<>>, modals' = Rest, Top.what # "result",
           UNCHANGED alive
    PROVE  OperationShown'
<1>1. ~IsResult(Len(modals))
  BY DEF IsResult, Top
<1>2. \A i : i \in 1..Len(modals') /\ IsResult(i)' <=> i \in 1..Len(modals) /\ IsResult(i)
  BY <1>1, ResultsBelow
<1> QED
  BY <1>2 DEF OperationShown, Worked

\* Only OperationResult opens a result, and only ResultClosed resets the flag.
LEMMA ShownStep == TypeOK /\ OperationShown /\ [Next]_vars => OperationShown'
<1> SUFFICES ASSUME TypeOK, OperationShown, [Next]_vars PROVE OperationShown'
  OBVIOUS
<1> USE Values
<1>1. ASSUME UNCHANGED worker PROVE Worked
  BY <1>1, RunOperationWorked
<1>2. ASSUME UNCHANGED worker, UNCHANGED <<alive, modals>> PROVE OperationShown'
  BY <1>1, <1>2, ShownKept
<1>3. CASE \/ RefreshTimer \/ StatusSampled \/ StatusApplied \/ Issue \/ SvcSettles \/ RunChecks
           \/ ChecksEnd \/ StopDirectButton \/ DirectExits \/ ReloadButton \/ DownloadFails
           \/ Downloaded \/ QueryReturns \/ Blocked
  BY <1>2, <1>3 DEF RefreshTimer, StatusSampled, StatusApplied, Issue, SvcSettles, RunChecks,
     ChecksEnd, StopDirectButton, DirectExits, ReloadButton, DownloadFails, Downloaded,
     QueryReturns, Blocked
<1>4. CASE ServiceAction
  BY <1>4, RunOperationWorked, ShownKept DEF ServiceAction
<1>5. CASE Reached \/ Configure \/ OperationFails
  BY <1>5 DEF Reached, Configure, OperationFails, OperationShown, IsResult
<1>6. CASE OperationResult
  <2>1. Dialog("result").what = "result"
    BY DEF Dialog
  <2>2. /\ Len(modals) \in Nat /\ Len(modals') = Len(modals) + 1
        /\ modals'[Len(modals')].what = "result"
        /\ \A i \in 1..Len(modals) : modals'[i] = modals[i]
    BY <1>6, <2>1, Opened, LenProperties DEF OperationResult, TypeOK
  <2>3. \A i \in 1..Len(modals) : ~IsResult(i)
    BY <1>6 DEF OperationResult, Loop, OperationShown
  <2>4. \A i : i \in 1..Len(modals') <=> i \in 1..Len(modals) \/ i = Len(modals')
    BY <2>2
  <2>5. \A i : i \in 1..Len(modals') /\ IsResult(i)' <=> i = Len(modals')
    BY <2>2, <2>3, <2>4 DEF IsResult
  <2> QED
    BY <1>6, <2>5 DEF OperationResult, OperationShown
<1>7. ASSUME NEW kind \in {"save", "install"}, NEW p \in Profiles, SaveButton(kind, p)
      PROVE  OperationShown'
  BY <1>7, SaveWorked, ShownKept DEF SaveButton
<1>8. ASSUME NEW p \in Profiles, DirectButton(p) PROVE OperationShown'
  BY <1>2, <1>8 DEF DirectButton
<1>9. CASE DirectAllowed
  BY <1>9, SaveWorked, ShownKept DEF DirectAllowed
<1>10. CASE SwitchAllowed
  <2>1. CASE Saved(ui.kind, ui.profile) /\ UNCHANGED modals
    BY <1>10, <2>1, SavedWorked, ShownKept DEF SwitchAllowed
  <2>2. CASE /\ Open([what |-> "switch", kind |-> ui.kind, profile |-> ui.profile])
             /\ UNCHANGED worker
    <3>1. [what |-> "switch", kind |-> ui.kind, profile |-> ui.profile] \in Dialogs
      BY DEF TypeOK, Calls, Dialogs
    <3> QED
      BY <1>1, <1>10, <2>2, <3>1, ShownBelow DEF SwitchAllowed
  <2> QED
    BY <1>10, <2>1, <2>2 DEF SwitchAllowed
<1>11. CASE UpdateButton
  <2>1. Dialog("update").what # "result"
    BY DEF Dialog
  <2> QED
    BY <1>1, <1>11, <2>1, ShownBelow DEF UpdateButton
<1>12. ASSUME Quit, UNCHANGED <<op, todo>> PROVE OperationShown'
  <2>1. Len(modals') = 0
    BY <1>12, EmptySeq DEF Quit
  <2> QED
    BY <1>12, <2>1 DEF Quit, OperationShown
<1>13. CASE SetupClosesManager \/ ExitConfirmed
  BY <1>12, <1>13 DEF SetupClosesManager, ExitConfirmed, worker
<1>14. CASE ExitAction
  <2>1. Dialog("exit").what # "result"
    BY DEF Dialog
  <2>2. CASE Open(Dialog("exit")) /\ UNCHANGED alive
    BY <1>1, <1>14, <2>1, <2>2, ShownBelow DEF ExitAction
  <2>3. CASE Quit
    BY <1>12, <1>14, <2>3 DEF ExitAction, worker
  <2> QED
    BY <1>14, <2>2, <2>3 DEF ExitAction
<1>15. CASE Declined
  BY <1>1, <1>15, ShownClosed DEF Declined, Answer
<1>16. CASE UpdateConfirmed
  BY <1>1, <1>16, ShownClosed DEF UpdateConfirmed, Answer
<1>17. CASE SwitchConfirmed
  BY <1>17, SavedWorked, ShownClosed DEF SwitchConfirmed, Answer
<1>18. CASE ResultClosed
  <2>1. modals # <<>> /\ modals' = Rest /\ Top.what = "result" /\ alive = "yes"
    BY <1>18 DEF ResultClosed, Answer, Loop
  <2>2. IsResult(Len(modals)) /\ Len(modals) \in 1..Len(modals)
    BY <2>1, TopOf DEF IsResult, Top
  <2>3. op = "shown" /\ todo = <<>>
    BY <2>1, <2>2 DEF OperationShown
  <2>4. \A i : ~(i \in 1..Len(modals') /\ IsResult(i)')
    BY <2>1, <2>2, ResultsBelow DEF OperationShown
  <2> QED
    BY <1>18, <2>3, <2>4 DEF ResultClosed, OperationShown
<1>19. CASE UNCHANGED vars
  BY <1>2, <1>19 DEF vars
<1> QED
  BY <1>3, <1>4, <1>5, <1>6, <1>7, <1>8, <1>9, <1>10, <1>11, <1>13, <1>14, <1>15, <1>16, <1>17,
     <1>18, <1>19 DEF Next, QueryAnswered, DialogAnswered

\* An operation whose result is shown has exactly one dialog open that ends it, at
\* whatever depth the other dialogs put it, and no script goes on without the flag: a
\* Manager that is there is never left refusing operations with nothing to close
\* (_operation_running, _operation_finished, manager.py 1212-1230).
THEOREM OperationShownHolds == Spec => []OperationShown
<1>1. Init => OperationShown
  <2> SUFFICES ASSUME Init PROVE OperationShown
    OBVIOUS
  <2>1. modals = <<>> /\ Len(modals) = 0
    BY EmptySeq DEF Init
  <2> QED
    BY <2>1 DEF Init, OperationShown
<1> QED
  BY <1>1, ShownStep, TypeCorrect, PTL DEF Spec

=============================================================================
