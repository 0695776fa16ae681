--------------------------- MODULE TeardownProofs ---------------------------
(***************************************************************************)
(* Proofs about Teardown, for every number of asking tasks and of          *)
(* registrations: no callback runs once rscore_session_destroy has         *)
(* returned, and callbacks of one channel never overlap.                   *)
(*                                                                         *)
(* The argument: a task inside a callback holds the mutex of the emitter   *)
(* it calls, the emitter's flag is set, and an emitter reached through a   *)
(* slot is still the one the slot holds, because the slot's mutex is held  *)
(* across the call.  Deactivation clears the flag of the event emitter     *)
(* and empties both slots under the same mutexes, so afterwards there is   *)
(* no emitter left a callback could run through.                           *)
(***************************************************************************)
EXTENDS Teardown, TLAPS

\* Who holds what while a task emits.
Holding ==
  /\ \A t \in Tasks : task[t] = "callback" =>
       /\ mutex[using[t]] = t
       /\ active[using[t]]
  /\ \A t \in Tasks : task[t] \in {"slot", "callback"} /\ using[t].chan \in Slots =>
       /\ slotMutex[using[t].chan] = t
       /\ using[t].reg = slot[using[t].chan]
  /\ \A t \in Tasks : task[t] = "slot" => using[t].chan \in Slots

\* How far the deactivation has come.
Deactivated ==
  /\ ui \in {"File", "File!", "Task", "Task!", "returned"} => ~active[EventEmitter]
  /\ ui \in {"Task", "Task!", "returned"} => slot["File"] = 0
  /\ ui = "returned" => slot["Task"] = 0
  /\ ui = "File!" => slotMutex["File"] = Ui /\ slot["File"] # 0
  /\ ui = "Task!" => slotMutex["Task"] = Ui /\ slot["Task"] # 0

IInv == TypeOK /\ Holding /\ Deactivated

\* Every emitter is the event emitter or belongs to a slot.
LEMMA EmitterKinds ==
  /\ EventEmitter \in Emitters
  /\ \A e \in Emitters : e = EventEmitter \/ e.chan \in Slots
  /\ \A e \in Emitters : e.chan \in Slots =>
       e = SlotEmitter(e.chan, e.reg) /\ e.reg \in 1..MaxRegistrations
  /\ \A c \in Slots, n \in 1..MaxRegistrations :
       /\ SlotEmitter(c, n) \in Emitters
       /\ SlotEmitter(c, n).chan = c
       /\ SlotEmitter(c, n).reg = n
  /\ EventEmitter.chan \notin Slots
BY DEF Emitters, EventEmitter, SlotEmitter, Slots

\* Nothing is emitted and nothing is deactivated at first.
LEMMA InitIInv == Init => IInv
BY EmitterKinds, RegistrationsAssumption
   DEF Init, IInv, TypeOK, Holding, Deactivated, UiStates, Tasks, Slots

\* Every step keeps the invariant.
LEMMA StepIInv == IInv /\ [Next]_vars => IInv'
<1> SUFFICES ASSUME IInv, [Next]_vars PROVE IInv'
  OBVIOUS
<1> USE DEF IInv, TypeOK, UiStates
<1> USE TasksAssumption, RegistrationsAssumption, EmitterKinds
<1>1. ASSUME NEW c \in Slots, Register(c) PROVE IInv'
  BY <1>1 DEF Register, Holding, Deactivated, Tasks
<1>2. ASSUME BeginDestroy PROVE IInv'
  BY <1>2 DEF BeginDestroy, UiStep, Holding, Deactivated
<1>3. ASSUME JoinOver PROVE IInv'
  BY <1>3 DEF JoinOver, UiStep, Holding, Deactivated
<1>4. ASSUME DeactivateEvents PROVE IInv'
  BY <1>4 DEF DeactivateEvents, UiStep, Holding, Deactivated, Tasks
<1>5. ASSUME NEW c \in Slots, NEW after \in UiStates, SkipEmptySlot(c, after),
             <<c, after>> \in {<<"File", "Task">>, <<"Task", "returned">>}
      PROVE IInv'
  BY <1>5 DEF SkipEmptySlot, UiStep, Holding, Deactivated
<1>6. ASSUME NEW c \in Slots, NEW locked \in UiStates, LockSlot(c, locked),
             <<c, locked>> \in {<<"File", "File!">>, <<"Task", "Task!">>}
      PROVE IInv'
  BY <1>6 DEF LockSlot, UiStep, Holding, Deactivated, Tasks
<1>7. ASSUME NEW c \in Slots, NEW locked \in UiStates, NEW after \in UiStates,
             DeactivateSlot(c, locked, after),
             <<c, locked, after>> \in
               {<<"File", "File!", "Task">>, <<"Task", "Task!", "returned">>}
      PROVE IInv'
  BY <1>7 DEF DeactivateSlot, UiStep, Holding, Deactivated, Tasks
<1>8. ASSUME NEW c \in Slots, LookIntoSlot(c) PROVE IInv'
  BY <1>8 DEF LookIntoSlot, Holding, Deactivated, Tasks
<1>9. ASSUME EmitResult PROVE IInv'
  <2> DEFINE e == using[Driver]
  <2> Driver \in Tasks /\ Driver # Ui
    BY DEF Tasks
  <2>1. e \in Emitters /\ e.chan \in Slots
    <3>1. e \in Emitters
      OBVIOUS
    <3>2. e.chan \in Slots
      BY <1>9 DEF EmitResult, Holding
    <3> QED
      BY <3>1, <3>2
  <2>2. slotMutex[e.chan] = Driver /\ e.reg = slot[e.chan]
    BY <2>1, <1>9 DEF EmitResult, Holding
  <2>3. UNCHANGED <<ui, slot, made, active, using>>
    BY <1>9 DEF EmitResult
  <2>4. CASE active[e]
    <3>1. /\ task' = [task EXCEPT ![Driver] = "callback"]
          /\ mutex' = [mutex EXCEPT ![e] = Driver]
          /\ mutex[e] = Nobody
          /\ slotMutex' = slotMutex
      BY <1>9, <2>4 DEF EmitResult
    <3>2. TypeOK'
      BY <2>1, <2>3, <3>1
    <3>3. Holding'
      BY <2>1, <2>2, <2>3, <2>4, <3>1 DEF Holding, Tasks
    <3>4. Deactivated'
      BY <2>3, <3>1 DEF Deactivated
    <3> QED
      BY <3>2, <3>3, <3>4
  <2>5. CASE ~active[e]
    <3>1. /\ task' = [task EXCEPT ![Driver] = "idle"]
          /\ slotMutex' = [slotMutex EXCEPT ![e.chan] = Nobody]
          /\ mutex' = mutex
      BY <1>9, <2>5 DEF EmitResult
    <3>2. TypeOK'
      BY <2>1, <2>3, <3>1
    <3>3. Holding'
      BY <2>1, <2>2, <2>3, <3>1 DEF Holding
    <3>4. Deactivated'
      <4>1. \A c \in Slots : slotMutex[c] = Ui => slotMutex'[c] = Ui
        BY <2>1, <2>2, <3>1
      <4> QED
        BY <2>3, <4>1 DEF Deactivated, Slots
    <3> QED
      BY <3>2, <3>3, <3>4
  <2> QED
    BY <2>4, <2>5
<1>10. ASSUME NEW t \in Tasks, EmitEvent(t) PROVE IInv'
  BY <1>10 DEF EmitEvent, Holding, Deactivated, Tasks
<1>11. ASSUME NEW t \in Tasks, CallbackReturns(t) PROVE IInv'
  <2> DEFINE e == using[t]
  <2>1. e \in Emitters /\ mutex[e] = t /\ active[e]
    BY <1>11 DEF CallbackReturns, Holding
  <2>2. e.chan \in Slots => slotMutex[e.chan] = t
    BY <2>1, <1>11 DEF CallbackReturns, Holding
  <2>3. TypeOK'
    BY <2>1, <1>11 DEF CallbackReturns
  <2>4. Holding'
    <3> SUFFICES ASSUME NEW u \in Tasks, u # t, task[u] = task'[u]
                 PROVE  /\ task[u] = "callback" =>
                             mutex'[using[u]] = u /\ active[using[u]]
                        /\ task[u] \in {"slot", "callback"} /\ using[u].chan \in Slots =>
                             /\ slotMutex'[using[u].chan] = u
                             /\ using[u].reg = slot[using[u].chan]
                        /\ task[u] = "slot" => using[u].chan \in Slots
      BY <1>11 DEF CallbackReturns, Holding
    <3>1. task[u] = "callback" => mutex'[using[u]] = u /\ active[using[u]]
      BY <2>1, <1>11 DEF CallbackReturns, Holding
    <3>2. task[u] \in {"slot", "callback"} /\ using[u].chan \in Slots =>
            slotMutex'[using[u].chan] = u /\ using[u].reg = slot[using[u].chan]
      BY <2>1, <2>2, <1>11 DEF CallbackReturns, Holding
    <3> QED
      BY <3>1, <3>2 DEF Holding
  <2>5. Deactivated'
    <3>1. t # Ui
      BY DEF Tasks
    <3>2. \A c \in Slots : slotMutex[c] = Ui => slotMutex'[c] = Ui
      BY <2>2, <3>1, <1>11 DEF CallbackReturns
    <3>3. UNCHANGED <<ui, slot, active>>
      BY <1>11 DEF CallbackReturns
    <3> QED
      BY <3>2, <3>3 DEF Deactivated, Slots
  <2> QED
    BY <2>3, <2>4, <2>5
<1>12. ASSUME NEW t \in Tasks, TaskEnds(t) PROVE IInv'
  BY <1>12 DEF TaskEnds, Holding, Deactivated
<1>13. CASE UNCHANGED vars
  BY <1>13 DEF vars, Holding, Deactivated
<1> QED
  BY <1>1, <1>2, <1>3, <1>4, <1>5, <1>6, <1>7, <1>8, <1>9, <1>10, <1>11, <1>12,
     <1>13 DEF Next, Shutdown, Driven, Detached, DriverStep, Slots

\* Every reachable state satisfies the inductive invariant.
LEMMA Inductive == Spec => []IInv
  BY InitIInv, StepIInv, PTL DEF Spec

\* The variables of the teardown keep their types: in particular the driver
\* never emits through a slot that holds no emitter.
THEOREM TypeCorrect == Spec => []TypeOK
<1>1. IInv => TypeOK
  BY DEF IInv
<1> QED
  BY <1>1, Inductive, PTL

\* rscore_session_destroy has returned: no task is inside a callback, whichever
\* emitters were registered before and whether or not the driver was joined.
THEOREM DestroyIsFinal == Spec => []NoCallbackAfterReturn
<1>1. IInv => NoCallbackAfterReturn
  <2> SUFFICES ASSUME IInv, ui = "returned", NEW t \in Tasks, task[t] = "callback"
               PROVE  FALSE
    BY DEF NoCallbackAfterReturn
  <2>1. using[t] \in Emitters /\ active[using[t]]
    BY DEF IInv, TypeOK, Holding
  <2>2. ~active[EventEmitter] /\ slot["File"] = 0 /\ slot["Task"] = 0
    BY DEF IInv, Deactivated
  <2>3. using[t].chan \in Slots
    BY <2>1, <2>2, EmitterKinds
  <2>4. using[t].reg = slot[using[t].chan] /\ using[t].reg \in 1..MaxRegistrations
    BY <2>1, <2>3, EmitterKinds DEF IInv, Holding
  <2> QED
    BY <2>2, <2>3, <2>4 DEF Slots
<1> QED
  BY <1>1, Inductive, PTL

\* The callbacks of one channel never overlap, for any number of tasks that ask
\* for a host key next to the driver.
THEOREM SerialCallbacks == Spec => []CallbacksSerial
<1>1. IInv => CallbacksSerial
  <2> SUFFICES ASSUME IInv, NEW t \in Tasks, NEW u \in Tasks,
                      task[t] = "callback", task[u] = "callback",
                      using[t].chan = using[u].chan
               PROVE  t = u
    BY DEF CallbacksSerial
  <2>1. using[t] \in Emitters /\ using[u] \in Emitters
    BY DEF IInv, TypeOK
  <2>2. CASE using[t].chan \in Slots
    BY <2>2 DEF IInv, Holding
  <2>3. CASE using[t].chan \notin Slots
    <3>1. using[t] = EventEmitter /\ using[u] = EventEmitter
      BY <2>1, <2>3, EmitterKinds
    <3> QED
      BY <3>1 DEF IInv, Holding
  <2> QED
    BY <2>2, <2>3
<1> QED
  BY <1>1, Inductive, PTL
=============================================================================
