------------------------------ MODULE Teardown ------------------------------
(***************************************************************************)
(* Destroying a session while its tasks may be calling back into C++:      *)
(* Session::shutdown_and_join, the emitters of rust-core/src/ffi.rs with   *)
(* their `active` mutexes, and the two slots that hold the file and the    *)
(* task emitter.  The promise is that no callback touches user_data once   *)
(* rscore_session_destroy has returned, whether or not the driver task     *)
(* ended within the three seconds of the join.                             *)
(*                                                                         *)
(* The event emitter is fixed when the session is created.  The file and   *)
(* the task emitter live in a slot and may be registered anew, which makes *)
(* a new emitter object with a mutex and a flag of its own; the one it     *)
(* replaces is never deactivated.                                          *)
(***************************************************************************)
EXTENDS Naturals

CONSTANTS
  Driver,            \* the driver task of the session
  Askers,            \* tasks of the SSH library that ask for a host key
  Ui,                \* the thread that owns the session handle
  Nobody,            \* the holder of a free mutex
  MaxRegistrations   \* bound: emitters registered per slot

Tasks == {Driver} \cup Askers

ASSUME TasksAssumption ==
  /\ Driver \notin Askers
  /\ Ui \notin Tasks
  /\ Nobody \notin Tasks \cup {Ui}
ASSUME RegistrationsAssumption == MaxRegistrations \in Nat

Slots == {"File", "Task"}

\* An emitter object: its channel and, for a slot, which registration made it.
Emitters == [chan: {"Event"}, reg: {0}]
            \cup [chan: Slots, reg: 1..MaxRegistrations]
EventEmitter     == [chan |-> "Event", reg |-> 0]
SlotEmitter(c, n) == [chan |-> c, reg |-> n]

VARIABLES
  ui,          \* where the UI thread is in shutdown_and_join
  slot,        \* the registration each slot holds, 0 if none
  made,        \* the registrations made so far for each slot
  slotMutex,   \* who holds the mutex of each slot
  active,      \* the flag of each emitter
  mutex,       \* who holds the mutex around the flag
  task,        \* where each task is
  using        \* the emitter a task is emitting through

vars == <<ui, slot, made, slotMutex, active, mutex, task, using>>

(***************************************************************************)
(* ui: "open"; "joining" after Shutdown and cancel were sent; "Event",     *)
(* "File" and "Task" while that emitter is to be deactivated, with "File!" *)
(* and "Task!" once the slot is locked and emptied; "returned".            *)
(* task: "idle"; "slot" with the slot's mutex held; "callback" with the    *)
(* emitter's mutex held too, inside the C callback; "done".                *)
(***************************************************************************)
UiStates == {"open", "joining", "Event", "File", "File!", "Task", "Task!",
             "returned"}
TypeOK ==
  /\ ui \in UiStates
  /\ slot \in [Slots -> 0..MaxRegistrations]
  /\ made \in [Slots -> 0..MaxRegistrations]
  /\ slotMutex \in [Slots -> Tasks \cup {Ui, Nobody}]
  /\ active \in [Emitters -> BOOLEAN]
  /\ mutex \in [Emitters -> Tasks \cup {Nobody}]
  /\ task \in [Tasks -> {"idle", "slot", "callback", "done"}]
  /\ using \in [Tasks -> Emitters]

Init ==
  /\ ui = "open"
  /\ slot = [c \in Slots |-> 0]
  /\ made = [c \in Slots |-> 0]
  /\ slotMutex = [c \in Slots |-> Nobody]
  /\ active = [e \in Emitters |-> TRUE]
  /\ mutex = [e \in Emitters |-> Nobody]
  /\ task = [t \in Tasks |-> "idle"]
  /\ using = [t \in Tasks |-> EventEmitter]
-----------------------------------------------------------------------------
(* The tasks. *)

\* (mutant) The flag is tested under the mutex, the callback runs outside it.
EmitEventUnlocked(t) ==
  /\ task[t] = "idle"
  /\ mutex[EventEmitter] = Nobody
  /\ active[EventEmitter]
  /\ task' = [task EXCEPT ![t] = "callback"]
  /\ using' = [using EXCEPT ![t] = EventEmitter]
  /\ UNCHANGED <<ui, slot, made, slotMutex, active, mutex>>

\* emit_batch: lock, test the flag, call back with the mutex held.
EmitEvent(t) ==
  /\ task[t] = "idle"
  /\ mutex[EventEmitter] = Nobody
  /\ active[EventEmitter]
  /\ task' = [task EXCEPT ![t] = "callback"]
  /\ using' = [using EXCEPT ![t] = EventEmitter]
  /\ mutex' = [mutex EXCEPT ![EventEmitter] = t]
  /\ UNCHANGED <<ui, slot, made, slotMutex, active>>

\* (mutant) The driver does not expect an empty slot.
LookIntoSlotBlindly(c) ==
  /\ task[Driver] = "idle"
  /\ slotMutex[c] = Nobody
  /\ task' = [task EXCEPT ![Driver] = "slot"]
  /\ using' = [using EXCEPT ![Driver] = SlotEmitter(c, slot[c])]
  /\ slotMutex' = [slotMutex EXCEPT ![c] = Driver]
  /\ UNCHANGED <<ui, slot, made, active, mutex>>

\* (mutant) The emitter is cloned out of the slot and the guard dropped at once.
LookIntoSlotUnlocked(c) ==
  /\ task[Driver] = "idle"
  /\ slotMutex[c] = Nobody
  /\ slot[c] # 0
  /\ task' = [task EXCEPT ![Driver] = "slot"]
  /\ using' = [using EXCEPT ![Driver] = SlotEmitter(c, slot[c])]
  /\ UNCHANGED <<ui, slot, made, slotMutex, active, mutex>>

\* The driver looks into a slot.  The guard of the slot's mutex lives until the
\* end of the `if let`, so it is held across the emission.
LookIntoSlot(c) ==
  /\ task[Driver] = "idle"
  /\ slotMutex[c] = Nobody
  /\ slot[c] # 0
  /\ task' = [task EXCEPT ![Driver] = "slot"]
  /\ using' = [using EXCEPT ![Driver] = SlotEmitter(c, slot[c])]
  /\ slotMutex' = [slotMutex EXCEPT ![c] = Driver]
  /\ UNCHANGED <<ui, slot, made, active, mutex>>

\* emit_file_results and emit_task_results: lock, test the flag, call back.
EmitResult ==
  /\ task[Driver] = "slot"
  /\ mutex[using[Driver]] = Nobody
  /\ IF active[using[Driver]]
       THEN /\ task' = [task EXCEPT ![Driver] = "callback"]
            /\ mutex' = [mutex EXCEPT ![using[Driver]] = Driver]
            /\ UNCHANGED slotMutex
       ELSE /\ task' = [task EXCEPT ![Driver] = "idle"]
            /\ slotMutex' = [slotMutex EXCEPT ![using[Driver].chan] = Nobody]
            /\ UNCHANGED mutex
  /\ UNCHANGED <<ui, slot, made, active, using>>

\* The C callback returns; the guards are dropped.
CallbackReturns(t) ==
  /\ task[t] = "callback"
  /\ task' = [task EXCEPT ![t] = "idle"]
  /\ mutex' = [mutex EXCEPT ![using[t]] = Nobody]
  /\ slotMutex' = [c \in Slots |-> IF using[t].chan = c THEN Nobody
                                                        ELSE slotMutex[c]]
  /\ UNCHANGED <<ui, slot, made, active, using>>

TaskEnds(t) ==
  /\ task[t] = "idle"
  /\ task' = [task EXCEPT ![t] = "done"]
  /\ UNCHANGED <<ui, slot, made, slotMutex, active, mutex, using>>
-----------------------------------------------------------------------------
(* The UI thread. *)

\* set_file_emitter and set_task_emitter.
Register(c) ==
  /\ ui = "open"
  /\ made[c] < MaxRegistrations
  /\ slotMutex[c] = Nobody
  /\ made' = [made EXCEPT ![c] = made[c] + 1]
  /\ slot' = [slot EXCEPT ![c] = made[c] + 1]
  /\ UNCHANGED <<ui, slotMutex, active, mutex, task, using>>

UiStep(from, to) ==
  /\ ui = from
  /\ ui' = to

BeginDestroy ==
  /\ UiStep("open", "joining")
  /\ UNCHANGED <<slot, made, slotMutex, active, mutex, task, using>>

\* (mutant) The join has no time limit.
JoinUnbounded ==
  /\ UiStep("joining", "Event")
  /\ task[Driver] = "done"
  /\ UNCHANGED <<slot, made, slotMutex, active, mutex, task, using>>

\* The bounded join is over: the driver has ended, or it is detached.
JoinOver ==
  /\ UiStep("joining", "Event")
  /\ UNCHANGED <<slot, made, slotMutex, active, mutex, task, using>>

Driven   == task[Driver] = "done" /\ JoinOver
Detached == task[Driver] # "done" /\ JoinOver

\* FfiEmitter::deactivate waits for a callback under way.
DeactivateEvents ==
  /\ UiStep("Event", "File")
  /\ mutex[EventEmitter] = Nobody
  /\ active' = [active EXCEPT ![EventEmitter] = FALSE]
  /\ UNCHANGED <<slot, made, slotMutex, mutex, task, using>>

\* The slot is locked; without an emitter in it there is nothing to deactivate.
SkipEmptySlot(c, after) ==
  /\ UiStep(c, after)
  /\ slotMutex[c] = Nobody
  /\ slot[c] = 0
  /\ UNCHANGED <<slot, made, slotMutex, active, mutex, task, using>>

LockSlot(c, locked) ==
  /\ UiStep(c, locked)
  /\ slotMutex[c] = Nobody
  /\ slot[c] # 0
  /\ slotMutex' = [slotMutex EXCEPT ![c] = Ui]
  /\ UNCHANGED <<slot, made, active, mutex, task, using>>

\* The emitter is taken out of the slot and deactivated, then the slot's guard
\* is dropped.
DeactivateSlot(c, locked, after) ==
  LET e == SlotEmitter(c, slot[c])
  IN  /\ UiStep(locked, after)
      /\ mutex[e] = Nobody
      /\ active' = [active EXCEPT ![e] = FALSE]
      /\ slot' = [slot EXCEPT ![c] = 0]
      /\ slotMutex' = [slotMutex EXCEPT ![c] = Nobody]
      /\ UNCHANGED <<made, mutex, task, using>>

Shutdown ==
  \/ Driven \/ Detached
  \/ DeactivateEvents
  \/ SkipEmptySlot("File", "Task")
  \/ LockSlot("File", "File!")
  \/ DeactivateSlot("File", "File!", "Task")
  \/ SkipEmptySlot("Task", "returned")
  \/ LockSlot("Task", "Task!")
  \/ DeactivateSlot("Task", "Task!", "returned")
-----------------------------------------------------------------------------
DriverStep ==
  \/ \E c \in Slots : LookIntoSlot(c)
  \/ EmitResult

Next ==
  \/ \E c \in Slots : Register(c)
  \/ BeginDestroy
  \/ Shutdown
  \/ DriverStep
  \/ \E t \in Tasks : EmitEvent(t) \/ CallbackReturns(t) \/ TaskEnds(t)

Spec == Init /\ [][Next]_vars

(***************************************************************************)
(* The join is bounded by a timer and a free mutex is granted to the UI    *)
(* thread in the end, though tasks may take it in between (strong          *)
(* fairness).  The callbacks only copy and post, so they return.           *)
(***************************************************************************)
Fairness ==
  /\ SF_vars(Shutdown)
  /\ WF_vars(EmitResult)
  /\ \A t \in Tasks : WF_vars(CallbackReturns(t))

FairSpec == Spec /\ Fairness
-----------------------------------------------------------------------------
\* rscore_session_destroy: once it has returned, no task is inside a C callback
\* and user_data may be freed, a driver that was detached or an emitter that
\* was replaced notwithstanding.
NoCallbackAfterReturn ==
  ui = "returned" => \A t \in Tasks : task[t] # "callback"

\* The callback of one channel is never entered from two tasks at once, although
\* the host-key gate calls the event emitter from a task that is not the driver.
\* Callbacks of two channels may overlap: an event of the gate, a result of the
\* driver.
CallbacksSerial ==
  \A t, u \in Tasks :
    task[t] = "callback" /\ task[u] = "callback"
      /\ using[t].chan = using[u].chan => t = u

\* shutdown_and_join always returns: the slot's mutex and the emitter's mutex
\* are taken in the same order on both sides, so neither waits for the other.
DestroyReturns == ui = "joining" ~> ui = "returned"
=============================================================================
