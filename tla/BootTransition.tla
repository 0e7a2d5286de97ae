--------------------------- MODULE BootTransition ---------------------------
(***************************************************************************)
(* One physical lane: the adapter that powers, boots and reads a Raspberry *)
(* Pi 5 (internal/provisioning/physicalrpi5), and the durable record it    *)
(* keeps of every boot transition in the journal of the lane guard         *)
(* (laneguard/boot_transition.go, laneguard/store.go).                     *)
(*                                                                         *)
(* The adapter serves one call at a time (adapter.mu).  What comes between *)
(* its steps is the operator's hand, a board exchanged on the lane, the    *)
(* loss of the process that holds the relay, failing saves and the end of  *)
(* the daemon, so a call is cut at every save and at every effect on the   *)
(* target.  Times are left out: prompts expire and waits end by choice,    *)
(* and atLeast keeps the recorded times in order on a clock that is not    *)
(* set back.                                                               *)
(***************************************************************************)
EXTENDS Integers, FiniteSets

CONSTANTS
    Actions,          \* the hardware actions the guard asks for
    PowerModes,       \* the power controls the daemon is configured with
    InitialModes,     \* the initial target modes it is configured with
    MaxGeneration,    \* the last generation of an action
    MaxSaveFailures,  \* bound on saves and reloads that return an error
    MaxCrashes,       \* bound on the ends of the daemon
    MaxSwaps,         \* bound on boards exchanged on the lane
    Nil               \* an absent record

Phases == {"pre_observation", "execute", "post_observation", "reconciliation"}
Operations == {"program_customer_key_and_eeprom", "cold_power_cycle", "owned_readback"}
HardwareAction == [phase : Phases, operation : Operations]

Commit(action) ==
    action.phase = "execute" /\ action.operation = "program_customer_key_and_eeprom"

\* Only an execution inherits the boot mode of its operation; observations
\* are made over RPIBOOT.
RequestedBootMode(action) ==
    IF action.phase = "execute" /\ action.operation = "cold_power_cycle"
    THEN "normal" ELSE "rpiboot"

\* bootTransitionRank: the active states, in order, are 0 to 5.
Ranks == 0..5
Requested == 0
AwaitingOperator == 1
OperatorAcknowledged == 2
PowerEstablished == 3
ModeObserved == 4
OperatorReleased == 5

SafeTerminal == {"completed", "aborted_safe_off", "interrupted_safe_off"}
Terminal == SafeTerminal \cup {"quarantined"}

\* A record: the power control it was begun under, how far it came, how it
\* ended, and whether it holds the operator's proof of the disconnection.  The
\* failure it names follows from the status.
Record ==
    [power : {"relay", "manual"}, rank : Ranks, status : {"active"} \cup Terminal,
     finalProof : BOOLEAN]

Keys == Actions \X (1..MaxGeneration)

ASSUME LaneAssumption ==
    /\ Actions \subseteq HardwareAction
    /\ PowerModes \subseteq {"relay", "manual"}
    /\ InitialModes \subseteq {"fresh", "owned", "auto_reconcile"}
    /\ MaxGeneration \in Nat \ {0}
    /\ MaxSaveFailures \in Nat /\ MaxCrashes \in Nat /\ MaxSwaps \in Nat
    /\ Nil \notin Record \cup Actions \cup Keys

VARIABLES
    transitions,   \* the boot transitions of the journal file
    powerControl,  \* config.PowerControl of the running daemon
    mode,          \* adapter.mode
    cached,        \* adapter.target is set
    lease,         \* adapter.power
    pin,           \* adapter.usbPin
    pc,            \* where the call in flight is
    action,        \* the action of the call
    key,           \* the key of the transition it works on
    local,         \* the adapter's copy of that transition
    safe,          \* whether the last attempt to prove safe-off succeeded
    target,        \* the board on the lane: "off", or how it came up
    board,         \* which board that is
    owned,         \* whether each board carries the customer key
    saveFailures, crashes, swaps,
    cutOff,        \* the transitions that were open when the daemon last ended
    executed,      \* the transition in hand has had its payload's result
    exchanged,     \* a board was exchanged since the last check of the pin
    committed,     \* the boards on which a commit was started
    refusedPut     \* the journal's validation refused some record

laneVars == <<target, board, owned>>
adapterVars == <<powerControl, mode, cached, lease, pin>>
journalVars == <<transitions, saveFailures, refusedPut>>
historyVars == <<cutOff, executed, exchanged, committed>>
vars == <<transitions, powerControl, mode, cached, lease, pin, pc, action, key,
          local, safe, target, board, owned, saveFailures, crashes, swaps,
          cutOff, executed, exchanged, committed, refusedPut>>

-----------------------------------------------------------------------------
(***************************************************************************)
(* The journal.                                                            *)
(***************************************************************************)
Present(k) == transitions[k] # Nil
Incomplete(k) == Present(k) /\ transitions[k].status \notin Terminal
HasQuarantinedBootTransition ==
    \E k \in Keys : Present(k) /\ transitions[k].status = "quarantined"

LastRank(act) == IF RequestedBootMode(act) = "normal" THEN ModeObserved ELSE OperatorReleased

validatePowerControlEvidence(record) ==
    /\ record.power = "relay" => ~ record.finalProof
    /\ record.power = "manual" /\ record.status \in SafeTerminal => record.finalProof
    /\ record.status = "active" => ~ record.finalProof

Validate(act, record) ==
    /\ record.rank <= LastRank(act)
    /\ validatePowerControlEvidence(record)
    /\ record.status = "completed" => record.rank = LastRank(act)

validBootTransitionUpdate(act, existing, next) ==
    /\ Validate(act, next)
    /\ existing.power = next.power
    /\ next.rank >= existing.rank
    /\ existing.status \in Terminal => next = existing
    /\ existing.status = "active" /\ next.status = "completed" =>
          existing.rank = LastRank(act)
    /\ next.status = "active" =>
          \/ next.rank = existing.rank + 1
          \/ next = existing

Acceptable(k, record) ==
    Present(k) /\ validBootTransitionUpdate(k[1], transitions[k], record)

\* How far an ended transition had come is read by no later step, and is not
\* kept apart here.
Kept(record) ==
    IF record.status = "active" THEN record ELSE [record EXCEPT !.rank = Requested]

Saved(k, record) ==
    /\ Acceptable(k, record)
    /\ transitions' = [transitions EXCEPT ![k] = Kept(record)]
    /\ UNCHANGED <<saveFailures, refusedPut>>

\* A save that returns an error may have replaced the file or not: it is
\* renamed into place before the directory is synced.
SaveFailed(k, record) ==
    /\ Acceptable(k, record)
    /\ saveFailures < MaxSaveFailures
    /\ saveFailures' = saveFailures + 1
    /\ transitions' \in {transitions, [transitions EXCEPT ![k] = Kept(record)]}
    /\ UNCHANGED refusedPut

Refused(k, record) ==
    /\ ~ Acceptable(k, record)
    /\ refusedPut' = TRUE
    /\ UNCHANGED <<transitions, saveFailures>>

PutFails(k, record) == SaveFailed(k, record) \/ Refused(k, record)
PutBootTransition(k, record) == Saved(k, record) \/ PutFails(k, record)

-----------------------------------------------------------------------------
(***************************************************************************)
(* The call in flight.                                                     *)
(***************************************************************************)
At(p) == pc = p
Goto(p) == pc' = p
Keep == UNCHANGED <<action, key>>

\* The call returns to the guard; a USB pin does not outlive it.
Returns ==
    /\ Goto("idle")
    /\ action' = Nil /\ key' = Nil /\ local' = Nil /\ safe' = FALSE
    /\ pin' = "none"

\* failTransition: the target is made safe first, then the record is ended.
Fails(record) ==
    /\ Goto("failing")
    /\ local' = record
    /\ pin' = "none"
    /\ UNCHANGED safe

\* The next active state, saved before anything follows from it.  When the
\* save returns an error the adapter fails the transition with its own copy.
AdvancesTo(rank, next) ==
    LET record == [local EXCEPT !.rank = rank]
    IN  \/ Saved(key, record) /\ Goto(next) /\ local' = record /\ UNCHANGED <<safe, pin>>
        \/ PutFails(key, record) /\ Fails(record)

\* Observe and Execute: bindLane, then prepareLane.
Call(act) ==
    /\ At("idle")
    /\ Goto("recovering")
    /\ action' = act
    /\ UNCHANGED <<key, local, safe, laneVars, adapterVars, journalVars, crashes,
                   swaps, historyVars>>

-----------------------------------------------------------------------------
(***************************************************************************)
(* recoverIncompleteTransitions, at the start of every call.               *)
(***************************************************************************)
\* A version that recovers the lane and forgets that it is locked.
RecoveredMutant ==
    /\ At("recovering")
    /\ \A k \in Keys : ~ Incomplete(k)
    /\ Goto("initial_safe_off") /\ Keep /\ UNCHANGED <<local, safe, pin>>
    /\ UNCHANGED <<powerControl, mode, cached, lease, laneVars, journalVars,
                   crashes, swaps, historyVars>>

\* The loop over the incomplete transitions is over: a quarantined lane
\* refuses the call.
Recovered ==
    /\ At("recovering")
    /\ \A k \in Keys : ~ Incomplete(k)
    /\ IF HasQuarantinedBootTransition
       THEN Returns
       ELSE Goto("initial_safe_off") /\ Keep /\ UNCHANGED <<local, safe, pin>>
    /\ UNCHANGED <<powerControl, mode, cached, lease, laneVars, journalVars,
                   crashes, swaps, historyVars>>

\* A version that refuses the call and leaves the record as it is.
RecoverMismatchMutant ==
    /\ At("recovering")
    /\ \E k \in Keys : Incomplete(k) /\ transitions[k].power # powerControl
    /\ Returns
    /\ UNCHANGED <<powerControl, mode, cached, lease, laneVars, journalVars,
                   crashes, swaps, historyVars>>

\* A transition begun under the other power control is quarantined, and no
\* actuator is touched.
RecoverMismatch ==
    /\ At("recovering")
    /\ \E k \in Keys :
          /\ Incomplete(k)
          /\ transitions[k].power # powerControl
          /\ PutBootTransition(k, [transitions[k] EXCEPT !.status = "quarantined"])
    /\ Returns
    /\ UNCHANGED <<powerControl, mode, cached, lease, laneVars, crashes, swaps, historyVars>>

RecoverSelect ==
    /\ At("recovering")
    /\ \E k \in Keys :
          /\ Incomplete(k)
          /\ transitions[k].power = powerControl
          /\ key' = k
          /\ local' = transitions[k]
    /\ Goto("recover_safe_off")
    /\ executed' = FALSE
    /\ UNCHANGED <<action, safe, laneVars, adapterVars, journalVars, crashes, swaps,
                   cutOff, exchanged, committed>>

\* A version that asks the operator again where it was waiting for him.
RecoverPutMutant ==
    /\ At("recover_put")
    /\ IF safe /\ local.rank = AwaitingOperator
       THEN /\ Goto("prompt") /\ local' = [local EXCEPT !.finalProof = FALSE]
            /\ Keep /\ UNCHANGED <<journalVars, safe, pin>>
       ELSE /\ PutBootTransition(key, [local EXCEPT !.status =
                   IF safe THEN "interrupted_safe_off" ELSE "quarantined"])
            /\ Returns
    /\ UNCHANGED <<powerControl, mode, cached, lease, laneVars, crashes, swaps, historyVars>>

RecoverPut ==
    /\ At("recover_put")
    /\ LET record == [local EXCEPT !.status =
                        IF safe THEN "interrupted_safe_off" ELSE "quarantined"]
       IN  \/ /\ Saved(key, record)
              /\ IF safe
                 THEN /\ Goto("recovering") /\ key' = Nil /\ local' = Nil /\ safe' = FALSE
                      /\ UNCHANGED <<action, pin>>
                 ELSE Returns
           \/ PutFails(key, record) /\ Returns
    /\ UNCHANGED <<powerControl, mode, cached, lease, laneVars, crashes, swaps, historyVars>>

-----------------------------------------------------------------------------
(***************************************************************************)
(* Proving that the target is off: relaySafeOff and manualSafeOff, from    *)
(* establishInitialSafeOff and from proveSafeOff.                          *)
(***************************************************************************)
SafeOffPoints == {"initial_safe_off", "recover_safe_off", "failing", "completing"}

\* What follows the proof, or the lack of one.
SafeOffProved(proof) ==
    /\ safe' = TRUE
    /\ Goto(CASE At("initial_safe_off") -> "begin"
              [] At("recover_safe_off") -> "recover_put"
              [] At("failing") -> "terminalize"
              [] At("completing") -> "put_completed")
    /\ local' = IF local = Nil THEN Nil ELSE [local EXCEPT !.finalProof = proof]
    /\ Keep /\ UNCHANGED pin

SafeOffUnproven(proof) ==
    IF At("initial_safe_off") THEN Returns
    ELSE /\ safe' = FALSE
         /\ Goto(IF At("recover_safe_off") THEN "recover_put" ELSE "terminalize")
         /\ local' = [local EXCEPT !.finalProof = proof]
         /\ Keep /\ UNCHANGED pin

\* The RPIBOOT device is on the fixed USB path exactly when the board is
\* powered and came up in RPIBOOT.
USBAbsent == target # "rpiboot"

\* The relay is released and the USB device is gone.
RelaySafeOff ==
    /\ pc \in SafeOffPoints
    /\ powerControl = "relay"
    /\ lease \in {"none", "held"}
    /\ target' = IF lease = "held" THEN "off" ELSE target
    /\ USBAbsent'
    /\ lease' = "none"
    /\ SafeOffProved(FALSE)
    /\ UNCHANGED <<powerControl, mode, cached, board, owned, journalVars, crashes,
                   swaps, historyVars>>

\* A version that counts the disappearance of the USB device alone.
RelaySafeOffFailsMutant ==
    /\ pc \in SafeOffPoints
    /\ powerControl = "relay"
    /\ lease # "none"
    /\ UNCHANGED <<target, lease>>
    /\ USBAbsent
    /\ SafeOffProved(FALSE)
    /\ UNCHANGED <<powerControl, mode, cached, board, owned, journalVars, crashes,
                   swaps, historyVars>>

\* Release returns an error (the holder did not stop as asked, or the line
\* could not be driven inactive), or the USB device stays or cannot be read.
RelaySafeOffFails ==
    /\ pc \in SafeOffPoints
    /\ powerControl = "relay"
    /\ \/ lease = "none" /\ UNCHANGED <<target, lease>>
       \/ lease = "held" /\ target' = "off" /\ lease' = "none"
       \/ /\ lease # "none"
          /\ target' \in {target, "off"}
          /\ lease' \in {lease, "broken"}
    /\ SafeOffUnproven(FALSE)
    /\ UNCHANGED <<powerControl, mode, cached, board, owned, journalVars, crashes,
                   swaps, historyVars>>

\* The operator disconnects the supply when asked to, and may do so without
\* acknowledging it in time.
OperatorDisconnects ==
    /\ pc \in SafeOffPoints
    /\ powerControl = "manual"
    /\ target # "off"
    /\ target' = "off"
    /\ UNCHANGED <<pc, action, key, local, safe, board, owned, adapterVars, journalVars,
                   crashes, swaps, historyVars>>

ManualSafeOff ==
    /\ pc \in SafeOffPoints
    /\ powerControl = "manual"
    /\ target = "off"
    /\ SafeOffProved(TRUE)
    /\ UNCHANGED <<powerControl, mode, cached, lease, laneVars, journalVars, crashes,
                   swaps, historyVars>>

\* Without an acknowledgement in time there is no proof; with one, the USB
\* device may still not be seen to be gone.
ManualSafeOffFails ==
    /\ pc \in SafeOffPoints
    /\ powerControl = "manual"
    /\ \E acknowledged \in BOOLEAN :
          /\ acknowledged => target = "off"
          /\ SafeOffUnproven(acknowledged)
    /\ UNCHANGED <<powerControl, mode, cached, lease, laneVars, journalVars, crashes,
                   swaps, historyVars>>

-----------------------------------------------------------------------------
(***************************************************************************)
(* runBootTransition.                                                      *)
(***************************************************************************)
\* beginBootTransition gives the action its next generation.
Generation(act) ==
    1 + Cardinality({g \in 1..MaxGeneration : Present(<<act, g>>)})
Open(act) == \E g \in 1..MaxGeneration : Incomplete(<<act, g>>)

NewRecord ==
    [power |-> powerControl, rank |-> Requested, status |-> "active",
     finalProof |-> FALSE]

\* The record of the transition and of its prompt are saved before either
\* has an effect.  A save that fails ends the call, whatever the file holds.
BeginBootTransition ==
    /\ At("begin")
    /\ ~ Open(action) /\ Generation(action) <= MaxGeneration
    /\ LET k == <<action, Generation(action)>>
           begun == [transitions EXCEPT ![k] = NewRecord]
       IN  \/ /\ transitions' = begun /\ UNCHANGED saveFailures
              /\ Goto("cold_interval")
              /\ key' = k /\ local' = NewRecord /\ safe' = FALSE
              /\ UNCHANGED <<action, pin>>
              /\ executed' = FALSE
           \/ /\ saveFailures < MaxSaveFailures
              /\ saveFailures' = saveFailures + 1
              /\ transitions' \in {transitions, begun}
              /\ UNCHANGED executed
              /\ Returns
    /\ UNCHANGED <<powerControl, mode, cached, lease, laneVars, refusedPut, crashes,
                   swaps, cutOff, exchanged, committed>>

BeginRefused ==
    /\ At("begin")
    /\ Open(action) \/ Generation(action) > MaxGeneration
    /\ Returns
    /\ UNCHANGED <<powerControl, mode, cached, lease, laneVars, journalVars, crashes,
                   swaps, historyVars>>

\* A wait that ends because the call's context ended, or for another reason.
Interrupted(p) ==
    /\ At(p)
    /\ Fails(local)
    /\ Keep
    /\ UNCHANGED <<powerControl, mode, cached, lease, laneVars, journalVars, crashes,
                   swaps, historyVars>>

\* In a manual lane a normal boot is watched before the operator is asked to
\* connect the supply.
ColdInterval ==
    /\ At("cold_interval")
    /\ AdvancesTo(AwaitingOperator,
          IF powerControl = "manual" /\ RequestedBootMode(action) = "normal"
          THEN "arm_normal" ELSE "prompt")
    /\ Keep
    /\ UNCHANGED <<powerControl, mode, cached, lease, laneVars, crashes, swaps, historyVars>>

\* The board comes up as the operator left BOOTSEL, whatever was asked for.
PoweredUp == {"rpiboot", "normal"}

OperatorConnects ==
    /\ At("prompt")
    /\ powerControl = "manual"
    /\ target = "off"
    /\ target' \in PoweredUp
    /\ UNCHANGED <<pc, action, key, local, safe, board, owned, adapterVars, journalVars,
                   crashes, swaps, historyVars>>

\* acknowledgePowerPrompt.
OperatorAcknowledges ==
    /\ At("prompt")
    /\ powerControl = "manual" => target # "off"
    /\ AdvancesTo(OperatorAcknowledged,
          IF powerControl = "manual" THEN "put_power"
          ELSE IF RequestedBootMode(action) = "normal" THEN "arm_normal"
          ELSE "apply_power")
    /\ Keep
    /\ UNCHANGED <<powerControl, mode, cached, lease, laneVars, crashes, swaps, historyVars>>

\* A normal boot needs an owned board that has been read, and no RPIBOOT
\* device in sight when the watcher starts.
ArmNormal ==
    /\ At("arm_normal")
    /\ cached /\ mode = "owned"
    /\ USBAbsent
    /\ Goto(IF powerControl = "manual" THEN "prompt" ELSE "apply_power")
    /\ Keep
    /\ UNCHANGED <<local, safe, laneVars, adapterVars, journalVars, crashes, swaps,
                   historyVars>>

EnsurePower ==
    /\ At("apply_power")
    /\ lease = "none"
    /\ lease' = "held"
    /\ target' \in PoweredUp
    /\ Goto("put_power")
    /\ Keep
    /\ UNCHANGED <<powerControl, mode, cached, pin, local, safe, board, owned,
                   journalVars, crashes, swaps, historyVars>>

\* An acquisition that fails may leave a lease whose cleanup is pending.
EnsurePowerFails ==
    /\ At("apply_power")
    /\ \/ lease # "none" /\ UNCHANGED <<lease, target>>
       \/ lease = "none" /\ UNCHANGED <<lease, target>>
       \/ lease = "none" /\ lease' \in {"held", "broken"} /\ target' \in PoweredUp \cup {"off"}
    /\ Fails(local)
    /\ Keep
    /\ UNCHANGED <<powerControl, mode, cached, board, owned, journalVars, crashes,
                   swaps, historyVars>>

PutPowerEstablished ==
    /\ At("put_power")
    /\ AdvancesTo(PowerEstablished, "observe")
    /\ Keep
    /\ UNCHANGED <<powerControl, mode, cached, lease, laneVars, crashes, swaps, historyVars>>

\* The one RPIBOOT device is the one on the fixed USB path.
RequireExactTarget == target = "rpiboot"

\* The signed boot of an owned board on the UART, while the watcher saw no
\* RPIBOOT device.
NormalBootSeen == target = "normal" /\ owned[board]

ObserveMode ==
    /\ At("observe")
    /\ IF RequestedBootMode(action) = "normal" THEN NormalBootSeen ELSE RequireExactTarget
    /\ AdvancesTo(ModeObserved,
          IF RequestedBootMode(action) = "normal" THEN "completing" ELSE "release")
    /\ Keep
    /\ IF RequestedBootMode(action) = "normal" /\ pc' = "completing"
       THEN executed' = TRUE ELSE UNCHANGED executed
    /\ UNCHANGED <<powerControl, mode, cached, lease, laneVars, crashes, swaps, cutOff,
                   exchanged, committed>>

ReleaseBOOTSEL ==
    /\ At("release")
    /\ AdvancesTo(OperatorReleased,
          IF action.phase = "execute" THEN "preflight" ELSE "payload")
    /\ Keep
    /\ UNCHANGED <<powerControl, mode, cached, lease, laneVars, crashes, swaps, historyVars>>

-----------------------------------------------------------------------------
(***************************************************************************)
(* The payload.                                                            *)
(***************************************************************************)
LeaseMatches == (powerControl = "relay") = (lease # "none")

\* The board answers with the authority-bound fingerprint and the key state
\* that a readback in this mode expects.
ReadsBack(readMode) ==
    /\ RequireExactTarget /\ LeaseMatches
    /\ board = "expected"
    /\ owned[board] = (readMode = "owned")

\* The USB instance is pinned and its identity read before an execution.
Preflight ==
    /\ At("preflight")
    /\ mode \in {"fresh", "owned"}
    /\ ReadsBack(mode)
    /\ pin' = "held"
    /\ Goto("payload")
    /\ Keep
    /\ UNCHANGED <<powerControl, mode, cached, lease, local, safe, laneVars, journalVars,
                   crashes, swaps, historyVars>>

\* A version that trusts the preflight and does not look at the pin again.
BeforeStartMutant ==
    /\ At("payload")
    /\ action.phase = "execute"
    /\ Commit(action) => mode = "fresh"
    /\ RequireExactTarget /\ LeaseMatches
    /\ exchanged' = FALSE
    /\ Goto("guarded_run")
    /\ Keep
    /\ UNCHANGED <<local, safe, laneVars, adapterVars, journalVars, crashes, swaps,
                   cutOff, executed, committed>>

\* RunGuarded, before the process is started: the device on the fixed path is
\* still the USB instance that the preflight read.  A commit is refused
\* outside fresh mode.
BeforeStart ==
    /\ At("payload")
    /\ action.phase = "execute"
    /\ Commit(action) => mode = "fresh"
    /\ RequireExactTarget /\ LeaseMatches
    /\ pin = "held"
    /\ exchanged' = FALSE
    /\ Goto("guarded_run")
    /\ Keep
    /\ UNCHANGED <<local, safe, laneVars, adapterVars, journalVars, crashes, swaps,
                   cutOff, executed, committed>>

\* The payload of an execution is started by RunGuarded, any other by Run.
\* Either finds what is on the USB path by then.
PayloadStarts ==
    /\ \/ At("guarded_run")
       \/ At("payload") /\ action.phase # "execute"
    /\ RequireExactTarget

\* readbackLocked, for an observation and for the operations that only read:
\* success is what sets the adapter's mode.
Readback ==
    /\ PayloadStarts
    /\ ~ Commit(action)
    /\ \E readMode \in IF action.phase = "execute" THEN {"owned"}
                       ELSE IF mode = "auto_reconcile" THEN {"owned", "fresh"}
                       ELSE {mode} :
          /\ ReadsBack(readMode)
          /\ mode' = readMode
    /\ cached' = TRUE
    /\ executed' = TRUE
    /\ Goto("completing")
    /\ Keep
    /\ UNCHANGED <<powerControl, lease, pin, local, safe, laneVars, journalVars, crashes,
                   swaps, cutOff, exchanged, committed>>

\* commitLocked: rpiboot programs the board it finds.  The metadata it prints
\* must be the authority-bound board's, and rpiboot may program a board and
\* still end in an error.
CommitPayload ==
    /\ PayloadStarts
    /\ Commit(action)
    /\ committed' = committed \cup
          {[board |-> board, owned |-> owned[board], exchanged |-> exchanged]}
    /\ \/ /\ board = "expected"
          /\ owned' = [owned EXCEPT ![board] = TRUE]
          /\ mode' = "owned" /\ cached' = TRUE
          /\ executed' = TRUE
          /\ Goto("completing") /\ UNCHANGED <<local, safe, pin>>
       \/ /\ owned' \in {owned, [owned EXCEPT ![board] = TRUE]}
          /\ Fails(local)
          /\ UNCHANGED <<mode, cached, executed>>
    /\ Keep
    /\ UNCHANGED <<powerControl, lease, target, board, journalVars, crashes, swaps, cutOff,
                   exchanged>>

-----------------------------------------------------------------------------
(***************************************************************************)
(* The end of a transition.                                                *)
(***************************************************************************)
\* completeTransition, once safe-off is proved.
PutCompleted ==
    /\ At("put_completed")
    /\ LET record == [local EXCEPT !.status = "completed"]
       IN  \/ Saved(key, record) /\ Returns
           \/ /\ PutFails(key, record)
              /\ Goto("terminalize") /\ local' = record
              /\ Keep /\ UNCHANGED <<safe, pin>>
    /\ UNCHANGED <<powerControl, mode, cached, lease, laneVars, crashes, swaps, historyVars>>

\* MergeBootTransitionProgress keeps the local copy's progress only where it
\* is the next step of the durable record.
Mergeable == local.rank \in {transitions[key].rank, transitions[key].rank + 1}

\* A version that goes by how far the transition came.
EndingsMutant ==
    {[local EXCEPT !.status =
        IF ~ safe THEN "quarantined"
        ELSE IF local.rank = LastRank(action) THEN "completed" ELSE "aborted_safe_off"]}

\* The failure was an interruption, or the context has ended by now.
Endings ==
    IF ~ safe
    THEN {[local EXCEPT !.status = "quarantined"]}
    ELSE {[local EXCEPT !.status = ending] :
             ending \in {"interrupted_safe_off", "aborted_safe_off"}}

\* A version that does not read the durable record again.
TerminalizeMutant ==
    /\ At("terminalize")
    /\ \E record \in Endings : PutBootTransition(key, record)
    /\ Returns
    /\ UNCHANGED <<powerControl, mode, cached, lease, laneVars, crashes, swaps, historyVars>>

\* terminalizeTransition: a record that is already terminal stands, also when
\* the save that wrote it returned an error.
Terminalize ==
    /\ At("terminalize")
    /\ \/ Incomplete(key) /\ Mergeable /\ \E record \in Endings : PutBootTransition(key, record)
       \/ ~ (Incomplete(key) /\ Mergeable) /\ UNCHANGED journalVars
    /\ Returns
    /\ UNCHANGED <<powerControl, mode, cached, lease, laneVars, crashes, swaps, historyVars>>

\* The durable record cannot be read: it is left for the next recovery.
ReloadFails ==
    /\ At("terminalize")
    /\ saveFailures < MaxSaveFailures
    /\ saveFailures' = saveFailures + 1
    /\ Returns
    /\ UNCHANGED <<transitions, refusedPut, powerControl, mode, cached, lease, laneVars,
                   crashes, swaps, historyVars>>

-----------------------------------------------------------------------------
(***************************************************************************)
(* What happens to the lane and to the daemon.                             *)
(***************************************************************************)
\* The board on the lane is exchanged for another one.
Swap ==
    /\ swaps < MaxSwaps
    /\ swaps' = swaps + 1
    /\ board' = IF board = "expected" THEN "other" ELSE "expected"
    /\ target' \in IF target = "off" THEN {"off"} ELSE PoweredUp
    /\ pin' = IF pin = "held" THEN "broken" ELSE pin
    /\ exchanged' = (exchanged \/ At("guarded_run"))
    /\ UNCHANGED <<pc, action, key, local, safe, owned, powerControl, mode, cached, lease,
                   journalVars, crashes, cutOff, executed, committed>>

\* The process that holds the relay ends by itself.
HolderDies ==
    /\ lease = "held"
    /\ lease' = "broken"
    /\ target' = "off"
    /\ UNCHANGED <<pc, action, key, local, safe, board, owned, powerControl, mode, cached,
                   pin, journalVars, crashes, swaps, historyVars>>

\* The daemon ends, at whatever point, and is started again, perhaps with
\* another configuration.  The holder of the relay dies with its parent and
\* the relay is normally off; a supply connected by hand stays connected.
Restart ==
    /\ crashes < MaxCrashes
    /\ crashes' = crashes + 1
    /\ powerControl' \in PowerModes
    /\ mode' \in InitialModes
    /\ cached' = FALSE
    /\ target' = IF lease # "none" THEN "off" ELSE target
    /\ lease' = "none"
    /\ Returns
    /\ cutOff' = {k \in Keys : Incomplete(k)}
    /\ UNCHANGED <<board, owned, journalVars, swaps, executed, exchanged, committed>>

Init ==
    /\ transitions = [k \in Keys |-> Nil]
    /\ powerControl \in PowerModes
    /\ mode \in InitialModes
    /\ cached = FALSE /\ lease = "none" /\ pin = "none"
    /\ pc = "idle" /\ action = Nil /\ key = Nil /\ local = Nil /\ safe = FALSE
    /\ target = "off" /\ board = "expected"
    /\ owned = [b \in {"expected", "other"} |-> FALSE]
    /\ saveFailures = 0 /\ crashes = 0 /\ swaps = 0
    /\ cutOff = {} /\ executed = FALSE /\ exchanged = FALSE /\ committed = {}
    /\ refusedPut = FALSE

\* The points at which the adapter waits, reads or runs something that may
\* fail before it has an effect of its own.
FailingPoints ==
    {"cold_interval", "prompt", "arm_normal", "observe", "release", "preflight", "payload",
     "guarded_run"}

\* Everything the adapter does by itself once it has been called.
AdapterStep ==
    \/ Recovered \/ RecoverMismatch \/ RecoverSelect \/ RecoverPut
    \/ RelaySafeOff \/ RelaySafeOffFails \/ ManualSafeOff \/ ManualSafeOffFails
    \/ BeginBootTransition \/ BeginRefused
    \/ ColdInterval \/ OperatorAcknowledges \/ ArmNormal
    \/ EnsurePower \/ EnsurePowerFails \/ PutPowerEstablished
    \/ ObserveMode \/ ReleaseBOOTSEL \/ Preflight \/ BeforeStart
    \/ Readback \/ CommitPayload
    \/ PutCompleted \/ Terminalize \/ ReloadFails
    \/ \E p \in FailingPoints : Interrupted(p)

Next ==
    \/ \E act \in Actions : Call(act)
    \/ AdapterStep
    \/ OperatorDisconnects
    \/ OperatorConnects
    \/ Swap
    \/ HolderDies
    \/ Restart

Spec == Init /\ [][Next]_vars

\* Every wait of the adapter is bounded, so a call that runs takes its next
\* step, and the guard of a lane that is in use calls again.
Fairness ==
    /\ WF_vars(AdapterStep)
    /\ WF_vars(\E act \in Actions : Call(act))

FairSpec == Spec /\ Fairness

-----------------------------------------------------------------------------
(***************************************************************************)
(* Properties.                                                             *)
(***************************************************************************)
\* The variables keep their types; a call in flight has an action, and the
\* transition it works on is in the journal.
TypeOK ==
    /\ transitions \in [Keys -> Record \cup {Nil}]
    /\ powerControl \in PowerModes
    /\ mode \in {"fresh", "owned", "auto_reconcile"}
    /\ cached \in BOOLEAN
    /\ lease \in {"none", "held", "broken"}
    /\ pin \in {"none", "held", "broken"}
    /\ pc \in {"idle", "recovering", "recover_put", "begin", "apply_power", "put_power",
              "put_completed", "terminalize"} \cup SafeOffPoints \cup FailingPoints
    /\ action \in Actions \cup {Nil} /\ (action = Nil <=> pc = "idle")
    /\ key \in Keys \cup {Nil}
    /\ local \in Record \cup {Nil} /\ (local = Nil <=> key = Nil)
    /\ key # Nil => Present(key)
    /\ safe \in BOOLEAN
    /\ target \in {"off", "rpiboot", "normal"}
    /\ board \in {"expected", "other"}
    /\ owned \in [{"expected", "other"} -> BOOLEAN]
    /\ saveFailures \in Nat /\ crashes \in Nat /\ swaps \in Nat
    /\ cutOff \subseteq Keys
    /\ executed \in BOOLEAN /\ exchanged \in BOOLEAN
    /\ committed \subseteq
          [board : {"expected", "other"}, owned : BOOLEAN, exchanged : BOOLEAN]
    /\ refusedPut \in BOOLEAN

\* When the journal holds no open and no quarantined transition, the target
\* is off: the safe-off a record claims is true of the target, through failed
\* releases, failed saves, late operators and restarts (adapter.go
\* proveSafeOff, terminalizeTransition, recoverIncompleteTransitions).
ClosedLaneIsOff ==
    (\A k \in Keys : ~ Incomplete(k)) /\ ~ HasQuarantinedBootTransition => target = "off"

\* What is known of a commit when it starts: unless a board was exchanged since
\* the last check of the pin, it starts on the authority-bound board, and that
\* board has no customer key.
StartsOnItsFreshBoard ==
    \A start \in committed :
        ~ start.exchanged => start.board = "expected" /\ ~ start.owned

\* A commit is recorded as completed only if the authority-bound board carries
\* the key, also where another board was programmed in between.
CompletedCommitReachedItsBoard ==
    \A k \in Keys :
        Present(k) /\ Commit(k[1]) /\ transitions[k].status = "completed" =>
            owned["expected"]

\* A commit is started only on the authority-bound board and only while that
\* board has no customer key, whatever was exchanged or restarted between the
\* reading of its identity and the check of its USB instance.  What is
\* exchanged after that check, before rpiboot runs, is out of reach
\* (system.go GuardedRunner: "not an atomic hot-swap-resistant USB
\* transaction"); even then no commit is recorded as completed unless the
\* authority-bound board carries the key (adapter.go
\* preflightRPIBootIdentityLocked, runRPIBootPayloadLocked, commitLocked).
CommitReachesItsFreshBoard == StartsOnItsFreshBoard /\ CompletedCommitReachedItsBoard

\* A completed transition is one whose payload or normal boot returned its
\* result: no retry of a save and no recovery completes another one
\* (boot_transition.go validBootTransitionUpdate, adapter.go
\* completeTransition).
CompletedIsExecuted ==
    [][\A k \in Keys :
          Incomplete(k) /\ transitions'[k].status = "completed" => k = key /\ executed]_vars

\* The journal never refuses a record that the adapter has for it, so an
\* outcome is lost only to a failed save (store.go PutBootTransition,
\* MergeBootTransitionProgress).
JournalTakesEveryRecord == ~ refusedPut

\* A transition that an earlier run of the daemon began is never taken up
\* again: it only ends (store.go BootTransitionStore: callers "must never
\* resume its old prompt or acknowledgment").
OldTransitionsAreNotResumed ==
    [][\A k \in Keys :
          Incomplete(k) /\ k \in cutOff /\ transitions'[k] # transitions[k] =>
              transitions'[k].status \in {"interrupted_safe_off", "quarantined"}]_vars

\* Once a transition is quarantined the lane is never powered again (adapter.go
\* prepareLane; store.go HasQuarantinedBootTransition, "the durable lane lock").
QuarantineIsALock ==
    [][HasQuarantinedBootTransition /\ target = "off" => target' = "off"]_vars

\* A lane with an open transition is brought back to one without, however
\* often the daemon was interrupted on the way (adapter.go prepareLane,
\* recoverIncompleteTransitions).
TransitionsEnd == (\E k \in Keys : Incomplete(k)) ~> (\A k \in Keys : ~ Incomplete(k))
=============================================================================
