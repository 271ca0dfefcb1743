----------------------------- MODULE LedgerStore -----------------------------
(***************************************************************************)
(* How a ledger command is executed and stored: CqrsFramework::execute of  *)
(* cqrs-es over postgres-es, as LedgerLoaderSaver.cqrs uses it.  The       *)
(* command processor (for its debit holds) and every run of the outbox job *)
(* call execute on the same ledgers, and their steps interleave:           *)
(*                                                                         *)
(*   load the aggregate, remember its sequence                             *)
(*   handle the command, insert the events at the sequences that follow;   *)
(*      another commit in between makes the insert hit the primary key     *)
(*      (aggregate_type, aggregate_id, sequence) and the call return Err   *)
(*   dispatch the events to the view: load the row, update it, write it    *)
(*      back whole.  Nothing compares versions here, and an error is only  *)
(*      logged (configs.rs): the call returns Ok all the same              *)
(*                                                                         *)
(* Each line is a step of its own.  The two SELECTs of a load (snapshot,   *)
(* then the events after it) give the state after a prefix of the log, so  *)
(* snapshots are left out.  The Ledger of every account has been created.  *)
(***************************************************************************)
EXTENDS LedgerAggregate

CONSTANTS
  Processor,   \* the task that runs process_commands
  Runs         \* runs of the outbox job that may be alive at the same time

ASSUME ActorAssumption == Processor \notin Runs

Actors == {Processor} \cup Runs

VARIABLES
  ledger_events,   \* table ledger_events: the log of each ledger
  ledger_views,    \* table ledger_views: the balance that reads and checks use
  exec             \* the execute call each actor is in

storeVars == <<ledger_events, ledger_views, exec>>

NoCommand == [type |-> "none"]

(* Before a call, and, with step "ok" or "err", when it has returned. *)
OutOfCall(step) ==
  [step |-> step, command |-> NoCommand, version |-> 0, view |-> ZeroBalance]

Call ==
  [step: {"loaded", "committed", "viewed"},
   command: LedgerCommand,
   version: Nat,
   view: Balance]

StoreTypeOK ==
  /\ ledger_events \in [Ledgers -> Seq(LedgerEvent)]
  /\ ledger_views \in [Ledgers -> Balance]
  /\ exec \in [Actors -> Call \cup {OutOfCall(s) : s \in {"idle", "ok", "err"}}]

(* Every ledger was initiated with nothing on it. *)
StoreInit ==
  /\ ledger_events = [l \in Ledgers |-> << LedgerInitiated(0) >>]
  /\ ledger_views = [l \in Ledgers |-> Update(ZeroBalance, LedgerInitiated(0))]
  /\ exec = [p \in Actors |-> OutOfCall("idle")]

-----------------------------------------------------------------------------
InCall(p, step) == exec[p].step = step

Execute(p, command) ==
  /\ InCall(p, "idle")
  /\ exec' = [exec EXCEPT ![p] = [step |-> "loaded", command |-> command,
                                   version |-> Len(ledger_events[command.ledger]),
                                   view |-> ZeroBalance]]
  /\ UNCHANGED <<ledger_events, ledger_views>>

(* Mutant of VersionUnchanged: the events are appended wherever the log ends. *)
VersionIgnored(p) == TRUE

(* The sequences that follow the loaded one are still free. *)
VersionUnchanged(p) ==
  Len(ledger_events[exec[p].command.ledger]) = exec[p].version

Commit(p) ==
  /\ InCall(p, "loaded")
  /\ VersionUnchanged(p)
  /\ ledger_events' = [ledger_events EXCEPT ![exec[p].command.ledger] =
                                              @ \o Handle(exec[p].command)]
  /\ exec' = [exec EXCEPT ![p].step = "committed"]
  /\ UNCHANGED ledger_views

OptimisticLockError(p) ==
  /\ InCall(p, "loaded")
  /\ ~VersionUnchanged(p)
  /\ exec' = [exec EXCEPT ![p] = OutOfCall("err")]
  /\ UNCHANGED <<ledger_events, ledger_views>>

LoadView(p) ==
  /\ InCall(p, "committed")
  /\ exec' = [exec EXCEPT ![p].step = "viewed",
                          ![p].view = ledger_views[exec[p].command.ledger]]
  /\ UNCHANGED <<ledger_events, ledger_views>>

(* The row as the call computes it: from the copy it loaded. *)
NewView(p) == UpdateAll(exec[p].view, Handle(exec[p].command))

UpdateView(p) ==
  /\ InCall(p, "viewed")
  /\ ledger_views' = [ledger_views EXCEPT ![exec[p].command.ledger] = NewView(p)]
  /\ exec' = [exec EXCEPT ![p] = OutOfCall("ok")]
  /\ UNCHANGED ledger_events

(* The database refuses the load or the insert. *)
StoreFails(p) ==
  /\ InCall(p, "loaded")
  /\ exec' = [exec EXCEPT ![p] = OutOfCall("err")]
  /\ UNCHANGED <<ledger_events, ledger_views>>

(* The database refuses the read or the write of the view; the error *)
(* handler logs it.                                                  *)
DispatchFails(p) ==
  /\ exec[p].step \in {"committed", "viewed"}
  /\ exec' = [exec EXCEPT ![p] = OutOfCall("ok")]
  /\ UNCHANGED <<ledger_events, ledger_views>>

(* The steps of a call that nothing goes wrong with. *)
StoreStep(p) ==
  Commit(p) \/ OptimisticLockError(p) \/ LoadView(p) \/ UpdateView(p)

StoreFault(p) == StoreFails(p) \/ DispatchFails(p)

(* The caller has its result. *)
ReturnFrom(p) == exec' = [exec EXCEPT ![p] = OutOfCall("idle")]

-----------------------------------------------------------------------------
(* The events of ledger l that transaction t caused, of one type. *)
Movements(l, t, type) ==
  {i \in DOMAIN ledger_events[l] :
     /\ ledger_events[l][i].transaction_id = t
     /\ ledger_events[l][i].transaction_type = type}

(* Whatever else was stored since, a call's events stand right behind the  *)
(* events it was decided on: no two calls ever decide on the same state of *)
(* a ledger and both commit.                                               *)
DecidedOnLatest ==
  \A p \in Actors :
    exec[p].step \in {"committed", "viewed"} =>
      LET log    == ledger_events[exec[p].command.ledger]
          events == Handle(exec[p].command)
      IN  SubSeq(log, exec[p].version + 1, exec[p].version + Len(events)) = events
=============================================================================
