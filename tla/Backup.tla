------------------------------- MODULE Backup -------------------------------
(***************************************************************************)
(* Backup and restore (src/opsyne/cli.py): commands that copy the state    *)
(* directory of a stopped instance, file by file, and that hold back what  *)
(* was approved before; and instances that are started on any directory    *)
(* that looks complete (src/opsyne/runtime.py).  A command or an instance  *)
(* may be killed between any two of its steps.  Of the databases the model *)
(* keeps what they have to agree on: permits, intents and operations; and  *)
(* what a restore changes: generation and quarantine.  Nobody starts a     *)
(* fresh instance in the empty directory of an interrupted command.        *)
(***************************************************************************)
EXTENDS Naturals, Sequences, FiniteSets

CONSTANTS
    Directories,    \* paths of data directories, backups and restored states
    Live,           \* the directory that exists in the beginning
    Commands,       \* runs of "opsyne backup" and "opsyne restore"
    Plans,          \* ids of operation plans
    MaxGeneration,  \* bound on revocations of all approvals
    MaxServers,     \* bound on instances that run at the same time
    None

ASSUME BackupAssumption ==
    /\ Live \in Directories
    /\ MaxGeneration \in Nat /\ MaxServers \in Nat
    /\ None \notin Directories \cup Commands \cup Plans
    /\ "server" \notin Commands \cup {None}

VARIABLES
    made,           \* directories that exist
    files,          \* directory -> how much of each file is there
    control,        \* directory -> [generation, quarantine, approved, issued]
    ledger,         \* directory -> plans with an intent in runner.sqlite3
    applied,        \* directory -> plans in the history of demo.sqlite3
    lock,           \* directory -> holder of instance.lock, or None
    call,           \* directory -> the execution its instance is carrying out
    command,        \* what each command is doing, with its local variables
    since           \* directory -> restored?, and what people did there after that

state == <<files, control, ledger, applied>>
vars == <<made, files, control, ledger, applied, lock, call, command, since>>

Databases == {"control", "collector", "runner", "demo"}
Files == Databases \cup {"key", "manifest", "pending"}

OrderKeyFirst ==        \* faulty: the key is there before the last database
    <<"key", "control", "collector", "runner", "demo", "manifest">>

\* The order in which a command copies, and the manifest it writes at the end.
Order == <<"control", "collector", "runner", "demo", "key", "manifest">>

Start == [generation |-> 1, quarantine |-> FALSE,
          approved |-> [p \in Plans |-> 0], issued |-> {}]

NoCall == [at |-> "none", plan |-> None]
Ended == [at |-> "ended", restoring |-> FALSE, from |-> None, to |-> None, next |-> 1]
Steps == {"lock", "make", "mark", "copy", "release", "advance", "quarantine", "unlink"}

BackupInit ==
    /\ made = {Live}
    /\ files = [d \in Directories |-> [f \in Files |->
                  IF d = Live /\ f \in Databases \cup {"key"} THEN "whole" ELSE "absent"]]
    /\ control = [d \in Directories |-> Start]
    /\ ledger = [d \in Directories |-> {}]
    /\ applied = [d \in Directories |-> {}]
    /\ lock = [d \in Directories |-> None]
    /\ call = [d \in Directories |-> NoCall]
    /\ command = [c \in Commands |-> Ended]
    /\ since = [d \in Directories |->
                  [restored |-> FALSE, acknowledged |-> FALSE, approved |-> {}]]
-----------------------------------------------------------------------------
(* An instance. *)

\* Runtime.__init__ refuses a restore that did not finish and a partial state;
\* Control refuses a key that is not whole.
Startable(d) ==
    /\ files[d]["pending"] = "absent"
    /\ \A f \in Databases : files[d][f] # "absent"
    /\ files[d]["key"] = "whole"

Serve(d) ==
    /\ Startable(d) /\ lock[d] = None
    /\ Cardinality({e \in Directories : lock[e] = "server"}) < MaxServers
    /\ lock' = [lock EXCEPT ![d] = "server"]
    /\ UNCHANGED <<made, state, call, command, since>>

\* The instance ends, or is killed in the middle of an execution.
Stop(d) ==
    /\ lock[d] = "server"
    /\ lock' = [lock EXCEPT ![d] = None]
    /\ call' = [call EXCEPT ![d] = NoCall]
    /\ UNCHANGED <<made, state, command, since>>

Approve(d, p) ==
    /\ lock[d] = "server" /\ control[d].approved[p] = 0
    /\ control' = [control EXCEPT ![d].approved[p] = control[d].generation]
    /\ since' = [since EXCEPT ![d].approved = IF since[d].restored THEN @ \cup {p} ELSE @]
    /\ UNCHANGED <<made, files, ledger, applied, lock, call, command>>

RevokeAll(d) ==
    /\ lock[d] = "server" /\ control[d].generation < MaxGeneration
    /\ control' = [control EXCEPT ![d].generation = @ + 1]
    /\ UNCHANGED <<made, files, ledger, applied, lock, call, command, since>>

\* An administrator compared the ledger with the history of the services.
Acknowledge(d) ==
    /\ lock[d] = "server"
    /\ control' = [control EXCEPT ![d].quarantine = FALSE]
    /\ since' = [since EXCEPT ![d].acknowledged = since[d].restored]
    /\ UNCHANGED <<made, files, ledger, applied, lock, call, command>>

\* One execution: the permit, the intent in the ledger, the operation.
Issue(d, p) ==
    /\ lock[d] = "server" /\ call[d] = NoCall
    /\ ~control[d].quarantine
    /\ control[d].approved[p] = control[d].generation
    /\ p \notin control[d].issued
    /\ control' = [control EXCEPT ![d].issued = @ \cup {p}]
    /\ call' = [call EXCEPT ![d] = [at |-> "record", plan |-> p]]
    /\ UNCHANGED <<made, files, ledger, applied, lock, command, since>>

Record(d) ==
    /\ call[d].at = "record"
    /\ ledger' = [ledger EXCEPT ![d] = @ \cup {call[d].plan}]
    /\ call' = [call EXCEPT ![d].at = "send"]
    /\ UNCHANGED <<made, files, control, applied, lock, command, since>>

Send(d) ==
    /\ call[d].at = "send"
    /\ applied' = [applied EXCEPT ![d] = @ \cup {call[d].plan}]
    /\ call' = [call EXCEPT ![d] = NoCall]
    /\ UNCHANGED <<made, files, control, ledger, lock, command, since>>
-----------------------------------------------------------------------------
(* A command. *)

Become(c, work) == command' = [command EXCEPT ![c] = work]
Goto(c, step) == Become(c, [command[c] EXCEPT !.at = step])

\* The checks before anything is touched; restore also wants a complete manifest.
Begin(c, restoring, from, to) ==
    /\ command[c] = Ended
    /\ restoring => files[from]["manifest"] = "whole"
    /\ to \notin made
    /\ files[from]["pending"] = "absent"
    /\ \A f \in Databases : files[from][f] # "absent"
    /\ files[from]["key"] = "whole"
    /\ Become(c, [at |-> "lock", restoring |-> restoring, from |-> from, to |-> to, next |-> 1])
    /\ UNCHANGED <<made, state, lock, call, since>>

LockAnyway(c) ==        \* faulty: copies although an instance or a command has the lock
    /\ command[c].at = "lock"
    /\ lock' = [lock EXCEPT ![command[c].from] = c]
    /\ Goto(c, "make")
    /\ UNCHANGED <<made, state, call, since>>

\* The command fails if the directory is in use.
Lock(c) ==
    /\ command[c].at = "lock"
    /\ \/ /\ lock[command[c].from] = None
          /\ lock' = [lock EXCEPT ![command[c].from] = c]
          /\ Goto(c, "make")
       \/ /\ lock[command[c].from] # None
          /\ Become(c, Ended)
          /\ UNCHANGED lock
    /\ UNCHANGED <<made, state, call, since>>

Release(c) == lock' = [lock EXCEPT ![command[c].from] = None]

\* mkdir fails if somebody else made the directory after the checks.
Make(c) ==
    LET to == command[c].to
    IN  /\ command[c].at = "make"
        /\ \/ /\ to \notin made
              /\ made' = made \cup {to}
              /\ since' = [since EXCEPT ![to].restored = command[c].restoring]
              /\ Goto(c, IF command[c].restoring THEN "mark" ELSE "copy")
              /\ UNCHANGED lock
           \/ /\ to \in made
              /\ Become(c, Ended) /\ Release(c)
              /\ UNCHANGED <<made, since>>
        /\ UNCHANGED <<state, call>>

MarkNothing(c) ==       \* faulty: an interrupted restore leaves no marker
    /\ command[c].at = "mark"
    /\ Goto(c, "copy")
    /\ UNCHANGED <<made, state, lock, call, since>>

Mark(c) ==
    /\ command[c].at = "mark"
    /\ files' = [files EXCEPT ![command[c].to]["pending"] = "whole"]
    /\ Goto(c, "copy")
    /\ UNCHANGED <<made, control, ledger, applied, lock, call, since>>

\* What a file that was copied contains.
Take(name, file, contents, from, to) ==
    contents' = IF name = file THEN [contents EXCEPT ![to] = contents[from]] ELSE contents

\* A file is created, and after that whole with its contents.
Copy(c) ==
    LET work == command[c]
        name == Order[work.next]
    IN  /\ work.at = "copy"
        /\ \/ /\ files[work.to][name] = "absent"
              /\ files' = [files EXCEPT ![work.to][name] = "partial"]
              /\ UNCHANGED <<control, ledger, applied, command>>
           \/ /\ files[work.to][name] = "partial"
              /\ files' = [files EXCEPT ![work.to][name] = "whole"]
              /\ Take(name, "control", control, work.from, work.to)
              /\ Take(name, "runner", ledger, work.from, work.to)
              /\ Take(name, "demo", applied, work.from, work.to)
              /\ Become(c, IF work.next < Len(Order)
                           THEN [work EXCEPT !.next = @ + 1]
                           ELSE [work EXCEPT !.at = "release"])
        /\ UNCHANGED <<made, lock, call, since>>

\* The lock is given back; restore goes on in the new directory.
Unlock(c) ==
    /\ command[c].at = "release"
    /\ Release(c)
    /\ IF command[c].restoring THEN Goto(c, "advance") ELSE Become(c, Ended)
    /\ UNCHANGED <<made, state, call, since>>

Advance(c) ==
    /\ command[c].at = "advance"
    /\ control' = [control EXCEPT ![command[c].to].generation = @ + 1]
    /\ Goto(c, "quarantine")
    /\ UNCHANGED <<made, files, ledger, applied, lock, call, since>>

Quarantine(c) ==
    /\ command[c].at = "quarantine"
    /\ control' = [control EXCEPT ![command[c].to].quarantine = TRUE]
    /\ Goto(c, "unlink")
    /\ UNCHANGED <<made, files, ledger, applied, lock, call, since>>

Unlink(c) ==
    /\ command[c].at = "unlink"
    /\ files' = [files EXCEPT ![command[c].to]["pending"] = "absent"]
    /\ Become(c, Ended)
    /\ UNCHANGED <<made, control, ledger, applied, lock, call, since>>

\* A command is killed: the lock it holds goes with it.
Die(c) ==
    /\ command[c] # Ended
    /\ lock' = [d \in Directories |-> IF lock[d] = c THEN None ELSE lock[d]]
    /\ Become(c, Ended)
    /\ UNCHANGED <<made, state, call, since>>
-----------------------------------------------------------------------------
Instance(d) ==
    \/ Serve(d) \/ Stop(d) \/ RevokeAll(d) \/ Acknowledge(d) \/ Record(d) \/ Send(d)
    \/ \E p \in Plans : Approve(d, p) \/ Issue(d, p)

Work(c) ==
    \/ Lock(c) \/ Make(c) \/ Mark(c) \/ Copy(c) \/ Unlock(c)
    \/ Advance(c) \/ Quarantine(c) \/ Unlink(c)

Next ==
    \/ \E d \in Directories : Instance(d)
    \/ \E c \in Commands, r \in BOOLEAN, from, to \in Directories : Begin(c, r, from, to)
    \/ \E c \in Commands : Work(c) \/ Die(c)

Spec == BackupInit /\ [][Next]_vars
-----------------------------------------------------------------------------
(* Types, and who holds which lock: an execution has its instance, and from *)
(* mkdir to the manifest a command has the directory it copies.             *)
BackupTypeOK ==
    /\ made \subseteq Directories
    /\ files \in [Directories -> [Files -> {"absent", "partial", "whole"}]]
    /\ control \in [Directories -> [generation : Nat, quarantine : BOOLEAN,
                                    approved : [Plans -> Nat], issued : SUBSET Plans]]
    /\ ledger \in [Directories -> SUBSET Plans]
    /\ applied \in [Directories -> SUBSET Plans]
    /\ lock \in [Directories -> Commands \cup {"server", None}]
    /\ call \in [Directories -> [at : {"record", "send"}, plan : Plans] \cup {NoCall}]
    /\ command \in [Commands -> {Ended} \cup
            [at : Steps, restoring : BOOLEAN, from : Directories, to : Directories,
             next : 1 .. Len(Order)]]
    /\ since \in [Directories -> [restored : BOOLEAN, acknowledged : BOOLEAN,
                                  approved : SUBSET Plans]]
    /\ \A d \in Directories : call[d] # NoCall => lock[d] = "server"
    /\ \A c \in Commands : command[c].at \in {"make", "mark", "copy", "release"} =>
         lock[command[c].from] = c

(* What an instance can be started on is one state: every database is       *)
(* there as a whole, and they are of the same moment, so that no operation  *)
(* is missing in the ledger and no intent without its permit, whenever a    *)
(* command was killed and whoever else worked on the directories.           *)
StartableIsWhole ==
    \A d \in Directories : Startable(d) =>
        /\ \A f \in Databases : files[d][f] = "whole"
        /\ applied[d] \subseteq ledger[d]
        /\ ledger[d] \subseteq control[d].issued

(* In a restored directory a permit is only issued for an approval that was *)
(* given there, and after somebody acknowledged that restore there          *)
(* (docs/usage.md:208, docs/adr/0002-local-product.md:15).                  *)
IssuedAnew ==
    [][\A d \in Directories, p \in Plans :
         since[d].restored /\ p \notin control[d].issued
           /\ call'[d] = [at |-> "record", plan |-> p] =>
             since[d].acknowledged /\ p \in since[d].approved]_vars
=============================================================================
