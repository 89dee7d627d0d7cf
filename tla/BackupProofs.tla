---------------------------- MODULE BackupProofs ----------------------------
(* Safety of backup and restore, proved for every number of directories,    *)
(* commands, instances, plans and revocations.                              *)
EXTENDS Backup, TLAPS

\* The command has made its destination, and is the one that writes it.
Writing(c) ==
    command[c].at \in {"mark", "copy", "release", "advance", "quarantine", "unlink"}

(* Nothing is in a directory that nobody made.                              *)
MadeInv(d) == d \notin made => \A f \in Files : files[d][f] = "absent"

(* A key that is whole says that all databases are, and of one moment.      *)
WholeInv(d) ==
    files[d]["key"] = "whole" =>
        /\ \A f \in Databases : files[d][f] = "whole"
        /\ applied[d] \subseteq ledger[d]
        /\ ledger[d] \subseteq control[d].issued

(* An instance runs where it could be started; what its execution has done. *)
ServerInv(d) ==
    /\ lock[d] = "server" => Startable(d)
    /\ call[d] # NoCall => /\ call[d].plan \in control[d].issued
                           /\ call[d].at = "send" => call[d].plan \in ledger[d]

GenerationInv(d) == \A p \in Plans : control[d].approved[p] <= control[d].generation

(* A restore that is done: in quarantine until acknowledged, and no approval *)
(* in force but those given there.                                          *)
RestoreInv(d) ==
    since[d].restored /\ files[d]["pending"] = "absent" /\ files[d]["key"] = "whole" =>
        /\ ~control[d].quarantine => since[d].acknowledged
        /\ \A p \in Plans : control[d].approved[p] = control[d].generation =>
                              p \in since[d].approved

(* While it copies, databases become whole in order and equal their source. *)
CopyInv(work) ==
    LET to == work.to
        from == work.from
    IN  /\ work.next > 1 => files[to]["control"] = "whole"
        /\ work.next > 2 => files[to]["collector"] = "whole"
        /\ work.next > 3 => files[to]["runner"] = "whole"
        /\ work.next > 4 => files[to]["demo"] = "whole"
        /\ work.next <= 5 => /\ files[to]["key"] # "whole"
                             /\ work.next > 1 => control[to] = control[from]
                             /\ work.next > 3 => ledger[to] = ledger[from]
                             /\ work.next > 4 => applied[to] = applied[from]

(* What a command at work knows of the two directories.                     *)
CommandInv(c) ==
    LET work == command[c]
        to == work.to
    IN  work # Ended =>
        /\ work.from # to
        /\ files[work.from]["key"] = "whole" /\ files[work.from]["pending"] = "absent"
        /\ Writing(c) => to \in made /\ since[to].restored = work.restoring
        /\ work.at \in {"lock", "make", "mark"} => work.next = 1
        /\ work.at = "mark" => \A f \in Files : files[to][f] = "absent"
        /\ work.at \in {"copy", "release"} /\ work.restoring => files[to]["pending"] = "whole"
        /\ work.at \in {"mark", "advance", "quarantine", "unlink"} => work.restoring
        /\ work.at \in {"advance", "quarantine", "unlink"} => files[to]["pending"] = "whole"
        /\ work.at = "copy" => CopyInv(work)
        /\ work.at \in {"quarantine", "unlink"} =>
             \A p \in Plans : control[to].approved[p] < control[to].generation
        /\ work.at = "unlink" => control[to].quarantine

(* Two commands never write the same directory.                             *)
ApartInv ==
    \A b, c \in Commands : b # c /\ Writing(b) /\ Writing(c) => command[b].to # command[c].to

DirectoryInv(d) ==
    MadeInv(d) /\ WholeInv(d) /\ ServerInv(d) /\ GenerationInv(d) /\ RestoreInv(d)

BackupInv ==
    /\ BackupTypeOK
    /\ \A d \in Directories : DirectoryInv(d)
    /\ \A c \in Commands : CommandInv(c)
    /\ ApartInv
-----------------------------------------------------------------------------
Works == [at : Steps, restoring : BOOLEAN, from : Directories, to : Directories, next : 1 .. 6]

LEMMA OrderFacts ==
    /\ Len(Order) = 6
    /\ Order[1] = "control" /\ Order[2] = "collector" /\ Order[3] = "runner"
    /\ Order[4] = "demo" /\ Order[5] = "key" /\ Order[6] = "manifest"
  BY DEF Order

LEMMA CommandTypes ==
    BackupTypeOK <=>
      /\ made \subseteq Directories
      /\ files \in [Directories -> [Files -> {"absent", "partial", "whole"}]]
      /\ control \in [Directories -> [generation : Nat, quarantine : BOOLEAN,
                                      approved : [Plans -> Nat], issued : SUBSET Plans]]
      /\ ledger \in [Directories -> SUBSET Plans]
      /\ applied \in [Directories -> SUBSET Plans]
      /\ lock \in [Directories -> Commands \cup {"server", None}]
      /\ call \in [Directories -> [at : {"record", "send"}, plan : Plans] \cup {NoCall}]
      /\ command \in [Commands -> {Ended} \cup Works]
      /\ since \in [Directories -> [restored : BOOLEAN, acknowledged : BOOLEAN,
                                    approved : SUBSET Plans]]
      /\ \A d \in Directories : call[d] # NoCall => lock[d] = "server"
      /\ \A c \in Commands : command[c].at \in {"make", "mark", "copy", "release"} =>
           lock[command[c].from] = c
  <1>1. 1 .. Len(Order) = 1 .. 6
    BY OrderFacts
  <1> QED
    BY <1>1 DEF BackupTypeOK, Works

LEMMA LockTypes ==
    BackupTypeOK => lock \in [Directories -> Commands \cup {"server", None}]
  BY DEF BackupTypeOK

(* A command that is not at its end has a record.                           *)
LEMMA AtWork ==
    ASSUME BackupTypeOK, NEW c \in Commands, command[c].at # "ended"
    PROVE  /\ command[c] \in Works /\ command[c] # Ended
           /\ command[c].from \in Directories /\ command[c].to \in Directories
  BY CommandTypes DEF Ended, Works

(* Steps of the instance of one directory disturb no command: whoever       *)
(* writes there, or reads it under the lock, would have kept it from        *)
(* running.                                                                 *)
LEMMA InstanceIsEnough ==
    ASSUME BackupInv, NEW d \in Directories, Startable(d), lock[d] \in {"server", None},
           UNCHANGED <<made, files, command>>,
           control' \in [Directories -> [generation : Nat, quarantine : BOOLEAN,
                                         approved : [Plans -> Nat], issued : SUBSET Plans]],
           ledger' \in [Directories -> SUBSET Plans],
           applied' \in [Directories -> SUBSET Plans],
           lock' \in [Directories -> Commands \cup {"server", None}],
           call' \in [Directories -> [at : {"record", "send"}, plan : Plans] \cup {NoCall}],
           since' \in [Directories -> [restored : BOOLEAN, acknowledged : BOOLEAN,
                                       approved : SUBSET Plans]],
           call'[d] # NoCall => lock'[d] = "server",
           since'[d].restored = since[d].restored,
           \A e \in Directories : e # d =>
               /\ control'[e] = control[e] /\ ledger'[e] = ledger[e]
               /\ applied'[e] = applied[e] /\ lock'[e] = lock[e]
               /\ call'[e] = call[e] /\ since'[e] = since[e],
           DirectoryInv(d)'
    PROVE  BackupInv'
  <1>1. \A c \in Commands : lock[d] # c
    BY BackupAssumption
  <1>2. BackupTypeOK'
    <2>1. \A e \in Directories : call'[e] # NoCall => lock'[e] = "server"
      BY CommandTypes, ZenonT(30) DEF BackupInv
    <2>2. ASSUME NEW c \in Commands, command[c].at \in {"make", "mark", "copy", "release"}
          PROVE  lock'[command[c].from] = c
      <3>1. command[c].from \in Directories /\ lock[command[c].from] = c
        BY <2>2, AtWork, CommandTypes DEF BackupInv
      <3> QED
        BY <1>1, <3>1
    <2> QED
      BY <2>1, <2>2 DEF BackupInv, BackupTypeOK
  <1>3. ASSUME NEW e \in Directories PROVE DirectoryInv(e)'
    <2>1. CASE e # d
      <3>1. DirectoryInv(e)
        BY DEF BackupInv
      <3>2. MadeInv(e)' /\ WholeInv(e)'
        BY <2>1, <3>1 DEF DirectoryInv, MadeInv, WholeInv
      <3>3. ServerInv(e)'
        BY <2>1, <3>1 DEF DirectoryInv, ServerInv, Startable
      <3>4. GenerationInv(e)' /\ RestoreInv(e)'
        BY <2>1, <3>1 DEF DirectoryInv, GenerationInv, RestoreInv
      <3> QED
        BY <3>2, <3>3, <3>4 DEF DirectoryInv
    <2> QED
      BY <2>1
  <1>4. ASSUME NEW c \in Commands PROVE CommandInv(c)'
    <2>1. CASE command[c] = Ended
      BY <2>1 DEF CommandInv
    <2>2. CASE command[c] # Ended
      <3>1. command[c] \in Works /\ command[c].from \in Directories
            /\ command[c].to \in Directories
        BY <2>2, CommandTypes DEF BackupInv, Works
      <3>2. CommandInv(c) /\ since'[command[c].to].restored = since[command[c].to].restored
        BY <3>1 DEF BackupInv
      <3>3. command[c].at \in {"quarantine", "unlink"} =>
               control'[command[c].to] = control[command[c].to]
        BY <2>2, <3>1, <3>2 DEF CommandInv, Startable
      <3>4. command[c].at = "copy" => CopyInv(command[c])'
        <4>1. SUFFICES ASSUME command[c].at = "copy" PROVE CopyInv(command[c])'
          OBVIOUS
        <4>2. CopyInv(command[c]) /\ command[c].from # d
          BY <1>1, <2>2, <3>2, <4>1, CommandTypes DEF BackupInv, CommandInv
        <4>3. command[c].next <= 5 => command[c].to # d
          BY <4>2 DEF CopyInv, Startable
        <4> QED
          BY <3>1, <4>2, <4>3 DEF CopyInv
      <3> QED
        BY <2>2, <3>2, <3>3, <3>4 DEF CommandInv, Writing
    <2> QED
      BY <2>1, <2>2
  <1>5. ApartInv'
    BY DEF BackupInv, ApartInv, Writing
  <1> QED
    BY <1>2, <1>3, <1>4, <1>5 DEF BackupInv

(* Steps of a command that write nothing.                                   *)
LEMMA LocalIsEnough ==
    ASSUME BackupInv, NEW c \in Commands, NEW w \in {Ended} \cup Works, Become(c, w),
           UNCHANGED <<made, state, call, since>>,
           lock' \in [Directories -> Commands \cup {"server", None}],
           \A d \in Directories : lock'[d] = lock[d]
                                  \/ (lock[d] \in {None, c} /\ lock'[d] \in {None, c}),
           w.at \in {"make", "mark", "copy", "release"} => lock'[w.from] = c,
           Writing(c)' => Writing(c) /\ w.to = command[c].to,
           CommandInv(c)'
    PROVE  BackupInv'
  <1>1. /\ command' \in [Commands -> {Ended} \cup Works] /\ command'[c] = w
        /\ \A b \in Commands : b # c => command'[b] = command[b]
    BY CommandTypes DEF BackupInv, Become
  <1>2. \A d \in Directories : lock'[d] = "server" <=> lock[d] = "server"
    BY BackupAssumption
  <1>3. BackupTypeOK'
    <2>1. \A d \in Directories : call'[d] # NoCall => lock'[d] = "server"
      BY <1>2, CommandTypes DEF BackupInv
    <2>2. ASSUME NEW b \in Commands, command'[b].at \in {"make", "mark", "copy", "release"}
          PROVE  lock'[command'[b].from] = b
      <3>1. CASE b = c
        BY <1>1, <2>2, <3>1
      <3>2. CASE b # c
        <4>1. command[b].from \in Directories /\ lock[command[b].from] = b
          BY <1>1, <2>2, <3>2, AtWork, CommandTypes DEF BackupInv
        <4> QED
          BY <1>1, <3>2, <4>1, BackupAssumption
      <3> QED
        BY <3>1, <3>2
    <2> QED
      BY <1>1, <2>1, <2>2, OrderFacts, CommandTypes DEF BackupInv, BackupTypeOK, Works, state
  <1>4. ASSUME NEW d \in Directories PROVE DirectoryInv(d)'
    BY <1>2 DEF BackupInv, DirectoryInv, MadeInv, WholeInv, ServerInv, GenerationInv, RestoreInv,
                Startable, state
  <1>5. ASSUME NEW b \in Commands PROVE CommandInv(b)'
    <2>1. CASE b # c
      <3>1. CommandInv(b)
        BY DEF BackupInv
      <3> QED
        BY <1>1, <2>1, <3>1 DEF CommandInv, CopyInv, Writing, state
    <2> QED
      BY <2>1
  <1>6. ApartInv'
    BY <1>1 DEF BackupInv, ApartInv, Writing
  <1> QED
    BY <1>3, <1>4, <1>5, <1>6 DEF BackupInv

(* Steps of a command that writes the directory it made, alone.             *)
LEMMA WriteIsEnough ==
    ASSUME BackupInv, NEW c \in Commands, NEW w \in {Ended} \cup Works, Become(c, w),
           NEW to \in Directories, UNCHANGED <<lock, call>>,
           made \subseteq made', made' \subseteq Directories,
           files' \in [Directories -> [Files -> {"absent", "partial", "whole"}]],
           control' \in [Directories -> [generation : Nat, quarantine : BOOLEAN,
                                         approved : [Plans -> Nat], issued : SUBSET Plans]],
           ledger' \in [Directories -> SUBSET Plans],
           applied' \in [Directories -> SUBSET Plans],
           since' \in [Directories -> [restored : BOOLEAN, acknowledged : BOOLEAN,
                                       approved : SUBSET Plans]],
           w.at \in {"make", "mark", "copy", "release"} => lock[w.from] = c,
           \A d \in Directories : d # to =>
               /\ files'[d] = files[d] /\ control'[d] = control[d] /\ ledger'[d] = ledger[d]
               /\ applied'[d] = applied[d] /\ since'[d] = since[d],
           files[to]["key"] = "whole" /\ files[to]["pending"] = "absent" =>
               /\ files'[to]["key"] = "whole" /\ files'[to]["pending"] = "absent"
               /\ control'[to] = control[to] /\ ledger'[to] = ledger[to]
               /\ applied'[to] = applied[to],
           \A b \in Commands : b # c /\ Writing(b) => command[b].to # to,
           Writing(c)' => w.to = to,
           DirectoryInv(to)', CommandInv(c)'
    PROVE  BackupInv'
  <1>1. /\ command' \in [Commands -> {Ended} \cup Works] /\ command'[c] = w
        /\ \A b \in Commands : b # c => command'[b] = command[b]
    BY CommandTypes DEF BackupInv, Become
  <1>2. BackupTypeOK'
    <2>1. 1 .. Len(Order) = 1 .. 6
      BY OrderFacts
    <2> QED
      BY <1>1, <2>1, CommandTypes, ZenonT(30) DEF BackupInv, BackupTypeOK, Works
  <1>3. ASSUME NEW d \in Directories PROVE DirectoryInv(d)'
    <2>1. CASE d # to
      <3>1. DirectoryInv(d)
        BY DEF BackupInv
      <3>2. MadeInv(d)' /\ WholeInv(d)'
        <4>1. files'[d] = files[d] /\ control'[d] = control[d] /\ ledger'[d] = ledger[d]
              /\ applied'[d] = applied[d]
          BY <2>1
        <4>2. MadeInv(d)'
          BY <3>1, <4>1 DEF DirectoryInv, MadeInv
        <4>3. WholeInv(d)'
          BY <3>1, <4>1 DEF DirectoryInv, WholeInv
        <4> QED
          BY <4>2, <4>3
      <3>3. ServerInv(d)'
        BY <2>1, <3>1 DEF DirectoryInv, ServerInv, Startable
      <3>4. GenerationInv(d)' /\ RestoreInv(d)'
        BY <2>1, <3>1 DEF DirectoryInv, GenerationInv, RestoreInv
      <3> QED
        BY <3>2, <3>3, <3>4 DEF DirectoryInv
    <2> QED
      BY <2>1
  <1>4. ASSUME NEW b \in Commands PROVE CommandInv(b)'
    <2>1. CASE b = c
      BY <2>1
    <2>2. CASE b # c /\ command[b] = Ended
      BY <1>1, <2>2 DEF CommandInv
    <2>3. CASE b # c /\ command[b] # Ended
      <3>1. command[b] \in Works /\ command[b].from \in Directories
            /\ command[b].to \in Directories
        BY <2>3, CommandTypes DEF BackupInv, Works
      <3>2. CommandInv(b) /\ (Writing(b) => command[b].to # to)
        BY <2>3 DEF BackupInv
      <3>3. /\ files'[command[b].from]["key"] = "whole"
            /\ files'[command[b].from]["pending"] = "absent"
            /\ control'[command[b].from] = control[command[b].from]
            /\ ledger'[command[b].from] = ledger[command[b].from]
            /\ applied'[command[b].from] = applied[command[b].from]
        BY <2>3, <3>1, <3>2 DEF CommandInv
      <3>4. Writing(b) =>
               /\ files'[command[b].to] = files[command[b].to]
               /\ control'[command[b].to] = control[command[b].to]
               /\ ledger'[command[b].to] = ledger[command[b].to]
               /\ applied'[command[b].to] = applied[command[b].to]
               /\ since'[command[b].to] = since[command[b].to]
        BY <3>1, <3>2
      <3>5. command'[b] = command[b] /\ (Writing(b)' <=> Writing(b))
        BY <1>1, <2>3 DEF Writing
      <3>6. command[b].at = "copy" => CopyInv(command[b])'
        BY <2>3, <3>1, <3>2, <3>3, <3>4, <3>5, SMTT(30) DEF CommandInv, CopyInv, Writing
      <3>7. CASE Writing(b)
        <4> DEFINE work == command[b]
        <4>1. /\ files'[work.to] = files[work.to] /\ control'[work.to] = control[work.to]
              /\ since'[work.to] = since[work.to]
          BY <3>4, <3>7
        <4>2. work # Ended /\ CommandInv(b) /\ command'[b] = work
          BY <2>3, <3>2, <3>5
        <4>3. work.to \in made /\ since[work.to].restored = work.restoring
          BY <3>7, <4>2 DEF CommandInv
        <4> QED
          BY <3>3, <3>5, <3>6, <3>7, <4>1, <4>2, <4>3, SMTT(40) DEF CommandInv
      <3>8. CASE ~Writing(b)
        BY <2>3, <3>2, <3>3, <3>5, <3>8 DEF CommandInv, Writing
      <3> QED
        BY <3>7, <3>8
    <2> QED
      BY <2>1, <2>2, <2>3
  <1>5. ApartInv'
    <2>1. \A b \in Commands : b # c => (Writing(b)' <=> Writing(b))
      BY <1>1 DEF Writing
    <2>2. ASSUME NEW b \in Commands, NEW e \in Commands, b # e, Writing(b)', Writing(e)'
          PROVE  command'[b].to # command'[e].to
      <3>1. CASE b # c /\ e # c
        BY <1>1, <2>1, <2>2, <3>1 DEF BackupInv, ApartInv
      <3>2. CASE b = c
        BY <1>1, <2>1, <2>2, <3>2
      <3>3. CASE e = c
        BY <1>1, <2>1, <2>2, <3>3
      <3> QED
        BY <3>1, <3>2, <3>3
    <2> QED
      BY <2>2 DEF ApartInv
  <1> QED
    BY <1>2, <1>3, <1>4, <1>5 DEF BackupInv
-----------------------------------------------------------------------------
(* The instance.                                                            *)
LEMMA ServeKeepsInv ==
    ASSUME BackupInv, NEW d \in Directories, Serve(d) \/ Stop(d)
    PROVE  BackupInv'
  <1>1. DirectoryInv(d) /\ Startable(d) /\ lock[d] \in {"server", None}
    BY DEF BackupInv, DirectoryInv, ServerInv, Serve, Stop
  <1>2. /\ UNCHANGED <<made, files, control, ledger, applied, command, since>>
        /\ lock' = [lock EXCEPT ![d] = lock'[d]] /\ lock'[d] \in {"server", None}
        /\ call' = [call EXCEPT ![d] = call'[d]] /\ call'[d] \in {NoCall, call[d]}
        /\ call'[d] # NoCall => lock'[d] = "server"
    BY CommandTypes DEF BackupInv, Serve, Stop, state
  <1>3. DirectoryInv(d)'
    BY <1>1, <1>2 DEF DirectoryInv, MadeInv, WholeInv, ServerInv, GenerationInv, RestoreInv,
                      Startable
  <1>4. /\ lock' \in [Directories -> Commands \cup {"server", None}]
        /\ call' \in [Directories -> [at : {"record", "send"}, plan : Plans] \cup {NoCall}]
        /\ \A e \in Directories : e # d => lock'[e] = lock[e] /\ call'[e] = call[e]
    BY <1>2, CommandTypes, ZenonT(30) DEF BackupInv
  <1>5. /\ control' \in [Directories -> [generation : Nat, quarantine : BOOLEAN,
                                         approved : [Plans -> Nat], issued : SUBSET Plans]]
        /\ ledger' \in [Directories -> SUBSET Plans]
        /\ applied' \in [Directories -> SUBSET Plans]
        /\ since' \in [Directories -> [restored : BOOLEAN, acknowledged : BOOLEAN,
                                       approved : SUBSET Plans]]
    BY <1>2, CommandTypes DEF BackupInv
  <1> QED
    BY <1>1, <1>2, <1>3, <1>4, <1>5, InstanceIsEnough

(* Steps on the approvals, by people at an instance.                        *)
LEMMA PeopleKeepInv ==
    ASSUME BackupInv, NEW d \in Directories,
           (\E p \in Plans : Approve(d, p)) \/ RevokeAll(d) \/ Acknowledge(d)
    PROVE  BackupInv'
  <1>0. PICK p : (p \in Plans /\ Approve(d, p)) \/ RevokeAll(d) \/ Acknowledge(d)
    OBVIOUS
  <1>1. /\ DirectoryInv(d) /\ Startable(d) /\ lock[d] = "server"
        /\ control[d] \in [generation : Nat, quarantine : BOOLEAN,
                           approved : [Plans -> Nat], issued : SUBSET Plans]
        /\ since[d] \in [restored : BOOLEAN, acknowledged : BOOLEAN, approved : SUBSET Plans]
    BY CommandTypes DEF BackupInv, DirectoryInv, ServerInv, Approve, RevokeAll, Acknowledge
  <1>2. UNCHANGED <<made, files, ledger, applied, lock, call, command>>
    BY DEF Approve, RevokeAll, Acknowledge
  <1>3. /\ control' \in [Directories -> [generation : Nat, quarantine : BOOLEAN,
                                         approved : [Plans -> Nat], issued : SUBSET Plans]]
        /\ since' \in [Directories -> [restored : BOOLEAN, acknowledged : BOOLEAN,
                                       approved : SUBSET Plans]]
        /\ \A e \in Directories : e # d => control'[e] = control[e] /\ since'[e] = since[e]
        /\ control'[d].issued = control[d].issued
        /\ since'[d].restored = since[d].restored
    <2>1. CASE p \in Plans /\ Approve(d, p)
      BY <1>1, <2>1, CommandTypes DEF BackupInv, Approve
    <2>2. CASE RevokeAll(d)
      <3>1. /\ control' = [control EXCEPT ![d] = [control[d] EXCEPT !.generation = @ + 1]]
            /\ since' = since
        BY <2>2 DEF RevokeAll
      <3>2. [control[d] EXCEPT !.generation = @ + 1] \in
               [generation : Nat, quarantine : BOOLEAN,
                approved : [Plans -> Nat], issued : SUBSET Plans]
        BY <1>1
      <3> QED
        BY <1>1, <3>1, <3>2, CommandTypes DEF BackupInv
    <2>3. CASE Acknowledge(d)
      BY <1>1, <2>3, CommandTypes DEF BackupInv, Acknowledge
    <2> QED
      BY <1>0, <2>1, <2>2, <2>3
  <1>4. GenerationInv(d)' /\ RestoreInv(d)'
    <2>1. CASE p \in Plans /\ Approve(d, p)
      <3>1. /\ control'[d].generation = control[d].generation
            /\ control'[d].quarantine = control[d].quarantine
            /\ control'[d].approved[p] = control[d].generation
            /\ \A q \in Plans : q # p => control'[d].approved[q] = control[d].approved[q]
        BY <1>1, <2>1, CommandTypes DEF BackupInv, Approve
      <3>2. /\ since'[d].acknowledged = since[d].acknowledged
            /\ since[d].approved \subseteq since'[d].approved
            /\ since[d].restored => p \in since'[d].approved
        BY <1>1, <2>1, CommandTypes DEF BackupInv, Approve
      <3> QED
        <4>1. ASSUME NEW q \in Plans
              PROVE  control'[d].approved[q] <= control'[d].generation
          BY <1>1, <3>1 DEF DirectoryInv, GenerationInv
        <4>2. ASSUME NEW q \in Plans, RestoreInv(d), since[d].restored,
                     files[d]["pending"] = "absent", files[d]["key"] = "whole",
                     control'[d].approved[q] = control'[d].generation
              PROVE  q \in since'[d].approved
          BY <3>1, <3>2, <4>2 DEF RestoreInv
        <4>3. GenerationInv(d)'
          BY <4>1 DEF GenerationInv
        <4>4. RestoreInv(d)'
          BY <1>1, <1>2, <1>3, <3>1, <3>2, <4>2 DEF DirectoryInv, RestoreInv
        <4> QED
          BY <4>3, <4>4
    <2>2. CASE RevokeAll(d)
      <3>1. /\ control'[d].generation = control[d].generation + 1
            /\ control'[d].quarantine = control[d].quarantine
            /\ control'[d].approved = control[d].approved
            /\ since' = since
        BY <1>1, <2>2, CommandTypes DEF BackupInv, RevokeAll
      <3> QED
        BY <1>1, <1>2, <3>1 DEF DirectoryInv, GenerationInv, RestoreInv
    <2>3. CASE Acknowledge(d)
      <3>1. /\ control'[d].generation = control[d].generation
            /\ control'[d].approved = control[d].approved
            /\ since'[d].acknowledged = since[d].restored
            /\ since'[d].approved = since[d].approved
        BY <1>1, <2>3, CommandTypes DEF BackupInv, Acknowledge
      <3> QED
        BY <1>1, <1>2, <1>3, <3>1 DEF DirectoryInv, GenerationInv, RestoreInv
    <2> QED
      BY <1>0, <2>1, <2>2, <2>3
  <1>5. DirectoryInv(d)'
    BY <1>1, <1>2, <1>3, <1>4 DEF DirectoryInv, MadeInv, WholeInv, ServerInv, Startable
  <1> QED
    BY <1>1, <1>2, <1>3, <1>5, InstanceIsEnough, CommandTypes DEF BackupInv

(* The permit, the intent, the operation: each database follows the one     *)
(* before.                                                                  *)
LEMMA ExecutionKeepsInv ==
    ASSUME BackupInv, NEW d \in Directories,
           (\E p \in Plans : Issue(d, p)) \/ Record(d) \/ Send(d)
    PROVE  BackupInv'
  <1>0. PICK p : (p \in Plans /\ Issue(d, p)) \/ Record(d) \/ Send(d)
    OBVIOUS
  <1>1. /\ control[d] \in [generation : Nat, quarantine : BOOLEAN,
                           approved : [Plans -> Nat], issued : SUBSET Plans]
        /\ ledger[d] \in SUBSET Plans /\ applied[d] \in SUBSET Plans
        /\ call[d] \in [at : {"record", "send"}, plan : Plans] \cup {NoCall}
    BY CommandTypes DEF BackupInv
  <1>2. lock[d] = "server" /\ DirectoryInv(d) /\ Startable(d)
    <2>1. call[d] # NoCall => lock[d] = "server"
      BY CommandTypes DEF BackupInv
    <2> QED
      BY <2>1 DEF BackupInv, DirectoryInv, ServerInv, Issue, Record, Send, NoCall
  <1>3. UNCHANGED <<made, files, lock, command, since>>
    BY DEF Issue, Record, Send
  <1>4. /\ \A e \in Directories : e # d =>
              /\ control'[e] = control[e] /\ ledger'[e] = ledger[e]
              /\ applied'[e] = applied[e] /\ call'[e] = call[e]
        /\ control' \in [Directories -> [generation : Nat, quarantine : BOOLEAN,
                                         approved : [Plans -> Nat], issued : SUBSET Plans]]
        /\ ledger' \in [Directories -> SUBSET Plans]
        /\ applied' \in [Directories -> SUBSET Plans]
        /\ call' \in [Directories -> [at : {"record", "send"}, plan : Plans] \cup {NoCall}]
        /\ control'[d].generation = control[d].generation
        /\ control'[d].approved = control[d].approved
        /\ control'[d].quarantine = control[d].quarantine
        /\ applied[d] \subseteq ledger[d] /\ ledger[d] \subseteq control[d].issued =>
             applied'[d] \subseteq ledger'[d] /\ ledger'[d] \subseteq control'[d].issued
        /\ call'[d] # NoCall => /\ call'[d].plan \in control'[d].issued
                                /\ call'[d].at = "send" => call'[d].plan \in ledger'[d]
    <2>1. CASE p \in Plans /\ Issue(d, p)
      <3>1. /\ control' = [control EXCEPT ![d] = [control[d] EXCEPT !.issued = @ \cup {p}]]
            /\ call' = [call EXCEPT ![d] = [at |-> "record", plan |-> p]]
            /\ UNCHANGED <<ledger, applied>>
        BY <2>1, CommandTypes DEF BackupInv, Issue
      <3> QED
        BY <1>1, <2>1, <3>1, CommandTypes DEF BackupInv
    <2>2. CASE Record(d)
      <3>1. /\ call[d] # NoCall /\ call[d] \in [at : {"record", "send"}, plan : Plans]
            /\ call[d].plan \in control[d].issued
        BY <1>1, <1>2, <2>2 DEF Record, NoCall, DirectoryInv, ServerInv
      <3>2. [call[d] EXCEPT !.at = "send"] = [at |-> "send", plan |-> call[d].plan]
        BY <3>1
      <3>3. /\ call' = [call EXCEPT ![d] = [at |-> "send", plan |-> call[d].plan]]
            /\ ledger' = [ledger EXCEPT ![d] = @ \cup {call[d].plan}]
            /\ UNCHANGED <<control, applied>>
        BY <2>2, <3>2 DEF Record
      <3> QED
        BY <1>1, <3>1, <3>3, CommandTypes DEF BackupInv
    <2>3. CASE Send(d)
      <3>1. /\ call[d] # NoCall /\ call[d] \in [at : {"record", "send"}, plan : Plans]
            /\ call[d].plan \in ledger[d]
        BY <1>1, <1>2, <2>3 DEF Send, NoCall, DirectoryInv, ServerInv
      <3>2. /\ call' = [call EXCEPT ![d] = NoCall]
            /\ applied' = [applied EXCEPT ![d] = @ \cup {call[d].plan}]
            /\ UNCHANGED <<control, ledger>>
        BY <2>3 DEF Send
      <3> QED
        BY <1>1, <3>1, <3>2, CommandTypes DEF BackupInv
    <2> QED
      BY <1>0, <2>1, <2>2, <2>3
  <1>5. DirectoryInv(d)'
    BY <1>2, <1>3, <1>4
       DEF DirectoryInv, MadeInv, WholeInv, ServerInv, GenerationInv, RestoreInv, Startable
  <1> QED
    BY <1>2, <1>3, <1>4, <1>5, InstanceIsEnough, CommandTypes DEF BackupInv
-----------------------------------------------------------------------------
(* A command, where it writes nothing.                                      *)
LEMMA BeginKeepsInv ==
    ASSUME BackupInv, NEW c \in Commands, NEW r \in BOOLEAN, NEW from \in Directories,
           NEW to \in Directories, Begin(c, r, from, to)
    PROVE  BackupInv'
  <1> DEFINE w == [at |-> "lock", restoring |-> r, from |-> from, to |-> to, next |-> 1]
  <1>1. w \in Works
    BY DEF Works, Steps
  <1>2. Become(c, w) /\ UNCHANGED <<made, state, lock, call, since>> /\ command'[c] = w
    BY CommandTypes DEF BackupInv, Begin, Become
  <1>3. from # to
    <2>1. files[to]["key"] = "absent"
      BY DEF BackupInv, DirectoryInv, MadeInv, Begin, Files
    <2> QED
      BY <2>1 DEF Begin
  <1>4. CommandInv(c)'
    BY <1>2, <1>3 DEF CommandInv, Begin, Writing, state
  <1>5. ~Writing(c)' /\ w.at = "lock"
    BY <1>2 DEF Writing
  <1> HIDE DEF w
  <1> QED
    BY <1>1, <1>2, <1>4, <1>5, LocalIsEnough, LockTypes DEF BackupInv

\* A command that ends, by itself or not, and leaves the directories as they are.
LEMMA EndKeepsInv ==
    ASSUME BackupInv, NEW c \in Commands, Become(c, Ended),
           UNCHANGED <<made, state, call, since>>,
           lock' \in [Directories -> Commands \cup {"server", None}],
           \A d \in Directories : lock'[d] = lock[d] \/ (lock[d] = c /\ lock'[d] = None)
    PROVE  BackupInv'
  <1>1. command'[c] = Ended
    BY CommandTypes DEF BackupInv, Become
  <1>2. CommandInv(c)' /\ ~Writing(c)' /\ Ended.at = "ended"
    BY <1>1 DEF CommandInv, Writing, Ended
  <1> QED
    BY <1>2, LocalIsEnough

LEMMA LockKeepsInv ==
    ASSUME BackupInv, NEW c \in Commands, Lock(c)
    PROVE  BackupInv'
  <1> DEFINE work == command[c]
             w == [work EXCEPT !.at = "make"]
  <1>1. /\ work \in Works /\ work # Ended /\ work.from \in Directories /\ work.at = "lock"
        /\ CommandInv(c) /\ UNCHANGED <<made, state, call, since>>
    BY AtWork DEF BackupInv, Lock
  <1>2. CASE lock[work.from] = None /\ lock' = [lock EXCEPT ![work.from] = c] /\ Goto(c, "make")
    <2>1. /\ w \in Works /\ w.at = "make" /\ w.from = work.from /\ w.to = work.to /\ w # Ended
          /\ w.next = work.next
      BY <1>1 DEF Works, Steps, Ended
    <2>2. Become(c, w) /\ command'[c] = w
      BY <1>2, CommandTypes DEF BackupInv, Goto, Become
    <2> HIDE DEF w
    <2>3. CommandInv(c)' /\ ~Writing(c)'
      BY <1>1, <2>1, <2>2 DEF CommandInv, Writing, state
    <2>4. /\ lock' \in [Directories -> Commands \cup {"server", None}]
          /\ lock'[w.from] = c
          /\ \A d \in Directories : lock'[d] = lock[d] \/ (lock[d] = None /\ lock'[d] = c)
      BY <1>1, <1>2, <2>1, LockTypes DEF BackupInv
    <2> QED
      BY <1>1, <2>1, <2>2, <2>3, <2>4, LocalIsEnough
  <1>3. CASE Become(c, Ended) /\ UNCHANGED lock
    BY <1>1, <1>3, EndKeepsInv, LockTypes DEF BackupInv
  <1> QED
    BY <1>2, <1>3 DEF Lock

LEMMA ReleaseIsLocal ==
    ASSUME BackupInv, NEW c \in Commands, Release(c),
           command[c].at \in {"make", "mark", "copy", "release"}
    PROVE  /\ lock' \in [Directories -> Commands \cup {"server", None}]
           /\ \A d \in Directories : lock'[d] = lock[d] \/ (lock[d] = c /\ lock'[d] = None)
  <1>1. lock \in [Directories -> Commands \cup {"server", None}]
        /\ lock[command[c].from] = c /\ command[c].from \in Directories
    BY AtWork, CommandTypes DEF BackupInv
  <1> QED
    BY <1>1 DEF Release

LEMMA UnlockKeepsInv ==
    ASSUME BackupInv, NEW c \in Commands, Unlock(c)
    PROVE  BackupInv'
  <1> DEFINE work == command[c]
             w == [work EXCEPT !.at = "advance"]
  <1>1. /\ work \in Works /\ work # Ended /\ work.at = "release"
        /\ CommandInv(c) /\ UNCHANGED <<made, state, call, since>>
    BY AtWork DEF BackupInv, Unlock
  <1>2. /\ lock' \in [Directories -> Commands \cup {"server", None}]
        /\ \A d \in Directories : lock'[d] = lock[d] \/ (lock[d] = c /\ lock'[d] = None)
    BY ReleaseIsLocal DEF Unlock
  <1>3. CASE work.restoring
    <2>1. /\ w \in Works /\ w.at = "advance" /\ w.from = work.from /\ w.to = work.to
          /\ w # Ended /\ w.restoring = work.restoring
      BY <1>1 DEF Works, Steps, Ended
    <2>2. Become(c, w) /\ command'[c] = w
      BY <1>3, CommandTypes DEF BackupInv, Unlock, Goto, Become
    <2> HIDE DEF w
    <2>3. CommandInv(c)' /\ Writing(c)
      BY <1>1, <1>3, <2>1, <2>2 DEF CommandInv, Writing, state
    <2> QED
      BY <1>1, <1>2, <2>1, <2>2, <2>3, LocalIsEnough
  <1>4. CASE ~work.restoring
    BY <1>1, <1>2, <1>4, EndKeepsInv DEF Unlock
  <1> QED
    BY <1>3, <1>4

LEMMA DieKeepsInv ==
    ASSUME BackupInv, NEW c \in Commands, Die(c)
    PROVE  BackupInv'
  <1>1. /\ lock' \in [Directories -> Commands \cup {"server", None}]
        /\ \A d \in Directories : lock'[d] = lock[d] \/ (lock[d] = c /\ lock'[d] = None)
    <2>1. lock \in [Directories -> Commands \cup {"server", None}]
      BY LockTypes DEF BackupInv
    <2>2. lock' = [d \in Directories |-> IF lock[d] = c THEN None ELSE lock[d]]
      BY DEF Die
    <2> QED
      BY <2>1, <2>2
  <1> QED
    BY <1>1, EndKeepsInv DEF Die
-----------------------------------------------------------------------------
(* A command, where it writes.                                              *)

\* Where a command at work writes, it is alone.
LEMMA WritesAlone ==
    ASSUME BackupInv, NEW c \in Commands, Writing(c)
    PROVE  /\ command[c] \in Works /\ command[c] # Ended /\ command[c].to \in Directories
           /\ command[c].from \in Directories
           /\ CommandInv(c) /\ DirectoryInv(command[c].to)
           /\ \A b \in Commands : b # c /\ Writing(b) => command[b].to # command[c].to
  BY AtWork DEF BackupInv, ApartInv, Writing

LEMMA RowTypes ==
    ASSUME BackupTypeOK
    PROVE  /\ made \subseteq Directories
           /\ files \in [Directories -> [Files -> {"absent", "partial", "whole"}]]
           /\ control \in [Directories -> [generation : Nat, quarantine : BOOLEAN,
                                           approved : [Plans -> Nat], issued : SUBSET Plans]]
           /\ ledger \in [Directories -> SUBSET Plans]
           /\ applied \in [Directories -> SUBSET Plans]
           /\ since \in [Directories -> [restored : BOOLEAN, acknowledged : BOOLEAN,
                                         approved : SUBSET Plans]]
  BY DEF BackupTypeOK

LEMMA MakeKeepsInv ==
    ASSUME BackupInv, NEW c \in Commands, Make(c)
    PROVE  BackupInv'
  <1>0. PICK to \in Directories : to = command[c].to
    BY AtWork DEF BackupInv, Make
  <1> DEFINE work == command[c]
             w == [work EXCEPT !.at = IF work.restoring THEN "mark" ELSE "copy"]
  <1>1. /\ work \in Works /\ work # Ended /\ work.at = "make" /\ to = work.to
        /\ work.from \in Directories /\ CommandInv(c) /\ DirectoryInv(to)
        /\ lock[work.from] = c
    <2>1. work.at = "make" /\ BackupTypeOK
      BY DEF BackupInv, Make
    <2> QED
      BY <1>0, <2>1, AtWork, CommandTypes DEF BackupInv
  <1>2. CASE to \in made
    <2>1. Become(c, Ended) /\ Release(c) /\ UNCHANGED <<made, state, call, since>>
      BY <1>0, <1>2 DEF Make
    <2> QED
      BY <1>1, <2>1, ReleaseIsLocal, EndKeepsInv
  <1>3. CASE to \notin made
    <2>1. /\ made' = made \cup {to} /\ since' = [since EXCEPT ![to].restored = work.restoring]
          /\ UNCHANGED <<files, control, ledger, applied, lock, call>>
          /\ Goto(c, IF work.restoring THEN "mark" ELSE "copy")
      BY <1>0, <1>3 DEF Make, state
    <2>2. /\ w \in Works /\ w # Ended /\ w.from = work.from /\ w.to = to
          /\ w.restoring = work.restoring /\ w.next = work.next
          /\ w.at = IF work.restoring THEN "mark" ELSE "copy"
      BY <1>1 DEF Works, Steps, Ended
    <2>3. Become(c, w) /\ command'[c] = w
      BY <2>1, CommandTypes DEF BackupInv, Goto, Become
    <2> HIDE DEF w
    <2>4. /\ since' \in [Directories -> [restored : BOOLEAN, acknowledged : BOOLEAN,
                                         approved : SUBSET Plans]]
          /\ since'[to].restored = work.restoring
          /\ \A d \in Directories : d # to => since'[d] = since[d]
      <3>1. work.restoring \in BOOLEAN
        BY <1>1 DEF Works
      <3>2. since[to] \in [restored : BOOLEAN, acknowledged : BOOLEAN, approved : SUBSET Plans]
            /\ since \in [Directories -> [restored : BOOLEAN, acknowledged : BOOLEAN,
                                          approved : SUBSET Plans]]
        BY RowTypes DEF BackupInv
      <3>3. since' = [since EXCEPT ![to] = [since[to] EXCEPT !.restored = work.restoring]]
        BY <2>1
      <3> QED
        BY <3>1, <3>2, <3>3
    <2>5. \A f \in Files : files[to][f] = "absent"
      BY <1>1, <1>3 DEF DirectoryInv, MadeInv
    <2>6. files[to]["key"] = "absent"
      BY <2>5 DEF Files
    <2>7. work.next = 1
      BY <1>1 DEF CommandInv
    <2>8. CommandInv(c)'
      BY <1>1, <2>1, <2>2, <2>3, <2>4, <2>5, <2>6, <2>7
         DEF CommandInv, CopyInv, Writing
    <2>9. DirectoryInv(to)'
      BY <1>1, <2>1, <2>5, <2>6
         DEF DirectoryInv, MadeInv, WholeInv, ServerInv, GenerationInv, RestoreInv, Startable
    <2>10. \A b \in Commands : b # c /\ Writing(b) => command[b].to # to
      BY <1>3, AtWork DEF BackupInv, CommandInv, Writing
    <2>11. /\ files' \in [Directories -> [Files -> {"absent", "partial", "whole"}]]
           /\ control' \in [Directories -> [generation : Nat, quarantine : BOOLEAN,
                                          approved : [Plans -> Nat], issued : SUBSET Plans]]
           /\ ledger' \in [Directories -> SUBSET Plans]
           /\ applied' \in [Directories -> SUBSET Plans]
           /\ since' \in [Directories -> [restored : BOOLEAN, acknowledged : BOOLEAN,
                                        approved : SUBSET Plans]]
           /\ made \subseteq made' /\ made' \subseteq Directories
      BY <2>1, <2>4, RowTypes DEF BackupInv
    <2> QED
      BY <1>1, <2>1, <2>2, <2>3, <2>4, <2>6, <2>8, <2>9, <2>10, <2>11, WriteIsEnough, SMTT(60)
  <1> QED
    BY <1>2, <1>3

LEMMA MarkKeepsInv ==
    ASSUME BackupInv, NEW c \in Commands, Mark(c)
    PROVE  BackupInv'
  <1>0. PICK to \in Directories : to = command[c].to
    BY AtWork DEF BackupInv, Mark
  <1> DEFINE work == command[c]
             w == [work EXCEPT !.at = "copy"]
  <1>1. /\ work \in Works /\ work # Ended /\ work.at = "mark" /\ to = work.to
        /\ work.from \in Directories /\ CommandInv(c) /\ DirectoryInv(to) /\ Writing(c)
        /\ \A b \in Commands : b # c /\ Writing(b) => command[b].to # to
        /\ lock[work.from] = c
    BY <1>0, WritesAlone, CommandTypes DEF BackupInv, Mark, Writing
  <1>2. /\ files' = [files EXCEPT ![to]["pending"] = "whole"]
        /\ UNCHANGED <<made, control, ledger, applied, lock, call, since>>
    BY <1>0 DEF Mark
  <1>3. /\ w \in Works /\ w # Ended /\ w.from = work.from /\ w.to = to
        /\ w.restoring = work.restoring /\ w.next = work.next /\ w.at = "copy"
    BY <1>1 DEF Works, Steps, Ended
  <1>4. Become(c, w) /\ command'[c] = w
    BY CommandTypes DEF BackupInv, Mark, Goto, Become
  <1> HIDE DEF w
  <1>5. /\ files' \in [Directories -> [Files -> {"absent", "partial", "whole"}]]
        /\ \A d \in Directories : d # to => files'[d] = files[d]
        /\ files'[to]["pending"] = "whole"
        /\ files'[to]["key"] = files[to]["key"]
    <2>1. /\ files \in [Directories -> [Files -> {"absent", "partial", "whole"}]]
          /\ "pending" \in Files /\ "key" \in Files
      BY RowTypes DEF BackupInv, Files
    <2>2. files' = [files EXCEPT ![to] = [files[to] EXCEPT !["pending"] = "whole"]]
      BY <1>2
    <2> QED
      BY <2>1, <2>2
  <1>6. files[to]["key"] = "absent" /\ to \in made /\ work.restoring /\ work.next = 1
    BY <1>1 DEF CommandInv, Files
  <1>7. CommandInv(c)'
    <2>1. CopyInv(command[c])'
      BY <1>3, <1>4, <1>5, <1>6 DEF CopyInv
    <2>2. /\ work.from # to /\ files'[work.from] = files[work.from]
          /\ files[work.from]["key"] = "whole" /\ files[work.from]["pending"] = "absent"
          /\ since[to].restored = work.restoring
      BY <1>1, <1>5 DEF CommandInv
    <2> QED
      BY <1>1, <1>2, <1>3, <1>4, <1>5, <1>6, <2>1, <2>2 DEF CommandInv
  <1>8. DirectoryInv(to)'
    BY <1>1, <1>2, <1>5, <1>6
       DEF DirectoryInv, MadeInv, WholeInv, ServerInv, GenerationInv, RestoreInv, Startable
  <1>9. /\ files' \in [Directories -> [Files -> {"absent", "partial", "whole"}]]
        /\ control' \in [Directories -> [generation : Nat, quarantine : BOOLEAN,
                                         approved : [Plans -> Nat], issued : SUBSET Plans]]
        /\ ledger' \in [Directories -> SUBSET Plans]
        /\ applied' \in [Directories -> SUBSET Plans]
        /\ since' \in [Directories -> [restored : BOOLEAN, acknowledged : BOOLEAN,
                                       approved : SUBSET Plans]]
        /\ made \subseteq made' /\ made' \subseteq Directories
    BY <1>2, <1>5, RowTypes DEF BackupInv
  <1>10. w.at \in {"make", "mark", "copy", "release"} => lock[w.from] = c
    BY <1>1, <1>3
  <1>11. \A d \in Directories : d # to =>
            /\ files'[d] = files[d] /\ control'[d] = control[d] /\ ledger'[d] = ledger[d]
            /\ applied'[d] = applied[d] /\ since'[d] = since[d]
    BY <1>2, <1>5
  <1>12. ~ (files[to]["key"] = "whole" /\ files[to]["pending"] = "absent")
    BY <1>6
  <1>13. UNCHANGED <<lock, call>> /\ w \in {Ended} \cup Works /\ Become(c, w) /\ w.to = to
    BY <1>1, <1>2, <1>3, <1>4
  <1> QED
    BY <1>1, <1>7, <1>8, <1>9, <1>10, <1>11, <1>12, <1>13, WriteIsEnough

(* The restored directory is taken out of use before its marker goes.       *)
LEMMA AdvanceKeepsInv ==
    ASSUME BackupInv, NEW c \in Commands, Advance(c) \/ Quarantine(c)
    PROVE  BackupInv'
  <1>0. PICK to \in Directories : to = command[c].to
    BY AtWork DEF BackupInv, Advance, Quarantine
  <1> DEFINE work == command[c]
             w == [work EXCEPT !.at = IF work.at = "advance" THEN "quarantine" ELSE "unlink"]
  <1>1. /\ work \in Works /\ work # Ended /\ work.at \in {"advance", "quarantine"}
        /\ to = command[c].to /\ CommandInv(c) /\ DirectoryInv(to) /\ Writing(c)
        /\ \A b \in Commands : b # c /\ Writing(b) => command[b].to # to
    BY <1>0, WritesAlone DEF Advance, Quarantine, Writing
  <1>2. UNCHANGED <<made, files, ledger, applied, lock, call, since>>
    BY DEF Advance, Quarantine
  <1>3. /\ w \in Works /\ w # Ended /\ w.from = work.from /\ w.to = to
        /\ w.restoring = work.restoring
        /\ w.at = IF work.at = "advance" THEN "quarantine" ELSE "unlink"
    BY <1>1 DEF Works, Steps, Ended
  <1>4. Become(c, w) /\ command'[c] = w
    BY CommandTypes DEF BackupInv, Advance, Quarantine, Goto, Become
  <1> HIDE DEF w
  <1>5. /\ control' \in [Directories -> [generation : Nat, quarantine : BOOLEAN,
                                         approved : [Plans -> Nat], issued : SUBSET Plans]]
        /\ \A d \in Directories : d # to => control'[d] = control[d]
        /\ control'[to].issued = control[to].issued
        /\ control'[to].approved = control[to].approved
        /\ work.at = "advance" => control'[to].generation = control[to].generation + 1
        /\ work.at = "quarantine" => /\ control'[to].generation = control[to].generation
                                     /\ control'[to].quarantine
        /\ control[to].generation \in Nat /\ control[to].approved \in [Plans -> Nat]
    <2>1. control[to] \in [generation : Nat, quarantine : BOOLEAN,
                           approved : [Plans -> Nat], issued : SUBSET Plans]
      BY <1>1, RowTypes DEF BackupInv
    <2>2. CASE Advance(c)
      <3>1. control' = [control EXCEPT ![to] = [control[to] EXCEPT !.generation = @ + 1]]
            /\ work.at = "advance"
        BY <1>0, <2>2 DEF Advance
      <3>2. [control[to] EXCEPT !.generation = @ + 1] \in
               [generation : Nat, quarantine : BOOLEAN,
                approved : [Plans -> Nat], issued : SUBSET Plans]
        BY <2>1
      <3> QED
        BY <1>1, <2>1, <3>1, <3>2, RowTypes DEF BackupInv
    <2>3. CASE Quarantine(c)
      <3>1. control' = [control EXCEPT ![to] = [control[to] EXCEPT !.quarantine = TRUE]]
            /\ work.at = "quarantine"
        BY <1>0, <2>3 DEF Quarantine
      <3> QED
        BY <1>1, <2>1, <3>1, RowTypes DEF BackupInv
    <2> QED
      BY <2>2, <2>3
  <1>6. files[to]["pending"] = "whole" /\ to \in made
    BY <1>1 DEF CommandInv
  <1>7. CommandInv(c)'
    <2>1. \A p \in Plans : control'[to].approved[p] < control'[to].generation
      BY <1>1, <1>5, SMTT(30) DEF DirectoryInv, GenerationInv, CommandInv
    <2> QED
      BY <1>1, <1>2, <1>3, <1>4, <1>5, <1>6, <2>1, SMTT(30) DEF CommandInv, Writing
  <1>8. DirectoryInv(to)'
    <2>1. GenerationInv(to)'
      BY <1>1, <1>5 DEF DirectoryInv, GenerationInv
    <2> QED
      BY <1>1, <1>2, <1>5, <1>6, <2>1
         DEF DirectoryInv, MadeInv, WholeInv, ServerInv, RestoreInv, Startable
  <1>9. /\ files' \in [Directories -> [Files -> {"absent", "partial", "whole"}]]
        /\ control' \in [Directories -> [generation : Nat, quarantine : BOOLEAN,
                                         approved : [Plans -> Nat], issued : SUBSET Plans]]
        /\ ledger' \in [Directories -> SUBSET Plans]
        /\ applied' \in [Directories -> SUBSET Plans]
        /\ since' \in [Directories -> [restored : BOOLEAN, acknowledged : BOOLEAN,
                                       approved : SUBSET Plans]]
        /\ made \subseteq made' /\ made' \subseteq Directories
    BY <1>2, <1>5, RowTypes DEF BackupInv
  <1>10. w.at \in {"make", "mark", "copy", "release"} => lock[w.from] = c
    BY <1>1, <1>3
  <1>11. \A d \in Directories : d # to =>
            /\ files'[d] = files[d] /\ control'[d] = control[d] /\ ledger'[d] = ledger[d]
            /\ applied'[d] = applied[d] /\ since'[d] = since[d]
    BY <1>2, <1>5
  <1>12. ~ (files[to]["key"] = "whole" /\ files[to]["pending"] = "absent")
    BY <1>6
  <1>13. UNCHANGED <<lock, call>> /\ w \in {Ended} \cup Works /\ Become(c, w) /\ w.to = to
    BY <1>1, <1>2, <1>3, <1>4
  <1> QED
    BY <1>1, <1>7, <1>8, <1>9, <1>10, <1>11, <1>12, <1>13, WriteIsEnough

LEMMA UnlinkKeepsInv ==
    ASSUME BackupInv, NEW c \in Commands, Unlink(c)
    PROVE  BackupInv'
  <1>0. PICK to \in Directories : to = command[c].to
    BY AtWork DEF BackupInv, Unlink
  <1>1. /\ command[c].at = "unlink" /\ command[c] # Ended
        /\ to = command[c].to /\ CommandInv(c) /\ DirectoryInv(to) /\ Writing(c)
        /\ \A b \in Commands : b # c /\ Writing(b) => command[b].to # to
    BY <1>0, WritesAlone DEF Unlink, Writing
  <1>2. /\ files' = [files EXCEPT ![to]["pending"] = "absent"]
        /\ UNCHANGED <<made, control, ledger, applied, lock, call, since>>
        /\ Become(c, Ended)
    BY <1>0 DEF Unlink
  <1>3. command'[c] = Ended /\ Ended.at = "ended"
    BY <1>2, CommandTypes DEF BackupInv, Become, Ended
  <1>4. /\ files' \in [Directories -> [Files -> {"absent", "partial", "whole"}]]
        /\ \A d \in Directories : d # to => files'[d] = files[d]
        /\ \A f \in Files : f # "pending" => files'[to][f] = files[to][f]
    BY <1>1, <1>2, RowTypes DEF BackupInv, Files
  <1>5. files[to]["pending"] = "whole" /\ to \in made
    BY <1>1 DEF CommandInv, Writing
  <1>6. control[to].quarantine
        /\ \A p \in Plans : control[to].approved[p] < control[to].generation
    BY <1>1 DEF CommandInv
  <1>7. DirectoryInv(to)'
    <2>1. lock[to] # "server"
      BY <1>1, <1>5 DEF DirectoryInv, ServerInv, Startable
    <2>2. files'[to]["key"] = files[to]["key"]
          /\ \A f \in Databases : files'[to][f] = files[to][f]
      BY <1>4 DEF Files, Databases
    <2>3. RestoreInv(to)'
      BY <1>1, <1>2, <1>6, RowTypes DEF BackupInv, RestoreInv
    <2> QED
      BY <1>1, <1>2, <1>5, <2>1, <2>2, <2>3
         DEF DirectoryInv, MadeInv, WholeInv, ServerInv, GenerationInv
  <1>8. CommandInv(c)' /\ ~Writing(c)'
    BY <1>3 DEF CommandInv, Writing
  <1> QED
    BY <1>1, <1>2, <1>3, <1>4, <1>5, <1>7, <1>8, RowTypes, WriteIsEnough, ZenonT(30) DEF BackupInv

(* Copying: databases before the key, and the key before what nobody needs. *)
LEMMA OrderNames ==
    ASSUME NEW n \in 1 .. 6
    PROVE  /\ Order[n] \in Files /\ Order[n] # "pending"
           /\ Order[n] = "control" <=> n = 1
           /\ Order[n] = "collector" <=> n = 2
           /\ Order[n] = "runner" <=> n = 3
           /\ Order[n] = "demo" <=> n = 4
           /\ Order[n] = "key" <=> n = 5
  <1>1. n \in {1, 2, 3, 4, 5, 6}
    OBVIOUS
  <1> QED
    BY <1>1, OrderFacts DEF Files, Databases

LEMMA CopyKeepsInv ==
    ASSUME BackupInv, NEW c \in Commands, Copy(c)
    PROVE  BackupInv'
  <1>0. PICK to \in Directories : to = command[c].to
    BY AtWork DEF BackupInv, Copy
  <1>1. PICK work \in Works : work = command[c]
    BY AtWork DEF BackupInv, Copy
  <1>2. PICK from \in Directories : from = work.from
    BY <1>1 DEF Works
  <1>3. PICK n \in 1 .. 6 : n = work.next
    BY <1>1 DEF Works
  <1>4. PICK name \in Files : name = Order[n]
    BY OrderNames
  <1>5. /\ work # Ended /\ work.at = "copy" /\ work.to = to /\ work.from = from /\ from # to
        /\ lock[from] = c /\ to \in made /\ since[to].restored = work.restoring
        /\ work.restoring => files[to]["pending"] = "whole"
        /\ files[from]["key"] = "whole" /\ files[from]["pending"] = "absent"
    <2>1. BackupTypeOK /\ command[c].at = "copy" /\ CommandInv(c)
      BY DEF BackupInv, Copy
    <2>2. work # Ended
      BY <1>1, <2>1, AtWork
    <2>3. work.at = "copy" /\ work.to = to /\ work.from = from
      BY <1>0, <1>1, <1>2, <2>1
    <2>4. lock[from] = c
      BY <1>1, <2>1, <2>3, CommandTypes
    <2>5. Writing(c)
      BY <2>1 DEF Writing
    <2>6. /\ from # to /\ files[from]["key"] = "whole" /\ files[from]["pending"] = "absent"
          /\ to \in made /\ since[to].restored = work.restoring
          /\ work.restoring => files[to]["pending"] = "whole"
      BY <1>1, <2>1, <2>2, <2>3, <2>5 DEF CommandInv
    <2> QED
      BY <2>2, <2>3, <2>4, <2>6
  <1>6. /\ \A b \in Commands : b # c /\ Writing(b) => command[b].to # to
        /\ DirectoryInv(to) /\ DirectoryInv(from)
    BY <1>0, <1>1, <1>5, WritesAlone DEF BackupInv, Writing
  <1>7. /\ n > 1 => files[to]["control"] = "whole"
        /\ n > 2 => files[to]["collector"] = "whole"
        /\ n > 3 => files[to]["runner"] = "whole"
        /\ n > 4 => files[to]["demo"] = "whole"
        /\ n <= 5 => /\ files[to]["key"] # "whole"
                     /\ n > 1 => control[to] = control[from]
                     /\ n > 3 => ledger[to] = ledger[from]
                     /\ n > 4 => applied[to] = applied[from]
    BY <1>1, <1>3, <1>5 DEF BackupInv, CommandInv, CopyInv
  <1>8. /\ name # "pending"
        /\ name = "control" <=> n = 1
        /\ name = "collector" <=> n = 2
        /\ name = "runner" <=> n = 3
        /\ name = "demo" <=> n = 4
        /\ name = "key" <=> n = 5
    BY <1>4, OrderNames
  <1>9. PICK much \in {"partial", "whole"} :
            /\ files' = [files EXCEPT ![to][name] = much]
            /\ much = "partial" => /\ files[to][name] = "absent"
                                   /\ UNCHANGED <<control, ledger, applied, command>>
            /\ much = "whole" =>
                 /\ files[to][name] = "partial"
                 /\ Take(name, "control", control, from, to)
                 /\ Take(name, "runner", ledger, from, to)
                 /\ Take(name, "demo", applied, from, to)
                 /\ Become(c, IF n < 6 THEN [work EXCEPT !.next = @ + 1]
                              ELSE [work EXCEPT !.at = "release"])
    BY <1>0, <1>1, <1>2, <1>3, <1>4, OrderFacts DEF Copy
  <1>10. UNCHANGED <<made, lock, call, since>>
    BY DEF Copy
  <1>11. /\ files' \in [Directories -> [Files -> {"absent", "partial", "whole"}]]
         /\ files'[to][name] = much
         /\ \A f \in Files : f # name => files'[to][f] = files[to][f]
         /\ \A d \in Directories : d # to => files'[d] = files[d]
    <2>1. files \in [Directories -> [Files -> {"absent", "partial", "whole"}]]
      BY RowTypes DEF BackupInv
    <2>2. files' = [files EXCEPT ![to] = [files[to] EXCEPT ![name] = much]]
      BY <1>9
    <2> QED
      BY <2>1, <2>2
  <1>12. /\ control' \in [Directories -> [generation : Nat, quarantine : BOOLEAN,
                                          approved : [Plans -> Nat], issued : SUBSET Plans]]
         /\ ledger' \in [Directories -> SUBSET Plans]
         /\ applied' \in [Directories -> SUBSET Plans]
         /\ \A d \in Directories : d # to =>
              control'[d] = control[d] /\ ledger'[d] = ledger[d] /\ applied'[d] = applied[d]
         /\ control'[to] = IF much = "whole" /\ n = 1 THEN control[from] ELSE control[to]
         /\ ledger'[to] = IF much = "whole" /\ n = 3 THEN ledger[from] ELSE ledger[to]
         /\ applied'[to] = IF much = "whole" /\ n = 4 THEN applied[from] ELSE applied[to]
    <2>1. /\ control \in [Directories -> [generation : Nat, quarantine : BOOLEAN,
                                          approved : [Plans -> Nat], issued : SUBSET Plans]]
          /\ ledger \in [Directories -> SUBSET Plans]
          /\ applied \in [Directories -> SUBSET Plans]
      BY RowTypes DEF BackupInv
    <2>2. /\ control' = IF much = "whole" /\ n = 1
                        THEN [control EXCEPT ![to] = control[from]] ELSE control
          /\ ledger' = IF much = "whole" /\ n = 3
                       THEN [ledger EXCEPT ![to] = ledger[from]] ELSE ledger
          /\ applied' = IF much = "whole" /\ n = 4
                        THEN [applied EXCEPT ![to] = applied[from]] ELSE applied
      BY <1>8, <1>9 DEF Take
    <2> QED
      BY <2>1, <2>2
  <1>13. \A f \in Files : f = "control" \/ f = "collector" \/ f = "runner" \/ f = "demo"
                          \/ f = "key" \/ f = "manifest" \/ f = "pending"
    BY DEF Files, Databases
  <1>14. /\ "control" \in Files /\ "collector" \in Files /\ "runner" \in Files
         /\ "demo" \in Files /\ "key" \in Files /\ "pending" \in Files
    BY DEF Files, Databases
  <1>15. DirectoryInv(to)'
    <2>1. MadeInv(to)'
      BY <1>5, <1>10 DEF MadeInv
    <2>2. WholeInv(to)'
      <3>1. CASE n = 6
        BY <1>6, <1>8, <1>11, <1>12, <1>14, <3>1
           DEF DirectoryInv, WholeInv, Databases
      <3>2. CASE n = 5
        <4>1. \A f \in Databases : files'[to][f] = "whole"
          BY <1>7, <1>8, <1>11, <1>14, <3>2 DEF Databases
        <4>2. /\ control'[to] = control[from] /\ ledger'[to] = ledger[from]
              /\ applied'[to] = applied[from]
          BY <1>7, <1>12, <3>2
        <4>3. applied[from] \subseteq ledger[from] /\ ledger[from] \subseteq control[from].issued
          BY <1>5, <1>6 DEF DirectoryInv, WholeInv
        <4> QED
          BY <4>1, <4>2, <4>3 DEF WholeInv
      <3>3. CASE n < 5
        BY <1>7, <1>8, <1>11, <1>14, <3>3 DEF WholeInv
      <3> QED
        BY <3>1, <3>2, <3>3
    <2>3. ServerInv(to)'
      <3>1. CASE lock[to] = "server"
        <4>1. files[to]["key"] = "whole" /\ Startable(to)
          BY <1>6, <3>1 DEF DirectoryInv, ServerInv, Startable
        <4>2. n = 6
          BY <1>7, <4>1
        <4> QED
          BY <1>6, <1>8, <1>10, <1>11, <1>12, <1>14, <4>1, <4>2
             DEF DirectoryInv, ServerInv, Startable, Databases
      <3>2. CASE lock[to] # "server"
        <4>1. call[to] = NoCall
          BY <3>2, CommandTypes DEF BackupInv
        <4> QED
          BY <1>10, <3>2, <4>1 DEF ServerInv
      <3> QED
        BY <3>1, <3>2
    <2>4. GenerationInv(to)'
      BY <1>6, <1>12 DEF DirectoryInv, GenerationInv
    <2>5. RestoreInv(to)'
      <3>1. work.restoring => files'[to]["pending"] = "whole"
        BY <1>5, <1>8, <1>11, <1>14
      <3>2. CASE work.restoring
        BY <3>1, <3>2 DEF RestoreInv
      <3>3. CASE ~work.restoring
        BY <1>5, <1>10, <3>3 DEF RestoreInv
      <3> QED
        BY <3>2, <3>3
    <2> QED
      BY <2>1, <2>2, <2>3, <2>4, <2>5 DEF DirectoryInv
  <1>16. PICK w \in Works : /\ Become(c, w) /\ w.from = from /\ w.to = to
                            /\ w.restoring = work.restoring /\ w.at \in {"copy", "release"}
                            /\ w.at = "copy" =>
                                 w.next = (IF much = "whole" THEN n + 1 ELSE n)
                            /\ w.at = "copy" /\ much = "whole" => n < 6
    <2>1. CASE much = "partial"
      <3>1. Become(c, work)
        BY <1>1, <1>9, <2>1, CommandTypes DEF BackupInv, Become
      <3> QED
        BY <1>3, <1>5, <2>1, <3>1
    <2>2. CASE much = "whole" /\ n < 6
      <3> DEFINE w == [work EXCEPT !.next = @ + 1]
      <3>1. w \in Works /\ w.next = n + 1 /\ w.at = "copy" /\ w.from = from /\ w.to = to
            /\ w.restoring = work.restoring
        BY <1>3, <1>5, <2>2 DEF Works
      <3>2. Become(c, w)
        BY <1>9, <2>2
      <3> QED
        BY <2>2, <3>1, <3>2
    <2>3. CASE much = "whole" /\ n = 6
      <3> DEFINE w == [work EXCEPT !.at = "release"]
      <3>1. w \in Works /\ w.at = "release" /\ w.from = from /\ w.to = to
            /\ w.restoring = work.restoring
        BY <1>5 DEF Works, Steps
      <3>2. Become(c, w)
        BY <1>9, <2>3
      <3> QED
        BY <3>1, <3>2
    <2> QED
      BY <2>1, <2>2, <2>3
  <1>17. command'[c] = w
    BY <1>16, CommandTypes DEF BackupInv, Become
  <1>18. CommandInv(c)'
    <2>1. w.at = "copy" => CopyInv(w)'
      <3>1. SUFFICES ASSUME w.at = "copy" PROVE CopyInv(w)'
        OBVIOUS
      <3>2. CASE much = "partial"
        BY <1>7, <1>8, <1>11, <1>12, <1>14, <1>16, <3>1, <3>2 DEF CopyInv
      <3>3. CASE much = "whole"
        <4>1. w.next = n + 1 /\ n < 6
          BY <1>16, <3>1, <3>3
        <4>2. \A f \in Files : files[to][f] = "whole" => files'[to][f] = "whole"
          BY <1>11, <3>3
        <4>3. control'[from] = control[from] /\ ledger'[from] = ledger[from]
              /\ applied'[from] = applied[from]
          BY <1>5, <1>12
        <4>4. w.next <= 5 => files'[to]["key"] # "whole"
          BY <1>7, <1>8, <1>11, <1>14, <4>1
        <4>5. /\ w.next > 1 => files'[to]["control"] = "whole"
              /\ w.next > 2 => files'[to]["collector"] = "whole"
              /\ w.next > 3 => files'[to]["runner"] = "whole"
              /\ w.next > 4 => files'[to]["demo"] = "whole"
          BY <1>7, <1>8, <1>11, <1>14, <3>3, <4>1, <4>2
        <4>6. w.next <= 5 => /\ w.next > 1 => control'[to] = control'[from]
                             /\ w.next > 3 => ledger'[to] = ledger'[from]
                             /\ w.next > 4 => applied'[to] = applied'[from]
          BY <1>7, <1>12, <3>3, <4>1, <4>3
        <4> QED
          BY <1>16, <4>4, <4>5, <4>6 DEF CopyInv
      <3> QED
        BY <3>2, <3>3
    <2>2. files'[from] = files[from]
          /\ (work.restoring => files'[to]["pending"] = "whole")
      BY <1>5, <1>8, <1>11, <1>14
    <2>3. CopyInv(command[c])' <=> CopyInv(w)'
      BY <1>17 DEF CopyInv
    <2> QED
      BY <1>5, <1>10, <1>16, <1>17, <2>1, <2>2, <2>3 DEF CommandInv
  <1>19. \A d \in Directories : d # to =>
            /\ files'[d] = files[d] /\ control'[d] = control[d] /\ ledger'[d] = ledger[d]
            /\ applied'[d] = applied[d] /\ since'[d] = since[d]
    BY <1>10, <1>11, <1>12
  <1>20. files[to]["key"] = "whole" /\ files[to]["pending"] = "absent" =>
            /\ files'[to]["key"] = "whole" /\ files'[to]["pending"] = "absent"
            /\ control'[to] = control[to] /\ ledger'[to] = ledger[to]
            /\ applied'[to] = applied[to]
    BY <1>7, <1>8, <1>11, <1>12, <1>14
  <1>21. /\ made \subseteq made' /\ made' \subseteq Directories /\ UNCHANGED <<lock, call>>
         /\ since' \in [Directories -> [restored : BOOLEAN, acknowledged : BOOLEAN,
                                        approved : SUBSET Plans]]
    BY <1>10, RowTypes DEF BackupInv
  <1>22. /\ w \in {Ended} \cup Works /\ Become(c, w) /\ w.to = to
         /\ w.at \in {"make", "mark", "copy", "release"} => lock[w.from] = c
    BY <1>5, <1>16
  <1> QED
    BY <1>6, <1>11, <1>12, <1>15, <1>18, <1>19, <1>20, <1>21, <1>22, WriteIsEnough
-----------------------------------------------------------------------------
LEMMA InitIsBackupInv == BackupInit => BackupInv
  <1> SUFFICES ASSUME BackupInit PROVE BackupInv
    OBVIOUS
  <1> USE DEF BackupInit
  <1>1. /\ files \in [Directories -> [Files -> {"absent", "partial", "whole"}]]
        /\ \A d \in Directories : d # Live => \A f \in Files : files[d][f] = "absent"
        /\ \A f \in Databases \cup {"key"} : files[Live][f] = "whole"
    BY BackupAssumption DEF Files
  <1>2. /\ \A c \in Commands : command[c] = Ended
        /\ \A d \in Directories : lock[d] = None /\ call[d] = NoCall /\ ~since[d].restored
        /\ Ended.at = "ended"
    BY DEF Ended
  <1>3. BackupTypeOK
    <2>1. Start \in [generation : Nat, quarantine : BOOLEAN,
                     approved : [Plans -> Nat], issued : SUBSET Plans]
      BY DEF Start
    <2>2. made \subseteq Directories
      BY BackupAssumption
    <2> QED
      BY <1>1, <1>2, <2>1, <2>2, CommandTypes
  <1>4. ASSUME NEW d \in Directories PROVE DirectoryInv(d)
    <2>1. MadeInv(d)
      BY <1>1 DEF MadeInv
    <2>2. WholeInv(d)
      BY <1>1 DEF WholeInv, Files
    <2>3. ServerInv(d) /\ RestoreInv(d)
      BY <1>2, BackupAssumption DEF ServerInv, RestoreInv
    <2>4. GenerationInv(d)
      BY DEF GenerationInv, Start
    <2> QED
      BY <2>1, <2>2, <2>3, <2>4 DEF DirectoryInv
  <1>5. (\A c \in Commands : CommandInv(c)) /\ ApartInv
    BY <1>2 DEF CommandInv, ApartInv, Writing
  <1> QED
    BY <1>3, <1>4, <1>5 DEF BackupInv

LEMMA StutterKeepsInv == BackupInv /\ UNCHANGED vars => BackupInv'
  <1> SUFFICES ASSUME BackupInv, UNCHANGED vars PROVE BackupInv'
    OBVIOUS
  <1> USE DEF vars, state
  <1>1. BackupTypeOK'
    BY DEF BackupInv, BackupTypeOK
  <1>2. \A d \in Directories : DirectoryInv(d)'
    BY DEF BackupInv, DirectoryInv, MadeInv, WholeInv, ServerInv, GenerationInv, RestoreInv,
           Startable
  <1>3. (\A c \in Commands : CommandInv(c)') /\ ApartInv'
    BY DEF BackupInv, CommandInv, CopyInv, ApartInv, Writing
  <1> QED
    BY <1>1, <1>2, <1>3 DEF BackupInv

LEMMA NextKeepsInv == BackupInv /\ Next => BackupInv'
  <1> SUFFICES ASSUME BackupInv, Next PROVE BackupInv'
    OBVIOUS
  <1>1. ASSUME NEW d \in Directories, Instance(d) PROVE BackupInv'
    <2>1. CASE Serve(d) \/ Stop(d)
      BY <2>1, ServeKeepsInv
    <2>2. CASE \E p \in Plans : Approve(d, p) \/ Issue(d, p)
      BY <2>2, PeopleKeepInv, ExecutionKeepsInv
    <2>3. CASE RevokeAll(d) \/ Acknowledge(d) \/ Record(d) \/ Send(d)
      BY <2>3, PeopleKeepInv, ExecutionKeepsInv
    <2> QED
      BY <1>1, <2>1, <2>2, <2>3 DEF Instance
  <1>2. ASSUME NEW c \in Commands, Work(c) \/ Die(c) PROVE BackupInv'
    BY <1>2, LockKeepsInv, MakeKeepsInv, MarkKeepsInv, CopyKeepsInv, UnlockKeepsInv,
       AdvanceKeepsInv, UnlinkKeepsInv, DieKeepsInv DEF Work
  <1> QED
    BY <1>1, <1>2, BeginKeepsInv DEF Next

THEOREM BackupInvariant == Spec => []BackupInv
  <1>1. BackupInv /\ [Next]_vars => BackupInv'
    BY NextKeepsInv, StutterKeepsInv
  <1> QED
    BY <1>1, InitIsBackupInv, PTL DEF Spec

(* The types of the state, and who holds which lock.                        *)
THEOREM BackupTypes == Spec => []BackupTypeOK
  BY BackupInvariant, PTL DEF BackupInv

(* Whatever can be started is one state of all databases.                   *)
THEOREM WhatStartsIsWhole == Spec => []StartableIsWhole
  <1>1. BackupInv => StartableIsWhole
    BY DEF BackupInv, DirectoryInv, WholeInv, Startable, StartableIsWhole
  <1> QED
    BY <1>1, BackupInvariant, PTL

(* Permits in a restored directory are for approvals given there, after the *)
(* restore was acknowledged there.                                          *)
THEOREM PermitsAreIssuedAnew == Spec => IssuedAnew
  <1> DEFINE A == \A d \in Directories, p \in Plans :
                    since[d].restored /\ p \notin control[d].issued
                      /\ call'[d] = [at |-> "record", plan |-> p] =>
                        since[d].acknowledged /\ p \in since[d].approved
  <1>1. ASSUME BackupInv, [Next]_vars, NEW d \in Directories, NEW p \in Plans,
               since[d].restored, p \notin control[d].issued,
               call'[d] = [at |-> "record", plan |-> p]
        PROVE  since[d].acknowledged /\ p \in since[d].approved
    <2>1. DirectoryInv(d) /\ call[d] # call'[d]
      <3>1. call'[d].plan = p /\ call'[d] # NoCall
        BY <1>1 DEF NoCall
      <3> QED
        BY <1>1, <3>1 DEF BackupInv, DirectoryInv, ServerInv
    <2>2. Issue(d, p)
      <3>1. Next
        BY <1>1, <2>1 DEF vars
      <3>2. ASSUME NEW e \in Directories, Instance(e) PROVE Issue(d, p)
        <4>1. call \in [Directories -> [at : {"record", "send"}, plan : Plans] \cup {NoCall}]
              /\ call'[d] # NoCall /\ call'[d].at = "record" /\ call'[d].plan = p
          BY <1>1, CommandTypes DEF BackupInv, NoCall
        <4>2. CASE UNCHANGED call
          BY <2>1, <4>2
        <4>3. CASE Stop(e) \/ Send(e)
          <5>1. call' = [call EXCEPT ![e] = NoCall]
            BY <4>3 DEF Stop, Send
          <5> QED
            BY <2>1, <4>1, <5>1
        <4>4. CASE Record(e)
          <5>1. call' = [call EXCEPT ![e].at = "send"] /\ call[e] # NoCall
            BY <4>4 DEF Record, NoCall
          <5> QED
            BY <2>1, <4>1, <5>1
        <4>5. CASE \E q \in Plans : Issue(e, q)
          <5>1. PICK q \in Plans : Issue(e, q)
            BY <4>5
          <5>2. call' = [call EXCEPT ![e] = [at |-> "record", plan |-> q]]
            BY <5>1 DEF Issue
          <5>3. e = d /\ q = p
            BY <2>1, <4>1, <5>2
          <5> QED
            BY <5>1, <5>3
        <4> QED
          BY <3>2, <4>2, <4>3, <4>4, <4>5
             DEF Instance, Serve, RevokeAll, Acknowledge, Approve
      <3>3. UNCHANGED call \/ \E e \in Directories : Instance(e)
        BY <3>1 DEF Next, Begin, Work, Lock, Make, Mark, Copy, Unlock, Advance, Quarantine,
                    Unlink, Die
      <3> QED
        BY <2>1, <3>2, <3>3
    <2>3. Startable(d) /\ ~control[d].quarantine /\ control[d].approved[p] = control[d].generation
      BY <2>1, <2>2 DEF Issue, DirectoryInv, ServerInv
    <2> QED
      BY <1>1, <2>1, <2>3 DEF DirectoryInv, RestoreInv, Startable
  <1>2. BackupInv /\ [Next]_vars => [A]_vars
    BY <1>1
  <1> QED
    BY <1>2, BackupInvariant, PTL DEF Spec, IssuedAnew
=============================================================================
