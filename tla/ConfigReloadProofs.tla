------------------------- MODULE ConfigReloadProofs -------------------------
(***************************************************************************)
(* Proofs about ConfigReload.tla: type correctness; that a complete backup *)
(* is a set HAProxy accepts; that no number of failures and crashes costs  *)
(* both copies of a loadable haproxy.cfg; that one failure leaves a whole  *)
(* set HAProxy starts with; and that a rollback which reports success has  *)
(* restored one.  All but the first assume that operations do not overlap, *)
(* which the code does not enforce: with two overlapping threads TLC       *)
(* refutes them (MCConfigRace.cfg).                                        *)
(***************************************************************************)
EXTENDS ConfigReload, SequenceTheorems, TLAPS

\* At most one thread is in an operation.
OneActive ==
    \A s, t \in Threads : pc[s] # "idle" /\ pc[t] # "idle" => s = t

Copying == {"backup_copy", "backup_unverified", "promote", "restore", "restore_signal"}

\* Between two copies a thread stands at the first pair.
AtFirstPair(t) == pc[t] \notin Copying => at[t] = 1

\* From the verdict of haproxy -c to the end of what rests on it, the files on
\* disk load.
Validated == {"backup_copy", "reload", "start", "promote"}

ValidatedLoads(t) == pc[t] \in Validated => Loads(live)

\* The pairs a thread has copied since a verdict are in the backup.
CopiedSoFar(t) ==
    pc[t] \in {"backup_copy", "promote"} =>
        /\ at[t] > 1 => backup["cfg"] = live["cfg"]
        /\ at[t] > 2 => backup["map"] = live["map"]

\* The blocked-IP route promotes a map it has found well-formed.
PromotedMap(t) == pc[t] = "blk_promote" => live["map"] \notin BadMaps

\* A blind snapshot says so while it is taken.
BlindIsMarked(t) == pc[t] = "backup_unverified" => unverified

ThreadInv(t) ==
    /\ AtFirstPair(t) /\ ValidatedLoads(t) /\ CopiedSoFar(t)
    /\ PromotedMap(t) /\ BlindIsMarked(t)

\* No file HAProxy refuses is in a backup that was not taken blindly.
BackupClean == ~unverified => backup["cfg"] \notin BadCfgs /\ backup["map"] \notin BadMaps

BackupInv == TypeOK /\ OneActive /\ (\A t \in Threads : ThreadInv(t)) /\ BackupClean

GoodCfg(set) == set["cfg"] \in Cfgs \ BadCfgs

\* A rollback target exists and was not taken blindly.
Target == backup["cfg"] # Absent /\ ~unverified

\* A backup whose haproxy.cfg was cut short stands beside a live set that loads:
\* the next create_backup() will copy it again.
TornOnlyBesideGood == Target => GoodCfg(backup) \/ Loads(live)

\* From create_backup() to the end of the rollback the backup is to be relied on.
Relied == {"blocked", "map", "spoe", "cfg", "validate", "reload", "start", "restore",
           "restore_signal", "signal_restored"}

ReliedBackup(t) == pc[t] \in Relied => (Target => GoodCfg(backup))

\* The map a thread is about to write was read from the database.
SnapMap(t) == pc[t] \in {"map", "blk_map"} => snap[t].map \in Maps

CfgInv ==
    /\ BackupInv /\ TornOnlyBesideGood
    /\ \A t \in Threads : ReliedBackup(t) /\ SnapMap(t)
-----------------------------------------------------------------------------
\* Nothing has failed so far but, at most, the validation of one address.
Sound == faults.count = 0 \/ (faults.count = 1 /\ faults.malformed)

FaultsCounted == (faults.count = 0 => ~faults.malformed) /\ (Sound => ~unverified)

\* Only while a thread fills it from a set that loads does a backup that nothing
\* has gone wrong with not load itself.
Filling == {"backup_copy", "promote"}

SoundBackup ==
    Sound /\ backup["cfg"] # Absent /\ (\A t \in Threads : pc[t] \notin Filling) => Loads(backup)

\* Before the first failure the live files load outside the window in which they
\* are rewritten one by one.
Rewriting == {"map", "spoe", "cfg", "validate", "restore", "restore_signal"}

LiveServes ==
    faults.count = 0 /\ backup["cfg"] # Absent /\ (\A t \in Threads : pc[t] \notin Rewriting)
        => Loads(live)

\* Without a malformed address the maps read from the database are well-formed.
DbMap == ~faults.malformed => db.map \notin BadMaps

SnapGood(t) == ~faults.malformed /\ pc[t] \in {"map", "blk_map"} => snap[t].map \notin BadMaps

\* After at most one failure a rollback has a whole set to copy ...
ReliedSet(t) == pc[t] \in Relied /\ Target /\ faults.count <= 1 => Loads(backup)

\* ... and the pairs it has copied so far are those of the backup.
Restoring == {"restore", "restore_signal"}

RestoredSoFar(t) ==
    pc[t] \in Restoring /\ Target /\ faults.count <= 1 =>
        /\ at[t] > 1 => live["cfg"] = backup["cfg"]
        /\ at[t] > 2 => live["map"] = backup["map"]

RestoredLoads(t) ==
    pc[t] = "signal_restored" /\ ~unverified /\ faults.count <= 1 => Loads(live)

\* The map the blocked-IP route promotes is one it has written itself, next to a
\* backup of haproxy.cfg.
PromotedIsMap(t) == pc[t] = "blk_promote" => live["map"] \in Maps /\ backup["cfg"] # Absent

SetThread(t) ==
    /\ SnapMap(t) /\ SnapGood(t) /\ ReliedSet(t) /\ RestoredSoFar(t) /\ RestoredLoads(t)
    /\ PromotedIsMap(t)

SetFacts == FaultsCounted /\ SoundBackup /\ LiveServes /\ DbMap /\ NeverStranded

SetInv == BackupInv /\ SetFacts /\ \A t \in Threads : SetThread(t)
-----------------------------------------------------------------------------
\* Leaving an operation keeps the threads' own variables well typed.
LEMMA LeaveType ==
    ASSUME TypeOK, NEW t \in Threads, NEW label \in Labels, Leave(t, label)
    PROVE  /\ pc' \in [Threads -> Labels] /\ at' \in [Threads -> 1..3]
           /\ snap' \in [Threads -> [cfg: Cfgs \cup {Absent}, map: Maps \cup {Absent}]]
           /\ phase' \in Phases
  BY DEF TypeOK, Leave, NoSnap, Phases

LEMMA ReturnType ==
    ASSUME TypeOK, NEW t \in Threads, NEW result \in Outcomes, Return(t, result)
    PROVE  /\ pc' \in [Threads -> Labels] /\ at' \in [Threads -> 1..3]
           /\ snap' \in [Threads -> [cfg: Cfgs \cup {Absent}, map: Maps \cup {Absent}]]
           /\ phase' \in Phases
           /\ outcome' \in [Threads -> Outcomes]
  <1>1. PICK label \in Labels : Leave(t, label)
    BY DEF Return, Labels
  <1>2. outcome' \in [Threads -> Outcomes]
    BY DEF Return, TypeOK
  <1> QED BY <1>1, <1>2, LeaveType

LEMMA NextPairType ==
    ASSUME TypeOK, NEW t \in Threads, NEW label \in Labels, NextPair(t, label)
    PROVE  pc' \in [Threads -> Labels] /\ at' \in [Threads -> 1..3]
  <1>1. at[t] \in 1..3 /\ at \in [Threads -> 1..3] /\ pc \in [Threads -> Labels]
    BY DEF TypeOK
  <1>2. CASE at[t] < 3
    BY <1>1, <1>2 DEF NextPair
  <1>3. CASE ~(at[t] < 3)
    BY <1>1, <1>3 DEF NextPair, Goto
  <1> QED BY <1>2, <1>3

LEMMA GotoType ==
    ASSUME TypeOK, NEW t \in Threads, NEW label \in Labels, Goto(t, label)
    PROVE  pc' \in [Threads -> Labels]
  BY DEF TypeOK, Goto

\* A copy and a copy cut short are files, the pair copied is one of the three.
LEMMA CopyType ==
    ASSUME NEW dst \in [Files -> Contents], NEW src \in [Files -> Contents], NEW f \in Files
    PROVE  Copied(dst, src, f) \in [Files -> Contents] /\ CutShort(dst, f) \in [Files -> Contents]
  BY DEF Copied, CutShort, Contents

LEMMA PairType == ASSUME TypeOK, NEW t \in Threads PROVE _config_backup_pairs[at[t]] \in Files
  BY DEF TypeOK, _config_backup_pairs, Files

LEMMA FaultType == ASSUME TypeOK, NEW k, Fault(k) PROVE faults' \in Injected
  BY DEF TypeOK, Fault, Injected

\* What a reload, a start and a death leave of the masters.
LEMMA MastersType ==
    ASSUME TypeOK
    PROVE  /\ masters # <<>> => Reloaded \in Seq([Files -> Contents])
           /\ Started \in Seq([Files -> Contents])
           /\ masters # <<>> => /\ Tail(masters) \in Seq([Files -> Contents])
                                /\ SubSeq(masters, 1, Len(masters) - 1) \in Seq([Files -> Contents])
  <1>1. masters \in Seq([Files -> Contents]) /\ live \in [Files -> Contents]
    BY DEF TypeOK
  <1>2. ASSUME masters # <<>> PROVE Reloaded \in Seq([Files -> Contents])
    <2>1. Len(masters) \in 1..Len(masters)
      BY <1>1, <1>2
    <2> QED BY <1>1, <2>1, ExceptSeq DEF Reloaded
  <1>3. Started \in Seq([Files -> Contents])
    BY <1>1 DEF Started
  <1>4. ASSUME masters # <<>> PROVE Tail(masters) \in Seq([Files -> Contents])
    BY <1>1, <1>4
  <1>5. ASSUME masters # <<>>
        PROVE  SubSeq(masters, 1, Len(masters) - 1) \in Seq([Files -> Contents])
    <2>1. Len(masters) - 1 \in Int /\ \A i \in 1..(Len(masters) - 1) : masters[i] \in [Files -> Contents]
      BY <1>1, <1>5
    <2> QED BY <2>1, SubSeqProperties
  <1> QED BY <1>2, <1>3, <1>4, <1>5
-----------------------------------------------------------------------------
LEMMA GenerateType ==
    ASSUME TypeOK, NEW t \in Threads, generate_config(t)
    PROVE  TypeOK'
  <1> USE ConfigAssumption
  <1>1. CASE generate_config_read(t)
    BY <1>1, GotoType DEF generate_config_read, TypeOK, Labels
  <1>2. CASE create_backup(t)
    BY <1>2, GotoType, FaultType DEF create_backup, TypeOK, Labels
  <1>3. CASE create_backup_copy(t)
    <2>1. backup' \in [Files -> Contents]
      <3>1. PICK f \in Files : \/ backup' = Copied(backup, live, f)
                              \/ backup' = CutShort(backup, f)
        BY <1>3, PairType DEF create_backup_copy
      <3>2. live \in [Files -> Contents] /\ backup \in [Files -> Contents]
        BY DEF TypeOK
      <3> QED BY <3>1, <3>2, CopyType
    <2>2. \/ NextPair(t, "blocked") /\ UNCHANGED <<snap, outcome, phase, faults>>
          \/ Return(t, "failed") /\ Fault("copy")
      BY <1>3 DEF create_backup_copy
    <2>3. /\ pc' \in [Threads -> Labels] /\ at' \in [Threads -> 1..3]
          /\ snap' \in [Threads -> [cfg: Cfgs \cup {Absent}, map: Maps \cup {Absent}]]
          /\ phase' \in Phases
          /\ outcome' \in [Threads -> Outcomes] /\ faults' \in Injected
      BY <2>2, NextPairType, ReturnType, FaultType DEF TypeOK, Labels, Outcomes
    <2>4. unverified' \in BOOLEAN /\ UNCHANGED <<db, live, masters>>
      BY <1>3 DEF create_backup_copy, TypeOK
    <2> QED BY <2>1, <2>3, <2>4 DEF TypeOK
  <1>4. CASE update_blocked_ips_map_read(t)
    BY <1>4, GotoType DEF update_blocked_ips_map_read, TypeOK, Labels
  <1>5. CASE update_blocked_ips_map(t)
    <2>1. faults' \in Injected
      BY <1>5, FaultType DEF update_blocked_ips_map, TypeOK
    <2>2. live' \in [Files -> Contents]
      BY <1>5 DEF update_blocked_ips_map, TypeOK, Contents
    <2>3. pc' \in [Threads -> Labels]
      BY <1>5, GotoType DEF update_blocked_ips_map, TypeOK, Labels
    <2> QED BY <1>5, <2>1, <2>2, <2>3 DEF update_blocked_ips_map, TypeOK
  <1>6. CASE write_coraza_spoe(t)
    BY <1>6, GotoType, FaultType, ReturnType
       DEF write_coraza_spoe, WriteRendered, TypeOK, Labels, Outcomes, Contents
  <1>7. CASE write_haproxy_cfg(t)
    BY <1>7, GotoType, FaultType, ReturnType
       DEF write_haproxy_cfg, WriteRendered, TypeOK, Labels, Outcomes, Contents
  <1>8. CASE validate_haproxy_config(t)
    BY <1>8, GotoType, FaultType DEF validate_haproxy_config, TypeOK, Labels
  <1>9. CASE reload_haproxy_safely_reload(t)
    BY <1>9, GotoType, FaultType, MastersType DEF reload_haproxy_safely_reload, TypeOK, Labels
  <1>10. CASE reload_haproxy_safely_start(t)
    BY <1>10, GotoType, FaultType, ReturnType, MastersType
       DEF reload_haproxy_safely_start, TypeOK, Labels, Outcomes
  <1>11. CASE promote_current_config_to_backup(t)
    <2>1. backup' \in [Files -> Contents]
      <3>1. PICK f \in Files : \/ backup' = Copied(backup, live, f)
                              \/ backup' = CutShort(backup, f)
        BY <1>11, PairType DEF promote_current_config_to_backup
      <3>2. live \in [Files -> Contents] /\ backup \in [Files -> Contents]
        BY DEF TypeOK
      <3> QED BY <3>1, <3>2, CopyType
    <2>2. \/ NextPair(t, "idle") /\ UNCHANGED <<snap, outcome, phase, faults>>
          \/ Return(t, "ok") /\ (Fault("copy") \/ UNCHANGED faults)
      BY <1>11 DEF promote_current_config_to_backup
    <2>3. /\ pc' \in [Threads -> Labels] /\ at' \in [Threads -> 1..3]
          /\ snap' \in [Threads -> [cfg: Cfgs \cup {Absent}, map: Maps \cup {Absent}]]
          /\ phase' \in Phases
          /\ outcome' \in [Threads -> Outcomes] /\ faults' \in Injected
      BY <2>2, NextPairType, ReturnType, FaultType DEF TypeOK, Labels, Outcomes
    <2>4. unverified' \in BOOLEAN /\ UNCHANGED <<db, live, masters>>
      BY <1>11 DEF promote_current_config_to_backup, TypeOK
    <2> QED BY <2>1, <2>3, <2>4 DEF TypeOK
  <1>12. CASE restore_backup(t)
    <2>1. live' \in [Files -> Contents]
      <3>1. PICK f \in Files : \/ live' = Copied(live, backup, f)
                              \/ live' = CutShort(live, f)
                              \/ live' = live
        BY <1>12, PairType DEF restore_backup
      <3>2. live \in [Files -> Contents] /\ backup \in [Files -> Contents]
        BY DEF TypeOK
      <3> QED BY <3>1, <3>2, CopyType
    <2>2. \/ NextPair(t, "signal_restored") /\ UNCHANGED <<snap, outcome, phase>>
          \/ Return(t, "rolled_back") \/ Return(t, "rollback_failed")
      BY <1>12 DEF restore_backup
    <2>3. /\ pc' \in [Threads -> Labels] /\ at' \in [Threads -> 1..3]
          /\ snap' \in [Threads -> [cfg: Cfgs \cup {Absent}, map: Maps \cup {Absent}]]
          /\ phase' \in Phases
          /\ outcome' \in [Threads -> Outcomes]
      BY <2>2, NextPairType, ReturnType DEF TypeOK, Labels, Outcomes
    <2>4. faults' \in Injected /\ UNCHANGED <<db, backup, masters, unverified>>
      BY <1>12, FaultType DEF restore_backup, TypeOK
    <2> QED BY <2>1, <2>3, <2>4 DEF TypeOK
  <1>13. CASE reload_restored(t)
    BY <1>13, GotoType, ReturnType, FaultType, MastersType
       DEF reload_restored, TypeOK, Labels, Outcomes
  <1> QED BY <1>1, <1>2, <1>3, <1>4, <1>5, <1>6, <1>7, <1>8, <1>9, <1>10, <1>11,
             <1>12, <1>13 DEF generate_config

LEMMA StepType ==
    ASSUME TypeOK, NEW t \in Threads, Step(t)
    PROVE  TypeOK'
  <1>1. CASE generate_config(t)
    BY <1>1, GenerateType
  <1>2. CASE update_blocked_ips_map_route(t)
    BY <1>2, GotoType, FaultType, LeaveType
       DEF update_blocked_ips_map_route, TypeOK, Labels, Contents
  <1>3. CASE _promote_blocked_ips_map_to_backup(t)
    <2>1. "map" \in Files
      BY DEF Files
    <2>2. backup' \in [Files -> Contents]
      <3>1. \/ backup' = Copied(backup, live, "map")
            \/ backup' = CutShort(backup, "map")
        BY <1>3 DEF _promote_blocked_ips_map_to_backup
      <3>2. live \in [Files -> Contents] /\ backup \in [Files -> Contents]
        BY DEF TypeOK
      <3> QED BY <2>1, <3>1, <3>2, CopyType
    <2> QED BY <1>3, <2>2, GotoType, FaultType
            DEF _promote_blocked_ips_map_to_backup, TypeOK, Labels
  <1>4. CASE signal_haproxy(t)
    BY <1>4, FaultType, LeaveType, MastersType DEF signal_haproxy, TypeOK, Labels
  <1>5. CASE start_haproxy(t)
    BY <1>5, FaultType, LeaveType DEF start_haproxy, TypeOK, Labels
  <1>6. CASE start_haproxy_recheck(t)
    BY <1>6, FaultType, LeaveType DEF start_haproxy_recheck, TypeOK, Labels
  <1>7. CASE start_haproxy_launch(t)
    BY <1>7, FaultType, LeaveType, MastersType DEF start_haproxy_launch, TypeOK, Labels
  <1> QED BY <1>1, <1>2, <1>3, <1>4, <1>5, <1>6, <1>7 DEF Step

\* Whatever the sets of threads and contents are, every variable keeps its type.
THEOREM TypeCorrect == Spec => []TypeOK
  <1> USE ConfigAssumption
  <1>1. Init => TypeOK
    <2> SUFFICES ASSUME Init PROVE TypeOK
      OBVIOUS
    <2>1. live \in [Files -> Contents] /\ backup \in [Files -> Contents]
      BY DEF Init, Contents
    <2>2. masters \in Seq([Files -> Contents])
      BY DEF Init
    <2>3. pc \in [Threads -> Labels] /\ at \in [Threads -> 1..3]
      BY DEF Init, Labels
    <2>4. snap \in [Threads -> [cfg: Cfgs \cup {Absent}, map: Maps \cup {Absent}]]
      BY DEF Init, NoSnap
    <2> QED BY <2>1, <2>2, <2>3, <2>4 DEF Init, TypeOK, Outcomes, Phases, Injected
  <1>2. TypeOK /\ [Next]_vars => TypeOK'
    <2> SUFFICES ASSUME TypeOK, [Next]_vars PROVE TypeOK'
      OBVIOUS
    <2>1. ASSUME NEW t \in Threads, Step(t) PROVE TypeOK'
      BY <2>1, StepType
    <2>2. ASSUME NEW t \in Threads, Request(t) PROVE TypeOK'
      BY <2>2, GotoType, FaultType
         DEF Request, request_generate, request_block, request_reload, TypeOK, Labels, Outcomes
    <2>3. ASSUME NEW t \in Threads, process_exits(t) PROVE TypeOK'
      BY <2>3, LeaveType, FaultType DEF process_exits, Interrupted, TypeOK, Labels, Contents
    <2>4. CASE ensure_haproxy
      BY <2>4, GotoType DEF ensure_haproxy, TypeOK, Labels, Outcomes, Threads
    <2>5. CASE haproxy_dies
      BY <2>5, MastersType DEF haproxy_dies, TypeOK
    <2>6. CASE container_restarts
      BY <2>6, FaultType
         DEF container_restarts, Booting, Interrupted, TypeOK, Labels, Outcomes, Contents, NoSnap,
             Phases
    <2>7. CASE container_ends
      BY <2>7, GotoType DEF container_ends, TypeOK, Labels, Phases, Threads
    <2>8. CASE container_starts
      BY <2>8 DEF container_starts, Booting, TypeOK, Labels, Outcomes, NoSnap, Phases
    <2>9. CASE UNCHANGED vars
      BY <2>9 DEF vars, TypeOK
    <2> QED BY <2>1, <2>2, <2>3, <2>4, <2>5, <2>6, <2>7, <2>8, <2>9 DEF Next
  <1> QED BY <1>1, <1>2, PTL DEF Spec
-----------------------------------------------------------------------------
\* A step moves only the thread that takes it, and that thread was in an operation.
LEMMA StepIsLocal ==
    ASSUME TypeOK, NEW t \in Threads, Step(t)
    PROVE  /\ pc[t] # "idle"
           /\ \A s \in Threads \ {t} : pc'[s] = pc[s] /\ at'[s] = at[s]
  <1>1. pc \in [Threads -> Labels] /\ at \in [Threads -> 1..3]
    BY DEF TypeOK
  <1>2. CASE generate_config(t)
    BY <1>1, <1>2
       DEF generate_config, generate_config_read, create_backup, create_backup_copy,
           update_blocked_ips_map_read, update_blocked_ips_map, write_coraza_spoe,
           write_haproxy_cfg, WriteRendered, validate_haproxy_config,
           reload_haproxy_safely_reload, reload_haproxy_safely_start,
           promote_current_config_to_backup, restore_backup, reload_restored,
           Goto, NextPair, Return, Leave
  <1>3. CASE ~generate_config(t)
    BY <1>1, <1>3
       DEF Step, update_blocked_ips_map_route, _promote_blocked_ips_map_to_backup,
           signal_haproxy, start_haproxy, start_haproxy_recheck, start_haproxy_launch,
           Goto, Leave
  <1> QED BY <1>2, <1>3

\* No thread's step is the end of the container.
LEMMA StepEndsNothing ==
    ASSUME NEW t \in Threads, Step(t), phase' = "ended"
    PROVE  phase = "ended"
  <1>1. CASE generate_config(t)
    BY <1>1
       DEF generate_config, generate_config_read, create_backup, create_backup_copy,
           update_blocked_ips_map_read, update_blocked_ips_map, write_coraza_spoe,
           write_haproxy_cfg, WriteRendered, validate_haproxy_config,
           reload_haproxy_safely_reload, reload_haproxy_safely_start,
           promote_current_config_to_backup, restore_backup, reload_restored, Return, Leave
  <1>2. CASE ~generate_config(t)
    BY <1>2
       DEF Step, update_blocked_ips_map_route, _promote_blocked_ips_map_to_backup,
           signal_haproxy, start_haproxy, start_haproxy_recheck, start_haproxy_launch, Leave
  <1> QED BY <1>1, <1>2

\* While the container is down no thread is at work.
DownIsIdle == phase = "ended" => \A t \in Threads : pc[t] = "idle"

LEMMA DownIsIdleStep ==
    ASSUME BackupInv, DownIsIdle, [Next]_vars
    PROVE  DownIsIdle'
  <1> SUFFICES ASSUME phase' = "ended" PROVE \A t \in Threads : pc'[t] = "idle"
    BY DEF DownIsIdle
  <1>0. TypeOK /\ OneActive
    BY DEF BackupInv
  <1>1. CASE \E t \in Threads : Step(t)
    BY <1>0, <1>1, StepEndsNothing, StepIsLocal DEF DownIsIdle
  <1>2. CASE \E t \in Threads : Request(t) \/ process_exits(t)
    BY <1>2 DEF Request, request_generate, request_block, request_reload, process_exits, MayBegin,
                Leave
  <1>3. CASE ensure_haproxy \/ container_restarts \/ container_starts
    BY <1>3 DEF ensure_haproxy, MayBegin, container_restarts, container_starts, Booting
  <1>4. CASE container_ends
    BY <1>0, <1>4 DEF container_ends, Goto, OneActive, TypeOK, Threads
  <1>5. CASE haproxy_dies \/ UNCHANGED vars
    BY <1>5 DEF haproxy_dies, vars, DownIsIdle
  <1> QED BY <1>1, <1>2, <1>3, <1>4, <1>5 DEF Next

\* When only t moves, the other threads are idle before and after.
LEMMA OthersIdle ==
    ASSUME BackupInv, NEW t \in Threads, pc[t] # "idle",
           \A s \in Threads \ {t} : pc'[s] = pc[s] /\ at'[s] = at[s]
    PROVE  OneActive' /\ \A s \in Threads \ {t} : pc'[s] = "idle" /\ ThreadInv(s)'
  <1>1. \A s \in Threads \ {t} : pc[s] = "idle"
    BY DEF BackupInv, OneActive
  <1>2. \A s \in Threads \ {t} : at[s] = 1
    BY <1>1 DEF BackupInv, ThreadInv, AtFirstPair, Copying
  <1>3. \A s \in Threads \ {t} : ThreadInv(s)'
    BY <1>1, <1>2
       DEF ThreadInv, AtFirstPair, ValidatedLoads, Validated, CopiedSoFar, PromotedMap, BlindIsMarked
  <1> QED BY <1>1, <1>3 DEF OneActive

\* The labels at which nothing is being copied and nothing rests on a verdict.
Quiet == Labels \ {"backup_copy", "backup_unverified", "reload", "start", "promote",
                   "blk_promote", "restore", "restore_signal"}

LEMMA QuietThread ==
    ASSUME NEW t \in Threads, pc'[t] \in Quiet, at'[t] = 1
    PROVE  ThreadInv(t)'
  BY DEF Quiet, Labels, ThreadInv, AtFirstPair, ValidatedLoads, Validated, CopiedSoFar,
         PromotedMap, BlindIsMarked

LEMMA LeaveQuiet ==
    ASSUME TypeOK, NEW t \in Threads, NEW label \in Quiet, Leave(t, label)
    PROVE  pc'[t] = label /\ ThreadInv(t)'
  <1>1. pc'[t] = label /\ at'[t] = 1
    BY DEF TypeOK, Leave
  <1> QED BY <1>1, QuietThread

LEMMA ReturnQuiet ==
    ASSUME TypeOK, NEW t \in Threads, NEW result, Return(t, result)
    PROVE  pc'[t] \in {"idle", "probe", "recheck", "read", "abort"} /\ ThreadInv(t)'
  <1>1. PICK label \in {"idle", "probe", "recheck", "read", "abort"} : Leave(t, label)
    BY DEF Return
  <1>2. label \in Quiet
    BY DEF Quiet, Labels
  <1> QED BY <1>1, <1>2, LeaveQuiet

LEMMA GotoQuiet ==
    ASSUME BackupInv, NEW t \in Threads, NEW label \in Quiet, Goto(t, label),
           pc[t] \notin Copying, UNCHANGED at
    PROVE  pc'[t] = label /\ ThreadInv(t)'
  <1>1. pc'[t] = label /\ at'[t] = 1
    BY DEF BackupInv, TypeOK, Goto, ThreadInv, AtFirstPair
  <1> QED BY <1>1, QuietThread
-----------------------------------------------------------------------------
\* One copy of a pair into the backup, from files HAProxy has accepted.
LEMMA CopyAccepted ==
    ASSUME TypeOK, NEW t \in Threads, Loads(live), CopiedSoFar(t),
           pc[t] \in {"backup_copy", "promote"},
           backup' = Copied(backup, live, _config_backup_pairs[at[t]]), UNCHANGED live
    PROVE  /\ at[t] = 1 => backup'["cfg"] = live["cfg"]
           /\ at[t] = 2 => backup'["cfg"] = live["cfg"] /\ backup'["map"] = live["map"]
           /\ at[t] = 3 => backup'["cfg"] = live["cfg"] /\ backup'["map"] = live["map"]
           /\ BackupClean => \/ backup'["cfg"] \notin BadCfgs /\ backup'["map"] \notin BadMaps
                             \/ unverified
  <1> USE ConfigAssumption
  <1>1. live["cfg"] # Absent /\ live["map"] # Absent
    BY DEF Loads
  <1>2. backup \in [Files -> Contents] /\ at[t] \in {1, 2, 3}
    BY DEF TypeOK
  <1>3. CASE at[t] = 1
    BY <1>1, <1>2, <1>3 DEF Copied, _config_backup_pairs, Files, BackupClean, Loads
  <1>4. CASE at[t] = 2
    BY <1>1, <1>2, <1>4 DEF Copied, _config_backup_pairs, Files, CopiedSoFar, BackupClean, Loads
  <1>5. CASE at[t] = 3
    BY <1>1, <1>2, <1>5 DEF Copied, _config_backup_pairs, Files, CopiedSoFar, BackupClean, Loads
  <1> QED BY <1>2, <1>3, <1>4, <1>5

\* A copy cut short puts no refused file anywhere.
LEMMA CutShortClean ==
    ASSUME TypeOK, NEW f, BackupClean, backup' = CutShort(backup, f), UNCHANGED unverified
    PROVE  BackupClean'
  BY ConfigAssumption DEF TypeOK, BackupClean, CutShort, Files

\* Where a thread stands after one pair.
LEMMA NextPairAt ==
    ASSUME TypeOK, NEW t \in Threads, NEW label, NextPair(t, label)
    PROVE  \/ at[t] \in {1, 2} /\ pc'[t] = pc[t] /\ at'[t] = at[t] + 1
           \/ at[t] = 3 /\ pc'[t] = label /\ at'[t] = 1
  <1>1. at[t] \in 1..3 /\ at \in [Threads -> 1..3] /\ pc \in [Threads -> Labels]
    BY DEF TypeOK
  <1>2. CASE at[t] < 3
    BY <1>1, <1>2 DEF NextPair
  <1>3. CASE ~(at[t] < 3)
    BY <1>1, <1>3 DEF NextPair, Goto
  <1> QED BY <1>2, <1>3

LEMMA CopyKeepsInv ==
    ASSUME BackupInv, NEW t \in Threads, create_backup_copy(t)
    PROVE  ThreadInv(t)' /\ BackupClean'
  <1> DEFINE f == _config_backup_pairs[at[t]]
  <1>0. TypeOK /\ ThreadInv(t) /\ BackupClean /\ at[t] \in {1, 2, 3}
    BY DEF BackupInv, TypeOK
  <1>1. CASE Return(t, "failed") /\ backup' = CutShort(backup, f) /\ UNCHANGED unverified
    BY <1>0, <1>1, ReturnQuiet, CutShortClean
  <1>2. CASE /\ pc[t] \in {"backup_copy", "backup_unverified"}
             /\ backup' = Copied(backup, live, f) /\ NextPair(t, "blocked")
             /\ unverified' = IF at[t] = 3 /\ pc[t] = "backup_copy" THEN FALSE ELSE unverified
             /\ UNCHANGED live
    <2>1. \/ at[t] \in {1, 2} /\ pc'[t] = pc[t] /\ at'[t] = at[t] + 1
          \/ at[t] = 3 /\ pc'[t] = "blocked" /\ at'[t] = 1
      BY <1>0, <1>2, NextPairAt
    <2>2. CASE pc[t] = "backup_copy"
      <3>1. Loads(live) /\ CopiedSoFar(t) /\ Loads(live)'
        BY <1>0, <1>2, <2>2 DEF ThreadInv, ValidatedLoads, Validated, Loads
      <3>2. /\ at[t] = 1 => backup'["cfg"] = live["cfg"]
            /\ at[t] = 2 => backup'["cfg"] = live["cfg"] /\ backup'["map"] = live["map"]
            /\ at[t] = 3 => backup'["cfg"] = live["cfg"] /\ backup'["map"] = live["map"]
            /\ (backup'["cfg"] \notin BadCfgs /\ backup'["map"] \notin BadMaps) \/ unverified
        BY <1>0, <1>2, <2>2, <3>1, CopyAccepted
      <3>3. BackupClean'
        BY <1>0, <1>2, <2>2, <3>1, <3>2 DEF BackupClean, Loads
      <3>4. CASE at[t] = 3
        BY <1>0, <2>1, <3>3, <3>4, QuietThread DEF Quiet, Labels
      <3>5. CASE at[t] \in {1, 2}
        BY <1>2, <2>1, <2>2, <3>1, <3>2, <3>3, <3>5
           DEF ThreadInv, AtFirstPair, Copying, ValidatedLoads, CopiedSoFar, PromotedMap,
               BlindIsMarked
      <3> QED BY <1>0, <3>4, <3>5
    <2>3. CASE pc[t] = "backup_unverified"
      <3>1. unverified /\ unverified'
        BY <1>0, <1>2, <2>3 DEF ThreadInv, BlindIsMarked
      <3>2. CASE at[t] = 3
        BY <1>0, <2>1, <3>1, <3>2, QuietThread DEF Quiet, Labels, BackupClean
      <3>3. CASE at[t] \in {1, 2}
        BY <2>1, <2>3, <3>1, <3>3
           DEF ThreadInv, AtFirstPair, Copying, ValidatedLoads, Validated, CopiedSoFar,
               PromotedMap, BlindIsMarked, BackupClean
      <3> QED BY <1>0, <3>2, <3>3
    <2> QED BY <1>2, <2>2, <2>3
  <1> QED BY <1>1, <1>2 DEF create_backup_copy

LEMMA PromoteKeepsInv ==
    ASSUME BackupInv, NEW t \in Threads, promote_current_config_to_backup(t)
    PROVE  ThreadInv(t)' /\ BackupClean'
  <1> DEFINE f == _config_backup_pairs[at[t]]
  <1>0. TypeOK /\ ThreadInv(t) /\ BackupClean /\ at[t] \in {1, 2, 3} /\ pc[t] = "promote"
    BY DEF BackupInv, TypeOK, promote_current_config_to_backup
  <1>1. CASE Return(t, "ok") /\ backup' = CutShort(backup, f) /\ UNCHANGED unverified
    BY <1>0, <1>1, ReturnQuiet, CutShortClean
  <1>2. CASE /\ backup' = Copied(backup, live, f) /\ UNCHANGED live
             /\ unverified' = IF at[t] = 3 THEN FALSE ELSE unverified
             /\ IF at[t] = 3 THEN Return(t, "ok") ELSE NextPair(t, "idle")
    <2>1. Loads(live) /\ CopiedSoFar(t) /\ Loads(live)'
      BY <1>0, <1>2 DEF ThreadInv, ValidatedLoads, Validated, Loads
    <2>2. /\ at[t] = 1 => backup'["cfg"] = live["cfg"]
          /\ at[t] = 2 => backup'["cfg"] = live["cfg"] /\ backup'["map"] = live["map"]
          /\ at[t] = 3 => backup'["cfg"] = live["cfg"] /\ backup'["map"] = live["map"]
          /\ (backup'["cfg"] \notin BadCfgs /\ backup'["map"] \notin BadMaps) \/ unverified
      BY <1>0, <1>2, <2>1, CopyAccepted
    <2>3. BackupClean'
      BY <1>0, <1>2, <2>1, <2>2 DEF BackupClean, Loads
    <2>4. CASE at[t] = 3
      BY <1>0, <1>2, <2>3, <2>4, ReturnQuiet
    <2>5. CASE at[t] \in {1, 2}
      <3>1. pc'[t] = "promote" /\ at'[t] = at[t] + 1
        BY <1>0, <1>2, <2>5, NextPairAt
      <3> QED BY <1>2, <2>1, <2>2, <2>3, <2>5, <3>1
              DEF ThreadInv, AtFirstPair, Copying, ValidatedLoads, CopiedSoFar, PromotedMap,
                  BlindIsMarked
    <2> QED BY <1>0, <2>4, <2>5
  <1> QED BY <1>1, <1>2 DEF promote_current_config_to_backup

\* The steps of generate_config() that leave the backup alone.
LEMMA GenerateKeepsInv ==
    ASSUME BackupInv, NEW t \in Threads, generate_config(t)
    PROVE  ThreadInv(t)' /\ BackupClean'
  <1>0. TypeOK /\ ThreadInv(t) /\ BackupClean
    BY DEF BackupInv
  <1>1. CASE create_backup_copy(t)
    BY <1>1, CopyKeepsInv
  <1>2. CASE promote_current_config_to_backup(t)
    BY <1>2, PromoteKeepsInv
  <1>3. CASE create_backup(t)
    <2>1. BackupClean' /\ UNCHANGED at
      BY <1>0, <1>3 DEF create_backup, _config_set_matches_backup, BackupClean
    <2>2. pc[t] \notin Copying /\ at[t] = 1
      BY <1>0, <1>3 DEF create_backup, Copying, ThreadInv, AtFirstPair
    <2>3. CASE Goto(t, "blocked")
      BY <2>1, <2>2, <2>3, GotoQuiet DEF Quiet, Labels
    <2>4. CASE Goto(t, "backup_copy") /\ Loads(live) /\ UNCHANGED live
      <3>1. pc'[t] = "backup_copy" /\ at'[t] = 1 /\ Loads(live)'
        BY <1>0, <2>1, <2>2, <2>4 DEF TypeOK, Goto, Loads
      <3> QED BY <2>1, <3>1 DEF ThreadInv, AtFirstPair, Copying, ValidatedLoads, CopiedSoFar,
                               PromotedMap, BlindIsMarked
    <2>5. CASE Goto(t, "backup_unverified") /\ unverified' = TRUE
      <3>1. pc'[t] = "backup_unverified"
        BY <1>0, <2>5 DEF TypeOK, Goto
      <3> QED BY <2>1, <2>5, <3>1 DEF ThreadInv, AtFirstPair, Copying, ValidatedLoads, Validated,
                               CopiedSoFar, PromotedMap, BlindIsMarked
    <2> QED BY <1>3, <2>3, <2>4, <2>5 DEF create_backup, _config_set_matches_backup
  <1>4. CASE \/ generate_config_read(t) \/ update_blocked_ips_map_read(t)
             \/ update_blocked_ips_map(t)
    <2>1. BackupClean' /\ UNCHANGED at /\ pc[t] \notin Copying
      BY <1>0, <1>4 DEF generate_config_read, update_blocked_ips_map_read, update_blocked_ips_map,
                   BackupClean, Copying
    <2>2. PICK label \in {"backup", "map", "blk_map", "spoe", "cfg"} : Goto(t, label)
      BY <1>4 DEF generate_config_read, update_blocked_ips_map_read, update_blocked_ips_map
    <2> QED BY <2>1, <2>2, GotoQuiet DEF Quiet, Labels
  <1>5. CASE write_coraza_spoe(t) \/ write_haproxy_cfg(t)
    <2>1. BackupClean' /\ pc[t] \notin Copying
      BY <1>0, <1>5 DEF write_coraza_spoe, write_haproxy_cfg, WriteRendered, BackupClean, Copying
    <2>2. CASE Return(t, "failed")
      BY <1>0, <2>1, <2>2, ReturnQuiet
    <2>3. CASE (Goto(t, "cfg") \/ Goto(t, "validate")) /\ UNCHANGED at
      BY <2>1, <2>3, GotoQuiet DEF Quiet, Labels
    <2> QED BY <1>5, <2>2, <2>3 DEF write_coraza_spoe, write_haproxy_cfg, WriteRendered
  <1>6. CASE validate_haproxy_config(t)
    <2>1. BackupClean' /\ pc[t] \notin Copying /\ UNCHANGED <<at, live>> /\ at[t] = 1
      BY <1>0, <1>6 DEF validate_haproxy_config, BackupClean, Copying, ThreadInv, AtFirstPair
    <2>2. \/ pc'[t] \in {"reload", "start"} /\ Loads(live)'
          \/ pc'[t] = "restore"
      BY <1>0, <1>6 DEF validate_haproxy_config, TypeOK, Goto, Loads
    <2> QED BY <2>1, <2>2 DEF ThreadInv, AtFirstPair, Copying, ValidatedLoads, Validated,
                             CopiedSoFar, PromotedMap, BlindIsMarked
  <1>7. CASE reload_haproxy_safely_reload(t)
    <2>1. BackupClean' /\ UNCHANGED <<at, live, unverified>> /\ at[t] = 1 /\ Loads(live)'
      BY <1>0, <1>7 DEF reload_haproxy_safely_reload, BackupClean, Copying, ThreadInv,
                   AtFirstPair, ValidatedLoads, Validated, Loads
    <2>2. pc'[t] \in {"promote", "restore", "restore_signal"}
      BY <1>0, <1>7 DEF reload_haproxy_safely_reload, TypeOK, Goto
    <2> QED BY <2>1, <2>2 DEF ThreadInv, AtFirstPair, Copying, ValidatedLoads, Validated,
                             CopiedSoFar, PromotedMap, BlindIsMarked
  <1>8. CASE reload_haproxy_safely_start(t)
    <2>1. BackupClean' /\ UNCHANGED <<live, unverified>> /\ at[t] = 1 /\ Loads(live)'
      BY <1>0, <1>8 DEF reload_haproxy_safely_start, BackupClean, Copying, ThreadInv,
                   AtFirstPair, ValidatedLoads, Validated, Loads
    <2>2. CASE Return(t, "failed")
      BY <1>0, <2>1, <2>2, ReturnQuiet
    <2>3. CASE (Goto(t, "promote") \/ Goto(t, "restore")) /\ UNCHANGED at
      <3>1. pc'[t] \in {"promote", "restore"}
        BY <1>0, <2>3 DEF TypeOK, Goto
      <3> QED BY <2>1, <2>3, <3>1 DEF ThreadInv, AtFirstPair, Copying, ValidatedLoads, Validated,
                                     CopiedSoFar, PromotedMap, BlindIsMarked
    <2> QED BY <1>8, <2>2, <2>3 DEF reload_haproxy_safely_start
  <1>9. CASE restore_backup(t)
    <2>1. BackupClean' /\ pc[t] \in {"restore", "restore_signal"}
      BY <1>0, <1>9 DEF restore_backup, BackupClean
    <2>2. CASE \E result : Return(t, result)
      BY <1>0, <2>1, <2>2, ReturnQuiet
    <2>3. CASE NextPair(t, "signal_restored")
      <3>1. \/ pc'[t] \in {"restore", "restore_signal"}
            \/ pc'[t] = "signal_restored" /\ at'[t] = 1
        BY <1>0, <2>1, <2>3, NextPairAt
      <3> QED BY <2>1, <3>1 DEF ThreadInv, AtFirstPair, Copying, ValidatedLoads, Validated,
                               CopiedSoFar, PromotedMap, BlindIsMarked
    <2> QED BY <1>9, <2>2, <2>3 DEF restore_backup
  <1>10. CASE reload_restored(t)
    <2>1. BackupClean' /\ UNCHANGED <<live, unverified>>
      BY <1>0, <1>10 DEF reload_restored, BackupClean
    <2>2. CASE Return(t, "rolled_back")
      BY <1>0, <2>1, <2>2, ReturnQuiet
    <2>3. CASE Goto(t, "restore")
      <3>1. pc'[t] = "restore"
        BY <1>0, <2>3 DEF TypeOK, Goto
      <3> QED BY <2>1, <3>1 DEF ThreadInv, AtFirstPair, Copying, ValidatedLoads, Validated,
                               CopiedSoFar, PromotedMap, BlindIsMarked
    <2> QED BY <1>10, <2>2, <2>3 DEF reload_restored
  <1> QED BY <1>1, <1>2, <1>3, <1>4, <1>5, <1>6, <1>7, <1>8, <1>9, <1>10 DEF generate_config

\* The steps outside generate_config().
LEMMA StepKeepsInv ==
    ASSUME BackupInv, NEW t \in Threads, Step(t)
    PROVE  ThreadInv(t)' /\ BackupClean'
  <1>0. TypeOK /\ ThreadInv(t) /\ BackupClean
    BY DEF BackupInv
  <1>1. CASE generate_config(t)
    BY <1>1, GenerateKeepsInv
  <1>2. CASE update_blocked_ips_map_route(t)
    <2>1. BackupClean' /\ pc[t] \notin Copying /\ at[t] = 1
      BY <1>0, <1>2 DEF update_blocked_ips_map_route, BackupClean, Copying, ThreadInv, AtFirstPair
    <2>2. CASE Leave(t, "idle")
      BY <1>0, <2>1, <2>2, LeaveQuiet DEF Quiet, Labels
    <2>3. CASE Goto(t, "signal") /\ UNCHANGED at
      BY <2>1, <2>3, GotoQuiet DEF Quiet, Labels
    <2>4. CASE /\ Goto(t, "blk_promote") /\ UNCHANGED at /\ snap[t].map \notin BadMaps
               /\ live' = [live EXCEPT !["map"] = snap[t].map]
      <3>1. pc'[t] = "blk_promote" /\ at'[t] = 1 /\ live'["map"] \notin BadMaps
        BY <1>0, <2>1, <2>4 DEF TypeOK, Goto, Files
      <3> QED BY <2>1, <3>1 DEF ThreadInv, AtFirstPair, Copying, ValidatedLoads, Validated,
                               CopiedSoFar, PromotedMap, BlindIsMarked
    <2> QED BY <1>2, <2>2, <2>3, <2>4 DEF update_blocked_ips_map_route
  <1>3. CASE _promote_blocked_ips_map_to_backup(t)
    <2>1. pc[t] \notin Copying /\ UNCHANGED <<at, unverified>> /\ live["map"] \notin BadMaps
      BY <1>0, <1>3 DEF _promote_blocked_ips_map_to_backup, Copying, ThreadInv, PromotedMap
    <2>2. ThreadInv(t)'
      BY <1>3, <2>1, GotoQuiet DEF _promote_blocked_ips_map_to_backup, Quiet, Labels
    <2>3. BackupClean'
      BY <1>0, <1>3, <2>1, CutShortClean
         DEF _promote_blocked_ips_map_to_backup, BackupClean, Copied, TypeOK, Files
    <2> QED BY <2>2, <2>3
  <1>4. CASE \/ signal_haproxy(t) \/ start_haproxy(t) \/ start_haproxy_recheck(t)
             \/ start_haproxy_launch(t)
    <2>1. BackupClean'
      BY <1>0, <1>4 DEF signal_haproxy, start_haproxy, start_haproxy_recheck, start_haproxy_launch,
                   BackupClean
    <2>2. PICK label \in {"idle", "launch", "read"} : Leave(t, label)
      BY <1>4 DEF signal_haproxy, start_haproxy, start_haproxy_recheck, start_haproxy_launch
    <2> QED BY <1>0, <2>1, <2>2, LeaveQuiet DEF Quiet, Labels
  <1> QED BY <1>1, <1>2, <1>3, <1>4 DEF Step

\* A request, or the supervisor, begins only when nothing is under way.
LEMMA BeginKeepsInv ==
    ASSUME Serialized, BackupInv, NEW t \in Threads, MayBegin(t),
           NEW label \in Quiet, Goto(t, label), UNCHANGED <<at, backup, unverified>>
    PROVE  OneActive' /\ (\A s \in Threads : ThreadInv(s)') /\ BackupClean'
  <1>1. \A s \in Threads : pc[s] = "idle" /\ at[s] = 1
    BY DEF MayBegin, BackupInv, ThreadInv, AtFirstPair, Copying
  <1>2. pc'[t] = label /\ \A s \in Threads \ {t} : pc'[s] = "idle"
    BY <1>1 DEF BackupInv, TypeOK, Goto
  <1>3. \A s \in Threads : pc'[s] \in Quiet /\ at'[s] = 1
    BY <1>1, <1>2 DEF Quiet, Labels
  <1> QED BY <1>2, <1>3, QuietThread DEF BackupInv, BackupClean, OneActive

\* Copies cut short by the end of their process put no refused file in the backup.
LEMMA InterruptedClean ==
    ASSUME TypeOK, NEW S \in SUBSET Threads, BackupClean, Interrupted(S), UNCHANGED unverified
    PROVE  BackupClean'
  <1>1. \A f \in Files : backup'[f] \in {backup[f], Torn}
    BY DEF Interrupted
  <1> QED BY <1>1, ConfigAssumption DEF BackupClean, Files

LEMMA BackupInvStep ==
    ASSUME Serialized, BackupInv, [Next]_vars, TypeOK'
    PROVE  BackupInv'
  <1>0. TypeOK /\ OneActive /\ (\A t \in Threads : ThreadInv(t)) /\ BackupClean
    BY DEF BackupInv
  <1>1. ASSUME NEW t \in Threads, Step(t) PROVE BackupInv'
    BY <1>0, <1>1, StepIsLocal, OthersIdle, StepKeepsInv DEF BackupInv
  <1>2. ASSUME NEW t \in Threads, Request(t) PROVE BackupInv'
    <2>1. /\ MayBegin(t) /\ UNCHANGED <<at, backup, unverified>>
          /\ \E label \in Quiet : Goto(t, label)
      BY <1>2 DEF Request, request_generate, request_block, request_reload, Quiet, Labels
    <2> QED BY <2>1, BeginKeepsInv DEF BackupInv
  <1>3. CASE ensure_haproxy
    <2>1. /\ MayBegin(Supervisor) /\ UNCHANGED <<at, backup, unverified>>
          /\ \E label \in Quiet : Goto(Supervisor, label)
      BY <1>3 DEF ensure_haproxy, Quiet, Labels
    <2> QED BY <2>1, BeginKeepsInv DEF BackupInv, Threads
  <1>4. ASSUME NEW t \in Threads, process_exits(t) PROVE BackupInv'
    <2>1. Leave(t, "idle") /\ pc[t] # "idle" /\ Interrupted({t}) /\ UNCHANGED unverified
      BY <1>4 DEF process_exits
    <2>2. \A s \in Threads \ {t} : pc'[s] = pc[s] /\ at'[s] = at[s]
      BY <1>0, <2>1 DEF TypeOK, Leave
    <2>3. ThreadInv(t)'
      BY <1>0, <2>1, LeaveQuiet DEF Quiet, Labels
    <2>4. BackupClean'
      BY <1>0, <2>1, InterruptedClean
    <2> QED BY <2>1, <2>2, <2>3, <2>4, OthersIdle DEF BackupInv
  <1>5. CASE container_restarts \/ container_starts
    <2>1. \A t \in Threads : pc'[t] = (IF t = Supervisor THEN "read" ELSE "idle") /\ at'[t] = 1
      BY <1>5 DEF container_restarts, container_starts, Booting
    <2>2. \A t \in Threads : ThreadInv(t)'
      BY <2>1, QuietThread DEF Quiet, Labels
    <2>3. CASE container_restarts
      BY <1>0, <2>1, <2>2, <2>3, InterruptedClean DEF container_restarts, BackupInv, OneActive
    <2>4. CASE container_starts
      BY <1>0, <2>1, <2>2, <2>4 DEF container_starts, BackupClean, BackupInv, OneActive
    <2> QED BY <1>5, <2>3, <2>4
  <1>6. CASE haproxy_dies \/ UNCHANGED vars
    <2>1. UNCHANGED <<pc, at, live, backup, unverified>>
      BY <1>6 DEF haproxy_dies, vars
    <2>2. OneActive' /\ BackupClean' /\ \A t \in Threads : ThreadInv(t)'
      BY <1>0, <2>1 DEF OneActive, BackupClean, ThreadInv, AtFirstPair, ValidatedLoads, CopiedSoFar,
                   PromotedMap, BlindIsMarked, Loads
    <2> QED BY <2>2 DEF BackupInv
  <1>7. CASE container_ends
    <2>1. /\ pc[Supervisor] = "abort" /\ Goto(Supervisor, "idle")
          /\ UNCHANGED <<at, backup, unverified>>
      BY <1>7 DEF container_ends
    <2>2. Supervisor \in Threads
      BY DEF Threads
    <2>3. \A s \in Threads \ {Supervisor} : pc'[s] = pc[s] /\ at'[s] = at[s]
      BY <1>0, <2>1 DEF TypeOK, Goto
    <2>4. ThreadInv(Supervisor)'
      BY <2>1, <2>2, GotoQuiet DEF Quiet, Labels, Copying
    <2>5. BackupClean'
      BY <1>0, <2>1 DEF BackupClean
    <2> QED BY <2>1, <2>2, <2>3, <2>4, <2>5, OthersIdle DEF BackupInv
  <1> QED BY <1>1, <1>2, <1>3, <1>4, <1>5, <1>6, <1>7 DEF Next

LEMMA BackupInvHolds == ASSUME Serialized PROVE Spec => []BackupInv
  <1>1. Init /\ TypeOK => BackupInv
    <2> SUFFICES ASSUME Init, TypeOK PROVE BackupInv
      OBVIOUS
    <2>1. \A t \in Threads : pc[t] = (IF t = Supervisor THEN "read" ELSE "idle") /\ at[t] = 1
      BY DEF Init
    <2>2. \A t \in Threads : ThreadInv(t)
      BY <2>1 DEF ThreadInv, AtFirstPair, ValidatedLoads, Validated, CopiedSoFar, PromotedMap,
                  BlindIsMarked
    <2>3. BackupClean
      BY ConfigAssumption DEF Init, BackupClean, Files
    <2> QED BY <2>1, <2>2, <2>3 DEF BackupInv, OneActive
  <1>2. BackupInv /\ [Next]_vars /\ TypeOK' => BackupInv'
    BY BackupInvStep
  <1> QED BY <1>1, <1>2, TypeCorrect, PTL DEF Spec

\* However operations fail, crash and follow one another, as long as they do not
\* overlap: a complete backup that create_backup() did not take blindly is a set
\* of files HAProxy accepts - the rollback target is known to be good.
THEOREM BackupLoads == ASSUME Serialized PROVE Spec => []WholeBackupLoads
  <1>1. BackupInv => WholeBackupLoads
    BY DEF BackupInv, BackupClean, WholeBackupLoads, Whole, Loads
  <1> QED BY <1>1, BackupInvHolds, PTL
-----------------------------------------------------------------------------
\* The parts of CfgInv that speak of one thread.
CfgThread(t) == ReliedBackup(t) /\ SnapMap(t)

\* A thread at any other label than these asks nothing more of the files.
LEMMA UnreliedThread ==
    ASSUME NEW t \in Threads, pc'[t] \notin Relied \cup {"blk_map"}
    PROVE  CfgThread(t)'
  BY DEF CfgThread, ReliedBackup, SnapMap, Relied

LEMMA ReturnUnrelied ==
    ASSUME TypeOK, NEW t \in Threads, NEW result, Return(t, result)
    PROVE  CfgThread(t)'
  BY ReturnQuiet, UnreliedThread DEF Relied

LEMMA LeaveUnrelied ==
    ASSUME TypeOK, NEW t \in Threads, NEW label \in {"idle", "launch", "read"}, Leave(t, label)
    PROVE  CfgThread(t)'
  <1>1. pc'[t] = label
    BY DEF TypeOK, Leave
  <1> QED BY <1>1, UnreliedThread DEF Relied

\* A step that keeps both sets of files keeps what is said of them.
LEMMA SameFiles ==
    ASSUME TornOnlyBesideGood, UNCHANGED <<live, backup>>,
           unverified' = unverified \/ unverified' = TRUE
    PROVE  TornOnlyBesideGood'
  BY DEF TornOnlyBesideGood, Target, GoodCfg, Loads

\* While the backup is relied on, a step that leaves it alone leaves it good,
\* whatever happens to the live files.
LEMMA BackupStaysRelied ==
    ASSUME CfgInv, NEW t \in Threads, pc[t] \in Relied, UNCHANGED <<backup, unverified>>
    PROVE  (Target => GoodCfg(backup))' /\ TornOnlyBesideGood'
  BY DEF CfgInv, ReliedBackup, TornOnlyBesideGood, Target, GoodCfg

\* A step from one relied label to another.
LEMMA RelyOn ==
    ASSUME CfgInv, NEW t \in Threads, pc[t] \in Relied, UNCHANGED <<backup, unverified>>,
           pc'[t] # "map"
    PROVE  TornOnlyBesideGood' /\ (pc'[t] # "blk_map" => CfgThread(t)')
  BY BackupStaysRelied DEF CfgThread, ReliedBackup, SnapMap

\* generate_config(): the snapshot is relied on from create_backup() to the end
\* of the rollback, the files it was taken from while it is being taken.
LEMMA GenerateKeepsCfg ==
    ASSUME CfgInv, BackupInv', NEW t \in Threads, generate_config(t)
    PROVE  TornOnlyBesideGood' /\ CfgThread(t)'
  <1>0. TypeOK /\ ThreadInv(t) /\ BackupClean /\ TornOnlyBesideGood /\ TypeOK' /\ ThreadInv(t)'
    BY DEF CfgInv, BackupInv
  <1>1. CASE generate_config_read(t)
    <2>1. pc'[t] = "backup" /\ UNCHANGED <<live, backup, unverified>>
      BY <1>0, <1>1 DEF generate_config_read, TypeOK, Goto
    <2> QED BY <1>0, <2>1, SameFiles, UnreliedThread DEF Relied
  <1>2. CASE create_backup(t)
    <2>1. TornOnlyBesideGood'
      BY <1>0, <1>2, SameFiles DEF create_backup, _config_set_matches_backup
    <2>2. CASE pc'[t] \in {"backup_copy", "backup_unverified"}
      BY <2>1, <2>2, UnreliedThread DEF Relied
    <2>3. CASE /\ pc'[t] = "blocked" /\ UNCHANGED <<backup, unverified>>
               /\ live["cfg"] = Absent \/ live = backup \/ ~Loads(live)
      <3>1. Target => GoodCfg(backup)
        BY <1>0, <2>3, ConfigAssumption DEF TornOnlyBesideGood, GoodCfg, Loads
      <3> QED BY <2>1, <2>3, <3>1 DEF CfgThread, ReliedBackup, SnapMap, Target, GoodCfg
    <2> QED BY <1>0, <1>2, <2>2, <2>3 DEF create_backup, _config_set_matches_backup, TypeOK, Goto
  <1>3. CASE create_backup_copy(t)
    <2>1. pc[t] = "backup_copy" => Loads(live) /\ CopiedSoFar(t)
      BY <1>0 DEF ThreadInv, ValidatedLoads, Validated
    <2>2. pc[t] = "backup_unverified" => unverified /\ unverified'
      <3>1. pc[t] = "backup_unverified" => unverified
        BY <1>0 DEF ThreadInv, BlindIsMarked
      <3>2. pc[t] = "backup_unverified" => unverified' = unverified
        BY <1>3 DEF create_backup_copy
      <3> QED BY <3>1, <3>2
    <2>3. TornOnlyBesideGood'
      BY <1>3, <2>1, <2>2 DEF create_backup_copy, TornOnlyBesideGood, Target, Loads
    <2>4. CASE Return(t, "failed")
      BY <1>0, <2>3, <2>4, ReturnUnrelied
    <2>5. CASE NextPair(t, "blocked") /\ backup' = Copied(backup, live, _config_backup_pairs[at[t]])
      <3>1. \/ pc'[t] = pc[t]
            \/ at[t] = 3 /\ pc'[t] = "blocked"
        BY <1>0, <2>5, NextPairAt
      <3>2. CASE pc'[t] = pc[t]
        BY <1>3, <2>3, <3>2, UnreliedThread DEF create_backup_copy, Relied
      <3>3. CASE at[t] = 3 /\ pc'[t] = "blocked"
        <4>1. Target' => GoodCfg(backup)'
          <5>1. CASE pc[t] = "backup_copy"
            <6>1. backup'["cfg"] = live["cfg"]
              BY <1>0, <1>3, <2>1, <2>5, <3>3, <5>1, CopyAccepted DEF create_backup_copy
            <6> QED BY <2>1, <5>1, <6>1 DEF GoodCfg, Loads
          <5> QED BY <1>3, <2>2, <5>1 DEF create_backup_copy, Target
        <4> QED BY <2>3, <3>3, <4>1 DEF CfgThread, ReliedBackup, SnapMap
      <3> QED BY <3>1, <3>2, <3>3
    <2> QED BY <1>3, <2>4, <2>5 DEF create_backup_copy
  <1>4. CASE update_blocked_ips_map_read(t)
    <2>1. /\ snap'[t].map \in Maps /\ UNCHANGED <<live, backup, unverified>>
          /\ \/ pc[t] = "blocked" /\ pc'[t] = "map"
             \/ pc[t] = "blk_read" /\ pc'[t] = "blk_map"
      BY <1>0, <1>4 DEF update_blocked_ips_map_read, TypeOK, Goto
    <2>2. CASE pc[t] = "blocked"
      <3>1. (Target => GoodCfg(backup))' /\ TornOnlyBesideGood'
        BY <2>1, <2>2, BackupStaysRelied DEF Relied
      <3> QED BY <2>1, <3>1 DEF CfgThread, ReliedBackup, SnapMap
    <2>3. CASE pc[t] = "blk_read"
      <3>1. TornOnlyBesideGood'
        BY <1>0, <2>1, SameFiles
      <3> QED BY <2>1, <2>3, <3>1 DEF CfgThread, ReliedBackup, SnapMap, Relied
    <2> QED BY <2>1, <2>2, <2>3
  <1>5. CASE update_blocked_ips_map(t)
    <2>1. pc[t] = "map" /\ pc'[t] \in {"spoe", "cfg"} /\ UNCHANGED <<backup, unverified>>
      BY <1>0, <1>5 DEF update_blocked_ips_map, TypeOK, Goto
    <2> QED BY <2>1, RelyOn DEF Relied
  <1>6. CASE write_coraza_spoe(t) \/ write_haproxy_cfg(t)
    <2>1. pc[t] \in {"spoe", "cfg"} /\ UNCHANGED <<backup, unverified>>
      BY <1>6 DEF write_coraza_spoe, write_haproxy_cfg, WriteRendered
    <2>2. pc'[t] \notin {"map", "blk_map"}
      BY <1>0, <1>6, ReturnQuiet DEF write_coraza_spoe, write_haproxy_cfg, WriteRendered, TypeOK, Goto
    <2> QED BY <2>1, <2>2, RelyOn DEF Relied
  <1>7. CASE validate_haproxy_config(t) \/ reload_haproxy_safely_reload(t)
    <2>1. pc[t] \in {"validate", "reload"} /\ UNCHANGED <<backup, unverified>>
      BY <1>7 DEF validate_haproxy_config, reload_haproxy_safely_reload
    <2>2. pc'[t] \notin {"map", "blk_map"}
      BY <1>0, <1>7 DEF validate_haproxy_config, reload_haproxy_safely_reload, TypeOK, Goto
    <2> QED BY <2>1, <2>2, RelyOn DEF Relied
  <1>8. CASE reload_haproxy_safely_start(t)
    <2>1. pc[t] = "start" /\ UNCHANGED <<backup, unverified>>
      BY <1>8 DEF reload_haproxy_safely_start
    <2>2. pc'[t] \notin {"map", "blk_map"}
      BY <1>0, <1>8, ReturnQuiet DEF reload_haproxy_safely_start, TypeOK, Goto
    <2> QED BY <2>1, <2>2, RelyOn DEF Relied
  <1>9. CASE promote_current_config_to_backup(t)
    <2>1. Loads(live) /\ UNCHANGED live
      BY <1>0, <1>9 DEF promote_current_config_to_backup, ThreadInv, ValidatedLoads, Validated
    <2>2. TornOnlyBesideGood'
      BY <2>1 DEF TornOnlyBesideGood, Loads
    <2>3. CASE \E result : Return(t, result)
      BY <1>0, <2>2, <2>3, ReturnUnrelied
    <2>4. CASE NextPair(t, "idle")
      <3>1. pc'[t] \in {"promote", "idle"}
        BY <1>0, <1>9, <2>4, NextPairAt DEF promote_current_config_to_backup
      <3> QED BY <2>2, <3>1, UnreliedThread DEF Relied
    <2> QED BY <1>9, <2>3, <2>4 DEF promote_current_config_to_backup
  <1>10. CASE restore_backup(t)
    <2>1. pc[t] \in {"restore", "restore_signal"} /\ UNCHANGED <<backup, unverified>>
      BY <1>10 DEF restore_backup
    <2>2. pc'[t] \notin {"map", "blk_map"}
      <3>1. CASE \E result : Return(t, result)
        BY <1>0, <3>1, ReturnQuiet
      <3>2. CASE NextPair(t, "signal_restored")
        BY <1>0, <2>1, <3>2, NextPairAt
      <3> QED BY <1>10, <3>1, <3>2 DEF restore_backup
    <2> QED BY <2>1, <2>2, RelyOn DEF Relied
  <1>11. CASE reload_restored(t)
    <2>1. pc[t] = "signal_restored" /\ UNCHANGED <<backup, unverified>>
      BY <1>11 DEF reload_restored
    <2>2. pc'[t] \notin {"map", "blk_map"}
      BY <1>0, <1>11, ReturnQuiet DEF reload_restored, TypeOK, Goto
    <2> QED BY <2>1, <2>2, RelyOn DEF Relied
  <1> QED BY <1>1, <1>2, <1>3, <1>4, <1>5, <1>6, <1>7, <1>8, <1>9, <1>10, <1>11
          DEF generate_config

\* The steps outside generate_config(), for databases that hold no malformed row.
LEMMA StepKeepsCfg ==
    ASSUME BadMaps = {}, CfgInv, BackupInv', NEW t \in Threads, Step(t)
    PROVE  TornOnlyBesideGood' /\ CfgThread(t)'
  <1>0. TypeOK /\ ThreadInv(t) /\ TornOnlyBesideGood
    BY DEF CfgInv, BackupInv
  <1>1. CASE generate_config(t)
    BY <1>1, GenerateKeepsCfg
  <1>2. CASE update_blocked_ips_map_route(t)
    <2>1. snap[t].map \in Maps /\ UNCHANGED <<backup, unverified>>
      BY <1>2 DEF update_blocked_ips_map_route, CfgInv, SnapMap
    <2>2. Loads(live) => Loads(live)'
      BY <1>0, <1>2, <2>1 DEF update_blocked_ips_map_route, TypeOK, Loads, Files
    <2>3. TornOnlyBesideGood'
      BY <1>0, <2>1, <2>2 DEF TornOnlyBesideGood, Target, GoodCfg
    <2>4. CASE Leave(t, "idle")
      BY <1>0, <2>3, <2>4, LeaveUnrelied
    <2>5. CASE Goto(t, "signal") \/ Goto(t, "blk_promote")
      <3>1. pc'[t] \in {"signal", "blk_promote"}
        BY <1>0, <2>5 DEF TypeOK, Goto
      <3> QED BY <2>3, <3>1, UnreliedThread DEF Relied
    <2> QED BY <1>2, <2>4, <2>5 DEF update_blocked_ips_map_route
  <1>3. CASE _promote_blocked_ips_map_to_backup(t)
    <2>1. /\ pc'[t] = "signal" /\ UNCHANGED <<live, unverified>>
          /\ backup'["cfg"] = backup["cfg"]
      BY <1>0, <1>3 DEF _promote_blocked_ips_map_to_backup, TypeOK, Goto, Copied, CutShort, Files
    <2>2. TornOnlyBesideGood'
      BY <1>0, <2>1 DEF TornOnlyBesideGood, Target, GoodCfg, Loads
    <2> QED BY <2>1, <2>2, UnreliedThread DEF Relied
  <1>4. CASE \/ signal_haproxy(t) \/ start_haproxy(t) \/ start_haproxy_recheck(t)
             \/ start_haproxy_launch(t)
    <2>1. UNCHANGED <<live, backup, unverified>>
      BY <1>4 DEF signal_haproxy, start_haproxy, start_haproxy_recheck, start_haproxy_launch
    <2>2. PICK label \in {"idle", "launch", "read"} : Leave(t, label)
      BY <1>4 DEF signal_haproxy, start_haproxy, start_haproxy_recheck, start_haproxy_launch
    <2> QED BY <1>0, <2>1, <2>2, SameFiles, LeaveUnrelied
  <1> QED BY <1>1, <1>2, <1>3, <1>4 DEF Step

\* A process that ends in the middle of a copy spoils one of the two sets, and
\* then the other is the one relied on.
LEMMA InterruptedKeepsCfg ==
    ASSUME CfgInv, NEW S \in SUBSET Threads, Interrupted(S), UNCHANGED unverified
    PROVE  TornOnlyBesideGood'
  <1>0. TypeOK /\ OneActive /\ (\A t \in Threads : ThreadInv(t)) /\ TornOnlyBesideGood
    BY DEF CfgInv, BackupInv
  <1>1. CASE \E t \in S : IntoBackup(t) /\ pc[t] # "blk_promote"
    <2>1. PICK t \in S : IntoBackup(t) /\ pc[t] # "blk_promote"
      BY <1>1
    <2>2. \A s \in Threads : ~IntoLive(s)
      BY <1>0, <2>1 DEF OneActive, IntoBackup, IntoLive
    <2>3. live' = live
      BY <1>0, <2>2 DEF Interrupted, TypeOK
    <2>4. Loads(live) \/ unverified
      BY <1>0, <2>1 DEF IntoBackup, ThreadInv, ValidatedLoads, Validated, BlindIsMarked
    <2> QED BY <2>3, <2>4 DEF TornOnlyBesideGood, Target, Loads
  <1>2. CASE \E t \in S : IntoLive(t)
    <2>1. PICK t \in S : IntoLive(t)
      BY <1>2
    <2>2. \A s \in Threads : ~IntoBackup(s)
      BY <1>0, <2>1 DEF OneActive, IntoBackup, IntoLive
    <2>3. backup' = backup
      BY <1>0, <2>2 DEF Interrupted, TypeOK
    <2>4. Target => GoodCfg(backup)
      BY <2>1 DEF CfgInv, ReliedBackup, Relied, IntoLive
    <2> QED BY <2>3, <2>4 DEF TornOnlyBesideGood, Target, GoodCfg
  <1>3. CASE \A t \in S : ~IntoLive(t) /\ (IntoBackup(t) => pc[t] = "blk_promote")
    <2>1. live' = live
      BY <1>0, <1>3 DEF Interrupted, TypeOK
    <2>2. backup'["cfg"] = backup["cfg"]
      BY <1>0, <1>3 DEF Interrupted, InFlight, Files
    <2> QED BY <1>0, <2>1, <2>2 DEF TornOnlyBesideGood, Target, GoodCfg, Loads
  <1> QED BY <1>1, <1>2, <1>3

LEMMA CfgInvStep ==
    ASSUME BadMaps = {}, Serialized, CfgInv, [Next]_vars, BackupInv'
    PROVE  CfgInv'
  <1>0. TypeOK /\ OneActive /\ (\A t \in Threads : ThreadInv(t)) /\ TornOnlyBesideGood
    BY DEF CfgInv, BackupInv
  <1>1. ASSUME NEW t \in Threads, Step(t) PROVE CfgInv'
    <2>1. \A s \in Threads \ {t} : pc'[s] = "idle"
      BY <1>0, <1>1, StepIsLocal DEF OneActive
    <2>2. \A s \in Threads \ {t} : CfgThread(s)'
      BY <2>1, UnreliedThread DEF Relied
    <2> QED BY <1>1, <2>2, StepKeepsCfg DEF CfgInv, CfgThread
  <1>2. ASSUME NEW t \in Threads, Request(t) \/ (t = Supervisor /\ ensure_haproxy) PROVE CfgInv'
    <2>1. /\ MayBegin(t) /\ UNCHANGED <<live, backup, unverified>>
          /\ \E label \in {"read", "blk_read", "signal", "launch", "probe"} : Goto(t, label)
      BY <1>2 DEF Request, request_generate, request_block, request_reload, ensure_haproxy
    <2>2. \A s \in Threads : pc'[s] \in {"idle", "read", "blk_read", "signal", "launch", "probe"}
      BY <1>0, <2>1 DEF MayBegin, TypeOK, Goto
    <2>3. \A s \in Threads : CfgThread(s)'
      BY <2>2, UnreliedThread DEF Relied
    <2> QED BY <1>0, <2>1, <2>3, SameFiles DEF CfgInv, CfgThread
  <1>3. ASSUME NEW t \in Threads, process_exits(t) PROVE CfgInv'
    <2>1. Leave(t, "idle") /\ pc[t] # "idle" /\ Interrupted({t}) /\ UNCHANGED unverified
      BY <1>3 DEF process_exits
    <2>2. \A s \in Threads : pc'[s] = "idle"
      BY <1>0, <2>1 DEF TypeOK, OneActive, Leave
    <2>3. \A s \in Threads : CfgThread(s)'
      BY <2>2, UnreliedThread DEF Relied
    <2> QED BY <2>1, <2>3, InterruptedKeepsCfg DEF CfgInv, CfgThread
  <1>4. CASE container_restarts \/ container_ends \/ container_starts
    <2>1. \A t \in Threads : pc'[t] \in {"read", "idle"}
      BY <1>0, <1>4 DEF container_restarts, container_ends, container_starts, Booting, Goto,
                        OneActive, TypeOK, Threads
    <2>2. \A t \in Threads : CfgThread(t)'
      BY <2>1, UnreliedThread DEF Relied
    <2>3. CASE Interrupted(Threads) /\ UNCHANGED unverified
      BY <2>2, <2>3, InterruptedKeepsCfg DEF CfgInv, CfgThread
    <2>4. CASE UNCHANGED <<live, backup, unverified>>
      BY <1>0, <2>2, <2>4, SameFiles DEF CfgInv, CfgThread
    <2> QED BY <1>4, <2>3, <2>4 DEF container_restarts, container_ends, container_starts
  <1>5. CASE haproxy_dies \/ UNCHANGED vars
    <2>1. UNCHANGED <<pc, snap, live, backup, unverified>>
      BY <1>5 DEF haproxy_dies, vars
    <2>2. \A t \in Threads : CfgThread(t)'
      BY <2>1 DEF CfgInv, CfgThread, ReliedBackup, SnapMap, Target, GoodCfg
    <2> QED BY <1>0, <2>1, <2>2, SameFiles DEF CfgInv, CfgThread
  <1> QED BY <1>1, <1>2, <1>3, <1>4, <1>5 DEF Next, Threads

\* For a database without malformed addresses: however operations fail, crash and
\* follow one another without overlapping, once there is a rollback target the
\* haproxy.cfg on disk or its backup is one HAProxy accepts, at every step of
\* every operation, so that no failed change costs both.
THEOREM GoodCfgSurvives == ASSUME Serialized, BadMaps = {} PROVE Spec => []GoodCfgKept
  <1>1. Init /\ BackupInv => CfgInv
    <2> SUFFICES ASSUME Init, BackupInv PROVE CfgInv
      OBVIOUS
    <2>1. \A t \in Threads : pc[t] \in {"read", "idle"}
      BY DEF Init
    <2>2. \A t \in Threads : ReliedBackup(t) /\ SnapMap(t)
      BY <2>1 DEF ReliedBackup, SnapMap, Relied
    <2>3. TornOnlyBesideGood
      BY DEF Init, TornOnlyBesideGood, Target, Files
    <2> QED BY <2>2, <2>3 DEF CfgInv
  <1>2. CfgInv /\ [Next]_vars /\ BackupInv' => CfgInv'
    BY CfgInvStep
  <1>3. CfgInv => GoodCfgKept
    BY DEF CfgInv, TornOnlyBesideGood, GoodCfgKept, Target, GoodCfg, Loads
  <1> QED BY <1>1, <1>2, <1>3, BackupInvHolds, PTL DEF Spec
-----------------------------------------------------------------------------
(* Whole sets of files, up to the first failure and the one after it *)

\* A step injects no failure, or one that is not a malformed address.
Ordinary == UNCHANGED faults \/ \E k \in Faults \ {"malformed"} : Fault(k)

\* An ordinary failure is the end of Sound, and the first if there is only one.
LEMMA OrdinaryFaults ==
    ASSUME TypeOK, FaultsCounted, Ordinary
    PROVE  /\ faults'.malformed <=> faults.malformed
           /\ faults'.count <= 1 => faults.count <= 1
           /\ Sound' \/ faults'.count = 0 => faults' = faults
           /\ faults' # faults => (faults'.count <= 1 => faults.count = 0)
  <1>1. faults.count \in Nat
    BY DEF TypeOK, Injected
  <1>2. CASE UNCHANGED faults
    BY <1>2
  <1>3. CASE \E k \in Faults \ {"malformed"} : Fault(k)
    <2>0. PICK k \in Faults \ {"malformed"} : Fault(k)
      BY <1>3
    <2>1. faults'.count = faults.count + 1 /\ (faults'.malformed <=> faults.malformed)
      <3>1. faults'.count = faults.count + 1
        BY <2>0 DEF Fault
      <3>2. faults'.malformed = (faults.malformed \/ k = "malformed")
        BY <2>0, Zenon DEF Fault
      <3> QED BY <2>0, <3>1, <3>2
    <2>2. ~(faults'.count = 0) /\ (faults'.count <= 1 => faults.count = 0)
      BY <1>1, <2>1
    <2>3. ~Sound'
      BY <1>1, <2>1, <2>2 DEF Sound, FaultsCounted
    <2> QED BY <2>1, <2>2, <2>3
  <1> QED BY <1>2, <1>3 DEF Ordinary

\* One pair copied between two sets, the source of which loads.
LEMMA CopyOfLoading ==
    ASSUME NEW dst \in [Files -> Contents], NEW src \in [Files -> Contents], Loads(src),
           NEW n \in 1..3,
           n > 1 => dst["cfg"] = src["cfg"], n > 2 => dst["map"] = src["map"]
    PROVE  LET new == Copied(dst, src, _config_backup_pairs[n]) IN
           /\ new["cfg"] = src["cfg"]
           /\ n > 1 => new["map"] = src["map"]
           /\ n = 3 => Loads(new)
  <1> USE ConfigAssumption
  <1>1. src["cfg"] # Absent /\ src["map"] # Absent /\ (Coraza => src["spoe"] # Absent)
    BY DEF Loads
  <1>2. n \in {1, 2, 3}
    OBVIOUS
  <1>3. CASE n = 1
    BY <1>1, <1>3 DEF Copied, _config_backup_pairs, Files
  <1>4. CASE n = 2
    BY <1>1, <1>4 DEF Copied, _config_backup_pairs, Files
  <1>5. CASE n = 3
    BY <1>1, <1>5 DEF Copied, _config_backup_pairs, Files, Loads
  <1> QED BY <1>2, <1>3, <1>4, <1>5

\* A thread outside these labels asks nothing of the sets.
LEMMA SetQuiet ==
    ASSUME NEW t \in Threads, pc'[t] \notin Relied \cup {"blk_map", "blk_promote"}
    PROVE  SetThread(t)'
  BY DEF SetThread, SnapMap, SnapGood, ReliedSet, RestoredSoFar, RestoredLoads, PromotedIsMap,
         Relied, Restoring

LEMMA ReturnSetQuiet ==
    ASSUME TypeOK, NEW t \in Threads, NEW result, Return(t, result)
    PROVE  SetThread(t)' /\ pc'[t] \notin Filling \cup Rewriting
  BY ReturnQuiet, SetQuiet DEF Relied, Filling, Rewriting

LEMMA LeaveSetQuiet ==
    ASSUME TypeOK, NEW t \in Threads, NEW label \in {"idle", "launch", "read"}, Leave(t, label)
    PROVE  SetThread(t)'
  <1>1. pc'[t] = label
    BY DEF TypeOK, Leave
  <1> QED BY <1>1, SetQuiet DEF Relied

\* A step that keeps both sets and does not end a window keeps what is said of them.
LEMMA SameSets ==
    ASSUME SetInv, Ordinary, UNCHANGED <<db, live, backup>>,
           unverified' = unverified \/ (unverified' /\ faults' # faults),
           \A t \in Threads : \/ pc'[t] = pc[t]
                              \/ pc[t] \notin Filling \cup Rewriting
    PROVE  SetFacts'
  <1>0. TypeOK /\ FaultsCounted /\ SoundBackup /\ LiveServes /\ DbMap /\ NeverStranded
    BY DEF SetInv, SetFacts, BackupInv
  <1>1. /\ faults'.malformed <=> faults.malformed
        /\ faults'.count <= 1 => faults.count <= 1
        /\ Sound' \/ faults'.count = 0 => faults' = faults
    BY <1>0, OrdinaryFaults
  <1>2. Sound' => Sound /\ unverified' = unverified
    BY <1>1 DEF Sound
  <1>3. FaultsCounted'
    BY <1>0, <1>1, <1>2 DEF FaultsCounted
  <1>4. SoundBackup'
    BY <1>0, <1>2 DEF SoundBackup, Loads
  <1>5. LiveServes'
    BY <1>0, <1>1 DEF LiveServes, Loads
  <1>6. DbMap' /\ NeverStranded'
    BY <1>0, <1>1 DEF DbMap, NeverStranded, Loads
  <1> QED BY <1>3, <1>4, <1>5, <1>6 DEF SetFacts

\* A step at a label that relies on the backup leaves it alone; whatever it does to
\* the live files, the backup is there to go back to.
LEMMA ReliedStep ==
    ASSUME SetInv, NEW t \in Threads, pc[t] \in Relied,
           Ordinary, UNCHANGED <<db, backup, unverified>>,
           \/ pc'[t] \in Rewriting \/ backup["cfg"] = Absent
           \/ faults' # faults \/ (faults.count = 0 => Loads(live)')
    PROVE  SetFacts' /\ (Target /\ faults.count <= 1 => Loads(backup))' /\ ReliedSet(t)'
  <1>0. TypeOK /\ OneActive /\ FaultsCounted /\ SoundBackup /\ DbMap /\ ReliedSet(t)
    BY DEF SetInv, SetFacts, SetThread, BackupInv
  <1>1. /\ faults'.malformed <=> faults.malformed
        /\ faults'.count <= 1 => faults.count <= 1
        /\ Sound' \/ faults'.count = 0 => faults' = faults
    BY <1>0, OrdinaryFaults
  <1>2. Sound' => Sound
    BY <1>1 DEF Sound
  <1>3. \A s \in Threads : pc[s] \notin Filling
    BY <1>0 DEF OneActive, Relied, Filling
  <1>4. FaultsCounted'
    BY <1>0, <1>1, <1>2 DEF FaultsCounted
  <1>5. SoundBackup'
    BY <1>0, <1>2, <1>3 DEF SoundBackup, Loads
  <1>6. (Target /\ faults.count <= 1 => Loads(backup))'
    BY <1>0, <1>1 DEF ReliedSet, Target, Loads
  <1>7. LiveServes'
    BY <1>1 DEF LiveServes
  <1>8. DbMap' /\ NeverStranded' /\ ReliedSet(t)'
    BY <1>0, <1>1, <1>6 DEF DbMap, NeverStranded, ReliedSet, Target
  <1> QED BY <1>4, <1>5, <1>6, <1>7, <1>8 DEF SetFacts

\* A copy into the backup from live files that load.
LEMMA FillStep ==
    ASSUME SetInv, NEW t \in Threads, Loads(live), Ordinary, UNCHANGED <<db, live>>,
           unverified' => unverified,
           pc'[t] \in Filling \/ Loads(backup)' \/ faults' # faults
    PROVE  SetFacts'
  <1>0. TypeOK /\ FaultsCounted /\ DbMap
    BY DEF SetInv, SetFacts, BackupInv
  <1>1. /\ faults'.malformed <=> faults.malformed
        /\ Sound' \/ faults'.count = 0 => faults' = faults
    BY <1>0, OrdinaryFaults
  <1>2. Loads(live)'
    BY DEF Loads
  <1>3. FaultsCounted'
    BY <1>0, <1>1 DEF FaultsCounted, Sound
  <1> QED BY <1>0, <1>1, <1>2, <1>3 DEF SetFacts, SoundBackup, LiveServes, DbMap, NeverStranded

\* A copy of files nobody could check.
LEMMA BlindStep ==
    ASSUME SetInv, Ordinary, unverified, unverified', UNCHANGED db
    PROVE  SetFacts'
  <1>0. TypeOK /\ FaultsCounted /\ DbMap
    BY DEF SetInv, SetFacts, BackupInv
  <1>1. /\ faults'.malformed <=> faults.malformed
        /\ Sound' \/ faults'.count = 0 => faults' = faults
    BY <1>0, OrdinaryFaults
  <1>2. ~Sound' /\ ~(faults'.count = 0)
    BY <1>0, <1>1 DEF FaultsCounted, Sound
  <1> QED BY <1>0, <1>1, <1>2
          DEF SetFacts, FaultsCounted, SoundBackup, LiveServes, DbMap, NeverStranded

LEMMA FaultIsNew == ASSUME TypeOK, NEW k, Fault(k) PROVE faults' # faults
  <1>1. faults.count \in Nat /\ faults'.count = faults.count + 1
    BY DEF TypeOK, Injected, Fault
  <1> QED BY <1>1

\* What is left to say of a thread that relies on the backup and has nothing read
\* or restored yet.
LEMMA SetRelied ==
    ASSUME NEW t \in Threads, ReliedSet(t)',
           pc'[t] \notin {"map", "blk_map", "blk_promote", "signal_restored"},
           pc'[t] \in Restoring => at'[t] = 1
    PROVE  SetThread(t)'
  BY DEF SetThread, SnapMap, SnapGood, RestoredSoFar, RestoredLoads, PromotedIsMap

LEMMA BackupCopyKeepsSets ==
    ASSUME SetInv, BackupInv', NEW t \in Threads, create_backup_copy(t)
    PROVE  SetFacts' /\ SetThread(t)'
  <1> DEFINE f == _config_backup_pairs[at[t]]
  <1>0. /\ TypeOK /\ ThreadInv(t) /\ UNCHANGED <<db, live>> /\ at[t] \in 1..3
        /\ live \in [Files -> Contents] /\ backup \in [Files -> Contents]
        /\ pc[t] \in {"backup_copy", "backup_unverified"}
    BY DEF SetInv, BackupInv, TypeOK, create_backup_copy
  <1>1. CASE Return(t, "failed") /\ Fault("copy") /\ UNCHANGED unverified
    <2>1. SetThread(t)' /\ Ordinary /\ faults' # faults
      BY <1>0, <1>1, ReturnSetQuiet, FaultIsNew DEF Ordinary, Fault
    <2>2. CASE pc[t] = "backup_copy"
      BY <1>0, <1>1, <2>1, <2>2, FillStep DEF ThreadInv, ValidatedLoads, Validated
    <2>3. CASE pc[t] = "backup_unverified"
      BY <1>0, <1>1, <2>1, <2>3, BlindStep DEF ThreadInv, BlindIsMarked
    <2> QED BY <1>0, <2>1, <2>2, <2>3
  <1>2. CASE /\ backup' = Copied(backup, live, f) /\ NextPair(t, "blocked") /\ UNCHANGED faults
             /\ unverified' = IF at[t] = 3 /\ pc[t] = "backup_copy" THEN FALSE ELSE unverified
    <2>1. \/ at[t] \in {1, 2} /\ pc'[t] = pc[t] /\ at'[t] = at[t] + 1
          \/ at[t] = 3 /\ pc'[t] = "blocked" /\ at'[t] = 1
      BY <1>0, <1>2, NextPairAt
    <2>2. Ordinary
      BY <1>2 DEF Ordinary
    <2>3. CASE pc[t] = "backup_copy"
      <3>1. Loads(live) /\ CopiedSoFar(t)
        BY <1>0, <2>3 DEF ThreadInv, ValidatedLoads, Validated
      <3>2. at[t] > 1 => backup["cfg"] = live["cfg"]
        BY <3>1, <2>3 DEF CopiedSoFar
      <3>3. at[t] > 2 => backup["map"] = live["map"]
        BY <3>1, <2>3 DEF CopiedSoFar
      <3>4. at[t] = 3 => Loads(backup')
        BY <1>0, <1>2, <3>1, <3>2, <3>3, CopyOfLoading
      <3>5. unverified' => unverified
        BY <1>2
      <3>6. SetFacts'
        BY <1>0, <2>1, <2>2, <2>3, <3>1, <3>4, <3>5, FillStep DEF Filling, Loads
      <3>7. CASE at[t] = 3 /\ pc'[t] = "blocked"
        BY <3>4, <3>6, <3>7, SetRelied DEF ReliedSet, Restoring, Loads
      <3>8. CASE pc'[t] = pc[t]
        BY <2>3, <3>6, <3>8, SetQuiet DEF Relied
      <3> QED BY <2>1, <3>7, <3>8
    <2>4. CASE pc[t] = "backup_unverified"
      <3>1. unverified /\ unverified'
        BY <1>0, <1>2, <2>4 DEF ThreadInv, BlindIsMarked
      <3>2. SetFacts'
        BY <1>0, <2>2, <3>1, BlindStep
      <3>3. CASE pc'[t] = "blocked"
        BY <3>1, <3>2, <3>3, SetRelied DEF ReliedSet, Target, Restoring
      <3>4. CASE pc'[t] = pc[t]
        BY <2>4, <3>2, <3>4, SetQuiet DEF Relied
      <3> QED BY <2>1, <3>3, <3>4
    <2> QED BY <1>0, <2>3, <2>4
  <1> QED BY <1>1, <1>2 DEF create_backup_copy

LEMMA PromoteKeepsSets ==
    ASSUME SetInv, BackupInv', NEW t \in Threads, promote_current_config_to_backup(t)
    PROVE  SetFacts' /\ SetThread(t)'
  <1> DEFINE f == _config_backup_pairs[at[t]]
  <1>0. /\ TypeOK /\ ThreadInv(t) /\ UNCHANGED <<db, live>> /\ at[t] \in 1..3
        /\ live \in [Files -> Contents] /\ backup \in [Files -> Contents]
        /\ pc[t] = "promote"
    BY DEF SetInv, BackupInv, TypeOK, promote_current_config_to_backup
  <1>1. Loads(live) /\ CopiedSoFar(t)
    BY <1>0 DEF ThreadInv, ValidatedLoads, Validated
  <1>2. CASE Return(t, "ok") /\ Fault("copy") /\ UNCHANGED unverified
    <2>1. SetThread(t)' /\ Ordinary /\ faults' # faults
      BY <1>0, <1>2, ReturnSetQuiet, FaultIsNew DEF Ordinary, Fault
    <2> QED BY <1>0, <1>1, <1>2, <2>1, FillStep
  <1>3. CASE /\ backup' = Copied(backup, live, f) /\ UNCHANGED faults
             /\ unverified' = IF at[t] = 3 THEN FALSE ELSE unverified
             /\ IF at[t] = 3 THEN Return(t, "ok") ELSE NextPair(t, "idle")
    <2>1. Ordinary /\ (unverified' => unverified)
      BY <1>3 DEF Ordinary
    <2>2. at[t] > 1 => backup["cfg"] = live["cfg"]
      BY <1>0, <1>1 DEF CopiedSoFar
    <2>3. at[t] > 2 => backup["map"] = live["map"]
      BY <1>0, <1>1 DEF CopiedSoFar
    <2>4. at[t] = 3 => Loads(backup')
      BY <1>0, <1>1, <1>3, <2>2, <2>3, CopyOfLoading
    <2>5. CASE at[t] = 3
      BY <1>0, <1>1, <1>3, <2>1, <2>4, <2>5, FillStep, ReturnSetQuiet DEF Loads
    <2>6. CASE at[t] # 3
      <3>1. pc'[t] = "promote"
        BY <1>0, <1>3, <2>6, NextPairAt
      <3> QED BY <1>0, <1>1, <2>1, <3>1, FillStep, SetQuiet DEF Filling, Relied
    <2> QED BY <2>5, <2>6
  <1> QED BY <1>2, <1>3 DEF promote_current_config_to_backup

\* While a rollback copies the backup, or gives up.
LEMMA RestoreKeepsSets ==
    ASSUME SetInv, BackupInv', NEW t \in Threads, restore_backup(t)
    PROVE  SetFacts' /\ SetThread(t)'
  <1> DEFINE f == _config_backup_pairs[at[t]]
  <1>0. /\ TypeOK /\ FaultsCounted /\ UNCHANGED <<db, backup, unverified>> /\ at[t] \in 1..3
        /\ live \in [Files -> Contents] /\ backup \in [Files -> Contents]
        /\ pc[t] \in Restoring /\ pc[t] \in Relied /\ ReliedSet(t) /\ RestoredSoFar(t)
    BY DEF SetInv, SetFacts, SetThread, BackupInv, TypeOK, restore_backup, Restoring, Relied
  <1>1. CASE backup["cfg"] = Absent /\ Return(t, "rollback_failed") /\ UNCHANGED faults
    BY <1>0, <1>1, ReliedStep, ReturnSetQuiet DEF Ordinary
  <1>2. CASE Fault("copy") /\ Return(t, "rollback_failed")
    <2>1. Ordinary /\ faults' # faults
      BY <1>0, <1>2, FaultIsNew DEF Ordinary, Fault
    <2> QED BY <1>0, <1>2, <2>1, ReliedStep, ReturnSetQuiet
  <1>3. CASE /\ backup["cfg"] # Absent /\ live' = Copied(live, backup, f) /\ UNCHANGED faults
             /\ IF at[t] = 3 /\ pc[t] = "restore" THEN Return(t, "rolled_back")
                ELSE NextPair(t, "signal_restored")
    <2>1. ASSUME Target, faults.count <= 1
          PROVE  /\ live'["cfg"] = backup["cfg"]
                 /\ at[t] > 1 => live'["map"] = backup["map"]
                 /\ at[t] = 3 => Loads(live')
      <3>1. Loads(backup)
        BY <1>0, <2>1 DEF ReliedSet
      <3>2. at[t] > 1 => live["cfg"] = backup["cfg"]
        BY <1>0, <2>1 DEF RestoredSoFar
      <3>3. at[t] > 2 => live["map"] = backup["map"]
        BY <1>0, <2>1 DEF RestoredSoFar
      <3> QED BY <1>0, <1>3, <3>1, <3>2, <3>3, CopyOfLoading
    <2>2. faults.count = 0 => Target /\ faults.count <= 1
      BY <1>0, <1>3 DEF Target, FaultsCounted, Sound
    <2>3. Ordinary
      BY <1>3 DEF Ordinary
    <2>4. CASE at[t] = 3 /\ pc[t] = "restore"
      <3>1. faults.count = 0 => Loads(live)'
        BY <2>1, <2>2, <2>4 DEF Loads
      <3> QED BY <1>0, <1>3, <2>3, <2>4, <3>1, ReliedStep, ReturnSetQuiet
    <2>5. CASE ~(at[t] = 3 /\ pc[t] = "restore")
      <3>1. \/ at[t] \in {1, 2} /\ pc'[t] = pc[t] /\ at'[t] = at[t] + 1
            \/ at[t] = 3 /\ pc'[t] = "signal_restored" /\ at'[t] = 1
        BY <1>0, <1>3, <2>5, NextPairAt
      <3>2. CASE at[t] \in {1, 2} /\ pc'[t] = pc[t] /\ at'[t] = at[t] + 1
        <4>1. SetFacts' /\ ReliedSet(t)'
          BY <1>0, <2>3, <3>2, ReliedStep DEF Restoring, Rewriting
        <4>2. RestoredSoFar(t)'
          BY <1>0, <1>3, <2>1, <3>2 DEF RestoredSoFar, Target
        <4> QED BY <1>0, <3>2, <4>1, <4>2
                DEF SetThread, SnapMap, SnapGood, RestoredLoads, PromotedIsMap, Restoring
      <3>3. CASE at[t] = 3 /\ pc'[t] = "signal_restored"
        <4>1. faults.count = 0 => Loads(live)'
          BY <2>1, <2>2, <3>3 DEF Loads
        <4>2. SetFacts' /\ ReliedSet(t)'
          BY <1>0, <2>3, <4>1, ReliedStep
        <4>3. RestoredLoads(t)'
          BY <1>0, <1>3, <2>1, <3>3 DEF RestoredLoads, Target, Loads
        <4> QED BY <3>3, <4>2, <4>3
                DEF SetThread, SnapMap, SnapGood, RestoredSoFar, PromotedIsMap, Restoring
      <3> QED BY <3>1, <3>2, <3>3
    <2> QED BY <2>4, <2>5
  <1> QED BY <1>1, <1>2, <1>3 DEF restore_backup

LEMMA GenerateKeepsSets ==
    ASSUME SetInv, BackupInv', NEW t \in Threads, generate_config(t),
           \A s \in Threads \ {t} : pc'[s] = pc[s]
    PROVE  SetFacts' /\ SetThread(t)'
  <1>0. /\ TypeOK /\ ThreadInv(t) /\ FaultsCounted /\ NeverStranded /\ DbMap /\ ReliedSet(t)
        /\ RestoredLoads(t) /\ TypeOK' /\ AtFirstPair(t)'
    BY DEF SetInv, SetFacts, SetThread, BackupInv, ThreadInv
  <1>1. CASE generate_config_read(t)
    <2>1. /\ pc[t] = "read" /\ pc'[t] = "backup"
          /\ UNCHANGED <<db, live, backup, unverified, faults>>
      BY <1>0, <1>1 DEF generate_config_read, TypeOK, Goto
    <2>2. SetFacts'
      BY <2>1, SameSets DEF Ordinary, Filling, Rewriting
    <2> QED BY <2>1, <2>2, SetQuiet DEF Relied
  <1>2. CASE create_backup(t)
    <2>1. pc[t] = "backup" /\ UNCHANGED <<db, live, backup>>
      BY <1>2 DEF create_backup
    <2>2. CASE /\ Goto(t, "blocked") /\ UNCHANGED <<unverified, faults>>
               /\ live["cfg"] = Absent \/ live = backup \/ ~Loads(live)
      <3>1. SetFacts' /\ pc'[t] = "blocked"
        BY <1>0, <2>1, <2>2, SameSets DEF Ordinary, Filling, Rewriting, TypeOK, Goto
      <3>2. Target /\ faults.count <= 1 => Loads(backup)
        BY <1>0, <2>2, ConfigAssumption DEF NeverStranded, Target, Loads
      <3> QED BY <2>1, <2>2, <3>1, <3>2, SetRelied DEF ReliedSet, Target, Loads, Restoring
    <2>3. CASE Goto(t, "backup_copy") /\ UNCHANGED <<unverified, faults>>
      <3>1. SetFacts' /\ pc'[t] = "backup_copy"
        BY <1>0, <2>1, <2>3, SameSets DEF Ordinary, Filling, Rewriting, TypeOK, Goto
      <3> QED BY <3>1, SetQuiet DEF Relied
    <2>4. CASE Goto(t, "backup_unverified") /\ Fault("validator") /\ unverified' = TRUE
      <3>1. Ordinary /\ faults' # faults
        BY <1>0, <2>4, FaultIsNew DEF Ordinary, Fault
      <3>2. SetFacts' /\ pc'[t] = "backup_unverified"
        BY <1>0, <2>1, <2>4, <3>1, SameSets DEF Filling, Rewriting, TypeOK, Goto
      <3> QED BY <3>2, SetQuiet DEF Relied
    <2> QED BY <1>2, <2>2, <2>3, <2>4 DEF create_backup, _config_set_matches_backup
  <1>3. CASE create_backup_copy(t)
    BY <1>3, BackupCopyKeepsSets
  <1>4. CASE update_blocked_ips_map_read(t)
    <2>1. /\ snap'[t].map = db.map /\ UNCHANGED <<db, live, backup, unverified, faults>>
          /\ \/ pc[t] = "blocked" /\ pc'[t] = "map"
             \/ pc[t] = "blk_read" /\ pc'[t] = "blk_map"
      BY <1>0, <1>4 DEF update_blocked_ips_map_read, TypeOK, Goto
    <2>2. SnapMap(t)' /\ SnapGood(t)'
      BY <1>0, <2>1 DEF SnapMap, SnapGood, DbMap, TypeOK
    <2>3. SetFacts' /\ ReliedSet(t)'
      BY <2>1, ReliedStep, SameSets DEF Ordinary, Relied, ReliedSet, Filling, Rewriting
    <2> QED BY <2>1, <2>2, <2>3
            DEF SetThread, RestoredSoFar, RestoredLoads, PromotedIsMap, Restoring
  <1>5. CASE update_blocked_ips_map(t)
    <2>1. /\ pc[t] = "map" /\ pc'[t] \in {"spoe", "cfg"} /\ UNCHANGED <<db, backup, unverified>>
          /\ Ordinary
      BY <1>0, <1>5 DEF update_blocked_ips_map, TypeOK, Goto, Ordinary, Fault
    <2>2. SetFacts' /\ ReliedSet(t)'
      BY <2>1, ReliedStep DEF Relied, Rewriting
    <2> QED BY <2>1, <2>2, SetRelied DEF Restoring
  <1>6. CASE write_coraza_spoe(t) \/ write_haproxy_cfg(t)
    <2>1. /\ pc[t] \in {"spoe", "cfg"} /\ UNCHANGED <<db, backup, unverified>>
          /\ \/ (Goto(t, "cfg") \/ Goto(t, "validate")) /\ UNCHANGED faults
             \/ Fault("write") /\ Return(t, "failed")
      BY <1>6 DEF write_coraza_spoe, write_haproxy_cfg, WriteRendered
    <2>2. CASE (Goto(t, "cfg") \/ Goto(t, "validate")) /\ UNCHANGED faults
      <3>1. pc'[t] \in {"cfg", "validate"}
        BY <1>0, <2>2 DEF TypeOK, Goto
      <3>2. SetFacts' /\ ReliedSet(t)'
        BY <2>1, <2>2, <3>1, ReliedStep DEF Ordinary, Relied, Rewriting
      <3> QED BY <3>1, <3>2, SetRelied DEF Restoring
    <2>3. CASE Fault("write") /\ Return(t, "failed")
      <3>1. Ordinary /\ faults' # faults
        BY <1>0, <2>3, FaultIsNew DEF Ordinary, Fault
      <3> QED BY <1>0, <2>1, <2>3, <3>1, ReliedStep, ReturnSetQuiet DEF Relied
    <2> QED BY <2>1, <2>2, <2>3
  <1>7. CASE validate_haproxy_config(t)
    <2>1. /\ pc[t] = "validate" /\ UNCHANGED <<db, live, backup, unverified, at>> /\ Ordinary
          /\ \/ pc'[t] \in {"reload", "start"} /\ Loads(live)
             \/ pc'[t] = "restore"
      BY <1>0, <1>7 DEF validate_haproxy_config, TypeOK, Goto, Ordinary, Fault
    <2>2. SetFacts' /\ ReliedSet(t)'
      BY <2>1, ReliedStep DEF Relied, Rewriting, Loads
    <2>3. at'[t] = 1
      BY <1>0, <2>1 DEF ThreadInv, AtFirstPair, Copying
    <2> QED BY <2>1, <2>2, <2>3, SetRelied
  <1>8. CASE reload_haproxy_safely_reload(t)
    <2>0. UNCHANGED faults \/ Fault("silent") \/ Fault("socket") \/ Fault("timeout")
      BY <1>8 DEF reload_haproxy_safely_reload
    <2>1. /\ pc[t] = "reload" /\ UNCHANGED <<db, live, backup, unverified, at>>
          /\ pc'[t] \in {"promote", "restore", "restore_signal"}
          /\ Ordinary
      <3>1. /\ pc[t] = "reload" /\ UNCHANGED <<db, live, backup, unverified, at>>
            /\ Goto(t, "promote") \/ Goto(t, "restore") \/ Goto(t, "restore_signal")
        BY <1>8 DEF reload_haproxy_safely_reload
      <3>2. Ordinary
        BY <2>0 DEF Ordinary, Fault
      <3> QED BY <1>0, <3>1, <3>2 DEF TypeOK, Goto
    <2>2. Loads(live)'
      BY <1>0, <2>1 DEF ThreadInv, ValidatedLoads, Validated, Loads
    <2>3. SetFacts' /\ ReliedSet(t)'
      BY <2>1, <2>2, ReliedStep DEF Relied
    <2>4. at'[t] = 1
      BY <1>0, <2>1 DEF ThreadInv, AtFirstPair, Copying
    <2> QED BY <2>1, <2>3, <2>4, SetRelied
  <1>9. CASE reload_haproxy_safely_start(t)
    <2>1. /\ pc[t] = "start" /\ UNCHANGED <<db, live, backup, unverified>> /\ Ordinary
          /\ \/ (Goto(t, "promote") \/ Goto(t, "restore")) /\ UNCHANGED at
             \/ Return(t, "failed")
      BY <1>9 DEF reload_haproxy_safely_start, Ordinary, Fault
    <2>2. Loads(live)'
      BY <1>0, <2>1 DEF ThreadInv, ValidatedLoads, Validated, Loads
    <2>3. SetFacts' /\ ReliedSet(t)'
      BY <2>1, <2>2, ReliedStep DEF Relied
    <2>4. CASE Return(t, "failed")
      BY <1>0, <2>3, <2>4, ReturnSetQuiet
    <2>5. CASE (Goto(t, "promote") \/ Goto(t, "restore")) /\ UNCHANGED at
      <3>1. pc'[t] \in {"promote", "restore"} /\ at'[t] = 1
        BY <1>0, <2>1, <2>5 DEF TypeOK, Goto, ThreadInv, AtFirstPair, Copying
      <3> QED BY <2>3, <3>1, SetRelied
    <2> QED BY <2>1, <2>4, <2>5
  <1>10. CASE promote_current_config_to_backup(t)
    BY <1>10, PromoteKeepsSets
  <1>11. CASE restore_backup(t)
    BY <1>11, RestoreKeepsSets
  <1>12. CASE reload_restored(t)
    <2>1. /\ pc[t] = "signal_restored" /\ UNCHANGED <<db, live, backup, unverified>> /\ Ordinary
          /\ \/ Goto(t, "restore") /\ UNCHANGED at
             \/ Return(t, "rolled_back")
      BY <1>12 DEF reload_restored, Ordinary, Fault
    <2>2. faults.count = 0 => Loads(live)'
      BY <1>0, <2>1 DEF RestoredLoads, FaultsCounted, Sound, Loads
    <2>3. SetFacts' /\ ReliedSet(t)'
      BY <2>1, <2>2, ReliedStep DEF Relied
    <2>4. CASE Return(t, "rolled_back")
      BY <1>0, <2>3, <2>4, ReturnSetQuiet
    <2>5. CASE Goto(t, "restore") /\ UNCHANGED at
      <3>1. pc'[t] = "restore" /\ at'[t] = 1
        BY <1>0, <2>1, <2>5 DEF TypeOK, Goto, ThreadInv, AtFirstPair, Copying
      <3> QED BY <2>3, <3>1, SetRelied
    <2> QED BY <2>1, <2>4, <2>5
  <1> QED BY <1>1, <1>2, <1>3, <1>4, <1>5, <1>6, <1>7, <1>8, <1>9, <1>10, <1>11, <1>12
          DEF generate_config

\* The steps outside generate_config().
LEMMA StepKeepsSets ==
    ASSUME SetInv, BackupInv', NEW t \in Threads, Step(t),
           \A s \in Threads \ {t} : pc'[s] = pc[s]
    PROVE  SetFacts' /\ SetThread(t)'
  <1>0. /\ TypeOK /\ ThreadInv(t) /\ OneActive /\ SetFacts /\ SetThread(t) /\ BackupClean
        /\ live \in [Files -> Contents] /\ backup \in [Files -> Contents]
    BY DEF SetInv, BackupInv, TypeOK
  <1>1. CASE generate_config(t)
    BY <1>1, GenerateKeepsSets
  <1>2. CASE update_blocked_ips_map_route(t)
    <2>1. /\ pc[t] = "blk_map" /\ UNCHANGED <<db, backup, unverified>>
          /\ \/ Leave(t, "idle") /\ UNCHANGED live /\ Fault("write")
             \/ /\ live' = [live EXCEPT !["map"] = snap[t].map] /\ UNCHANGED faults
                /\ \/ Goto(t, "blk_promote") /\ backup["cfg"] # Absent
                   \/ Goto(t, "signal")
      BY <1>2 DEF update_blocked_ips_map_route
    <2>2. CASE Leave(t, "idle") /\ UNCHANGED live /\ Fault("write")
      <3>1. Ordinary
        BY <2>2 DEF Ordinary, Fault
      <3> QED BY <1>0, <2>1, <2>2, <3>1, SameSets, LeaveSetQuiet DEF Filling, Rewriting
    <2>3. CASE live' = [live EXCEPT !["map"] = snap[t].map] /\ UNCHANGED faults
      <3>1. snap[t].map \in Maps /\ (~faults.malformed => snap[t].map \notin BadMaps)
        BY <1>0, <2>1 DEF SetThread, SnapMap, SnapGood
      <3>2. /\ live'["map"] = snap[t].map /\ live'["cfg"] = live["cfg"]
            /\ live'["spoe"] = live["spoe"]
        BY <1>0, <2>3 DEF Files
      <3>3. ~faults.malformed /\ Loads(live) => Loads(live)'
        BY <3>1, <3>2 DEF Loads
      <3>4. \A s \in Threads : pc[s] \notin Filling \cup Rewriting
        BY <1>0, <2>1 DEF OneActive, Filling, Rewriting
      <3>5. FaultsCounted' /\ SoundBackup' /\ DbMap'
        BY <1>0, <2>1, <2>3, <3>4 DEF SetFacts, FaultsCounted, Sound, SoundBackup, DbMap, Loads
      <3>6. LiveServes'
        BY <1>0, <2>1, <2>3, <3>3, <3>4 DEF SetFacts, LiveServes, FaultsCounted
      <3>7. NeverStranded'
        <4>1. CASE faults.malformed
          <5>1. faults.count <= 1 => Sound
            BY <1>0, <4>1 DEF SetFacts, FaultsCounted, Sound, TypeOK, Injected
          <5> QED BY <1>0, <2>1, <2>3, <3>4, <5>1 DEF SetFacts, SoundBackup, NeverStranded, Loads
        <4>2. CASE ~faults.malformed
          BY <1>0, <2>1, <2>3, <3>3, <4>2 DEF SetFacts, NeverStranded, Loads
        <4> QED BY <4>1, <4>2
      <3>8. SetFacts'
        BY <3>5, <3>6, <3>7 DEF SetFacts
      <3>9. CASE Goto(t, "blk_promote") /\ backup["cfg"] # Absent
        <4>1. pc'[t] = "blk_promote"
          BY <1>0, <3>9 DEF TypeOK, Goto
        <4> QED BY <2>1, <3>1, <3>2, <3>8, <3>9, <4>1
                DEF SetThread, SnapMap, SnapGood, ReliedSet, RestoredSoFar, RestoredLoads,
                    PromotedIsMap, Relied, Restoring
      <3>10. CASE Goto(t, "signal")
        <4>1. pc'[t] = "signal"
          BY <1>0, <3>10 DEF TypeOK, Goto
        <4> QED BY <3>8, <4>1, SetQuiet DEF Relied
      <3> QED BY <2>1, <2>3, <3>9, <3>10, FaultIsNew, <1>0
    <2> QED BY <2>1, <2>2, <2>3
  <1>3. CASE _promote_blocked_ips_map_to_backup(t)
    <2>1. /\ pc[t] = "blk_promote" /\ UNCHANGED <<db, live, unverified>> /\ Goto(t, "signal")
          /\ \/ backup' = Copied(backup, live, "map") /\ UNCHANGED faults
             \/ Fault("copy")
      BY <1>3 DEF _promote_blocked_ips_map_to_backup
    <2>2. SetThread(t)'
      <3>1. pc'[t] = "signal"
        BY <1>0, <2>1 DEF TypeOK, Goto
      <3> QED BY <3>1, SetQuiet DEF Relied
    <2>3. live["map"] \in Maps \ BadMaps /\ backup["cfg"] # Absent
      BY <1>0, <2>1 DEF SetThread, PromotedIsMap, ThreadInv, PromotedMap
    <2>4. \A s \in Threads : pc[s] \notin Filling \cup Rewriting
      BY <1>0, <2>1 DEF OneActive, Filling, Rewriting
    <2>5. CASE backup' = Copied(backup, live, "map") /\ UNCHANGED faults
      <3>1. /\ backup'["map"] = live["map"] /\ backup'["cfg"] = backup["cfg"]
            /\ backup'["spoe"] = backup["spoe"]
        BY <1>0, <2>3, <2>5, ConfigAssumption DEF Copied, Files
      <3>2. Loads(backup) => Loads(backup)'
        BY <2>3, <3>1 DEF Loads
      <3>3. FaultsCounted' /\ SoundBackup' /\ DbMap'
        BY <1>0, <2>1, <2>4, <2>5, <3>1, <3>2
           DEF SetFacts, FaultsCounted, Sound, SoundBackup, DbMap
      <3>4. LiveServes' /\ NeverStranded'
        BY <1>0, <2>1, <2>4, <2>5, <3>1, <3>2 DEF SetFacts, LiveServes, NeverStranded, Loads
      <3> QED BY <2>2, <3>3, <3>4 DEF SetFacts
    <2>6. CASE Fault("copy")
      <3>1. Ordinary /\ faults' # faults
        BY <1>0, <2>6, FaultIsNew DEF Ordinary, Fault
      <3>2. /\ faults'.malformed <=> faults.malformed
            /\ Sound' \/ faults'.count = 0 => faults' = faults
            /\ faults'.count <= 1 => faults.count = 0
        BY <1>0, <3>1, OrdinaryFaults DEF SetFacts
      <3>3. faults.count = 0 => Loads(live)
        BY <1>0, <2>3, <2>4 DEF SetFacts, LiveServes
      <3>4. FaultsCounted' /\ SoundBackup' /\ LiveServes' /\ DbMap'
        BY <1>0, <2>1, <3>1, <3>2 DEF SetFacts, FaultsCounted, SoundBackup, LiveServes, DbMap
      <3>5. NeverStranded'
        BY <2>1, <3>2, <3>3 DEF NeverStranded, Loads
      <3> QED BY <2>2, <3>4, <3>5 DEF SetFacts
    <2> QED BY <2>1, <2>5, <2>6
  <1>4. CASE \/ signal_haproxy(t) \/ start_haproxy(t) \/ start_haproxy_recheck(t)
             \/ start_haproxy_launch(t)
    <2>1. UNCHANGED <<db, live, backup, unverified>> /\ pc[t] \in {"signal", "probe", "recheck", "launch"}
      BY <1>4 DEF signal_haproxy, start_haproxy, start_haproxy_recheck, start_haproxy_launch
    <2>2. PICK label \in {"idle", "launch", "read"} : Leave(t, label)
      BY <1>4 DEF signal_haproxy, start_haproxy, start_haproxy_recheck, start_haproxy_launch
    <2>3. UNCHANGED faults \/ Fault("socket") \/ Fault("validator") \/ Fault("start")
      BY <1>4 DEF signal_haproxy, start_haproxy, start_haproxy_recheck, start_haproxy_launch
    <2>4. Ordinary
      BY <2>3 DEF Ordinary, Fault
    <2> QED BY <1>0, <2>1, <2>2, <2>4, SameSets, LeaveSetQuiet DEF Filling, Rewriting
  <1> QED BY <1>1, <1>2, <1>3, <1>4 DEF Step

\* A process that ends is the failure after which one of the sets must do.
LEMMA InterruptedKeepsSets ==
    ASSUME SetInv, NEW S \in SUBSET Threads, Interrupted(S), UNCHANGED <<db, unverified>>,
           NEW k \in Faults \ {"malformed"}, Fault(k)
    PROVE  SetFacts'
  <1>0. /\ TypeOK /\ OneActive /\ (\A t \in Threads : ThreadInv(t) /\ SetThread(t))
        /\ FaultsCounted /\ SoundBackup /\ LiveServes /\ DbMap /\ NeverStranded
    BY DEF SetInv, SetFacts, BackupInv
  <1>1. /\ faults'.malformed <=> faults.malformed
        /\ Sound' \/ faults'.count = 0 => faults' = faults
        /\ faults' # faults
        /\ faults'.count <= 1 => faults.count = 0
    BY <1>0, OrdinaryFaults, FaultIsNew DEF Ordinary
  <1>2. FaultsCounted' /\ SoundBackup' /\ LiveServes' /\ DbMap'
    BY <1>0, <1>1 DEF FaultsCounted, SoundBackup, LiveServes, DbMap
  <1>3. ASSUME faults.count = 0, Target' PROVE Loads(live)' \/ Loads(backup)'
    <2>1. CASE \E t \in S : IntoLive(t)
      <3>1. PICK t \in S : IntoLive(t)
        BY <2>1
      <3>2. \A s \in Threads : ~IntoBackup(s)
        BY <1>0, <3>1 DEF OneActive, IntoBackup, IntoLive
      <3>3. backup' = backup
        BY <1>0, <3>2 DEF Interrupted, TypeOK
      <3> QED BY <1>0, <1>3, <3>1, <3>3 DEF SetThread, ReliedSet, Relied, IntoLive, Target, Loads
    <2>2. CASE (\A t \in S : ~IntoLive(t)) /\ \E t \in S : IntoBackup(t)
      <3>1. live' = live
        BY <1>0, <2>2 DEF Interrupted, TypeOK
      <3>2. PICK t \in S : IntoBackup(t)
        BY <2>2
      <3>3. CASE pc[t] \in {"backup_copy", "promote"}
        BY <1>0, <3>1, <3>3 DEF ThreadInv, ValidatedLoads, Validated, Loads
      <3>4. CASE pc[t] = "backup_unverified"
        BY <1>0, <1>3, <3>4 DEF ThreadInv, BlindIsMarked, Target
      <3>5. CASE pc[t] = "blk_promote"
        <4>1. \A s \in Threads : pc[s] \notin Rewriting
          BY <1>0, <3>5 DEF OneActive, Rewriting
        <4>2. backup["cfg"] # Absent
          BY <1>0, <3>5 DEF SetThread, PromotedIsMap
        <4> QED BY <1>0, <1>3, <3>1, <4>1, <4>2 DEF LiveServes, Loads
      <3> QED BY <3>2, <3>3, <3>4, <3>5 DEF IntoBackup
    <2>3. CASE \A t \in S : ~IntoLive(t) /\ ~IntoBackup(t)
      <3>1. live' = live /\ backup' = backup
        BY <1>0, <2>3 DEF Interrupted, TypeOK
      <3> QED BY <1>0, <1>3, <3>1 DEF NeverStranded, Target, Loads
    <2> QED BY <2>1, <2>2, <2>3
  <1>4. NeverStranded'
    BY <1>1, <1>3 DEF NeverStranded, Target
  <1> QED BY <1>2, <1>4 DEF SetFacts

LEMMA SetInvStep ==
    ASSUME Serialized, SetInv, DownIsIdle, [Next]_vars, BackupInv'
    PROVE  SetInv'
  <1>0. /\ TypeOK /\ OneActive /\ SetFacts
        /\ \A t \in Threads : ThreadInv(t) /\ SetThread(t)
    BY DEF SetInv, BackupInv
  <1>1. ASSUME NEW t \in Threads, Step(t) PROVE SetInv'
    <2>1. \A s \in Threads \ {t} : pc[s] = "idle" /\ pc'[s] = pc[s]
      BY <1>0, <1>1, StepIsLocal DEF OneActive
    <2>2. \A s \in Threads \ {t} : SetThread(s)'
      BY <2>1, SetQuiet DEF Relied
    <2> QED BY <1>1, <2>1, <2>2, StepKeepsSets DEF SetInv
  <1>2. ASSUME NEW t \in Threads, Request(t) \/ (t = Supervisor /\ ensure_haproxy) PROVE SetInv'
    <2>1. /\ MayBegin(t) /\ UNCHANGED <<live, backup, unverified>>
          /\ \E label \in {"read", "blk_read", "signal", "launch", "probe"} : Goto(t, label)
      BY <1>2 DEF Request, request_generate, request_block, request_reload, ensure_haproxy
    <2>2. \A s \in Threads : /\ pc[s] = "idle"
                             /\ pc'[s] \in {"idle", "read", "blk_read", "signal", "launch", "probe"}
      BY <1>0, <2>1 DEF MayBegin, TypeOK, Goto
    <2>3. \A s \in Threads : SetThread(s)'
      BY <2>2, SetQuiet DEF Relied
    <2>4. CASE UNCHANGED faults /\ db'.map = db.map
      BY <1>0, <2>1, <2>2, <2>3, <2>4
         DEF SetInv, SetFacts, FaultsCounted, Sound, SoundBackup, LiveServes, DbMap, NeverStranded,
             Loads, Filling, Rewriting
    <2>5. CASE UNCHANGED faults /\ db'.map \notin BadMaps
      BY <1>0, <2>1, <2>2, <2>3, <2>5
         DEF SetInv, SetFacts, FaultsCounted, Sound, SoundBackup, LiveServes, DbMap, NeverStranded,
             Loads, Filling, Rewriting
    <2>6. CASE Fault("malformed")
      <3>1. faults'.malformed /\ faults'.count = faults.count + 1 /\ faults.count \in Nat
        BY <1>0, <2>6 DEF Fault, TypeOK, Injected
      <3>2. /\ ~(faults'.count = 0)
            /\ Sound' => Sound
            /\ faults'.count <= 1 => faults.count <= 1
        BY <3>1 DEF Sound
      <3>3. FaultsCounted' /\ SoundBackup'
        BY <1>0, <2>1, <2>2, <3>2 DEF SetFacts, FaultsCounted, SoundBackup, Loads, Filling
      <3>4. LiveServes' /\ DbMap' /\ NeverStranded'
        BY <1>0, <2>1, <3>1, <3>2 DEF SetFacts, LiveServes, DbMap, NeverStranded, Loads
      <3> QED BY <2>3, <3>3, <3>4 DEF SetInv, SetFacts
    <2>7. \/ UNCHANGED faults /\ db'.map = db.map
          \/ UNCHANGED faults /\ db'.map \notin BadMaps
          \/ Fault("malformed")
      <3>1. CASE request_block(t)
        <4>1. PICK m \in Maps : /\ db' = [db EXCEPT !.map = m]
                                /\ IF m \in BadMaps THEN Fault("malformed") ELSE UNCHANGED faults
          BY <3>1 DEF request_block
        <4>2. db'.map = m
          BY <1>0, <4>1 DEF TypeOK
        <4> QED BY <4>1, <4>2
      <3>2. CASE request_generate(t)
        BY <1>0, <3>2 DEF request_generate, TypeOK
      <3>3. CASE request_reload(t) \/ ensure_haproxy
        BY <3>3 DEF request_reload, ensure_haproxy
      <3> QED BY <1>2, <3>1, <3>2, <3>3 DEF Request
    <2> QED BY <2>4, <2>5, <2>6, <2>7
  <1>3. ASSUME NEW t \in Threads, process_exits(t) PROVE SetInv'
    <2>1. /\ Leave(t, "idle") /\ pc[t] # "idle" /\ Interrupted({t}) /\ UNCHANGED <<db, unverified>>
          /\ Fault("exit") /\ "exit" \in Faults \ {"malformed"}
      BY <1>3 DEF process_exits, Fault
    <2>2. \A s \in Threads : pc'[s] = "idle"
      BY <1>0, <2>1 DEF TypeOK, OneActive, Leave
    <2>3. \A s \in Threads : SetThread(s)'
      BY <2>2, SetQuiet DEF Relied
    <2> QED BY <2>1, <2>3, InterruptedKeepsSets DEF SetInv
  <1>4. CASE container_restarts
    <2>1. \A t \in Threads : pc'[t] \in {"read", "idle"}
      BY <1>4 DEF container_restarts, Booting
    <2>2. \A t \in Threads : SetThread(t)'
      BY <2>1, SetQuiet DEF Relied
    <2>3. /\ Interrupted(Threads) /\ UNCHANGED <<db, unverified>>
          /\ Fault("crash") /\ "crash" \in Faults \ {"malformed"}
      BY <1>4 DEF container_restarts, Fault
    <2> QED BY <2>2, <2>3, InterruptedKeepsSets DEF SetInv
  <1>5. CASE haproxy_dies \/ UNCHANGED vars
    <2>1. UNCHANGED <<db, pc, at, snap, live, backup, unverified, faults>>
      BY <1>5 DEF haproxy_dies, vars
    <2>2. SetFacts'
      BY <1>0, <2>1 DEF SetFacts, FaultsCounted, Sound, SoundBackup, LiveServes, DbMap,
                        NeverStranded, Loads
    <2>3. \A t \in Threads : SetThread(t)'
      BY <1>0, <2>1 DEF SetThread, SnapMap, SnapGood, ReliedSet, RestoredSoFar, RestoredLoads,
                        PromotedIsMap, Target, Loads
    <2> QED BY <2>2, <2>3 DEF SetInv
  <1>6. CASE container_ends \/ container_starts
    <2>1. /\ UNCHANGED <<db, live, backup, unverified, faults>>
          /\ \A t \in Threads : pc[t] \in {"abort", "idle"} /\ pc'[t] \in {"read", "idle"}
      BY <1>0, <1>6 DEF container_ends, container_starts, Booting, Goto, OneActive, TypeOK, Threads,
                        DownIsIdle
    <2>2. \A t \in Threads : SetThread(t)'
      BY <2>1, SetQuiet DEF Relied
    <2>3. SetFacts'
      BY <1>0, <2>1 DEF SetFacts, FaultsCounted, Sound, SoundBackup, LiveServes, DbMap,
                        NeverStranded, Loads, Filling, Rewriting
    <2> QED BY <2>2, <2>3 DEF SetInv
  <1> QED BY <1>1, <1>2, <1>3, <1>4, <1>5, <1>6 DEF Next, Threads

LEMMA SetInvHolds == ASSUME Serialized PROVE Spec => []SetInv
  <1>1. Init /\ BackupInv => SetInv
    <2> SUFFICES ASSUME Init, BackupInv PROVE SetInv
      OBVIOUS
    <2>1. \A t \in Threads : pc[t] \in {"read", "idle"}
      BY DEF Init
    <2>2. \A t \in Threads : SetThread(t)
      BY <2>1 DEF SetThread, SnapMap, SnapGood, ReliedSet, RestoredSoFar, RestoredLoads,
                  PromotedIsMap, Relied, Restoring
    <2>3. /\ backup["cfg"] = Absent /\ ~unverified /\ faults.count = 0 /\ ~faults.malformed
          /\ db.map \notin BadMaps
      BY DEF Init, Files
    <2> QED BY <2>2, <2>3
            DEF SetInv, SetFacts, FaultsCounted, SoundBackup, LiveServes, DbMap, NeverStranded
  <1>2. SetInv /\ DownIsIdle /\ [Next]_vars /\ BackupInv' => SetInv'
    BY SetInvStep
  <1>3. Init => DownIsIdle
    BY DEF Init, DownIsIdle
  <1>4. BackupInv /\ DownIsIdle /\ [Next]_vars => DownIsIdle'
    BY DownIsIdleStep
  <1> QED BY <1>1, <1>2, <1>3, <1>4, BackupInvHolds, PTL DEF Spec

\* For any number of threads, renderings and maps, with Coraza or without it: as
\* long as operations do not overlap, one failure of any kind - a copy cut short,
\* a command that times out, a worker or the container killed between two writes,
\* an address HAProxy cannot parse - leaves the files on disk or their backups a
\* set HAProxy starts with, at every step of every operation after it.
THEOREM OneFailureStrandsNobody == ASSUME Serialized PROVE Spec => []NeverStranded
  <1>1. SetInv => NeverStranded
    BY DEF SetInv, SetFacts
  <1> QED BY <1>1, SetInvHolds, PTL

\* A rollback that generate_config() reports without "ROLLBACK FAILED" has put a
\* set on disk that HAProxy accepts, unless two failures came before it.
THEOREM RollbackIsHonest == ASSUME Serialized PROVE Spec => RollbackHonest
  <1> DEFINE Honest ==
        \A t \in Threads :
            outcome'[t] = "rolled_back" /\ outcome[t] # "rolled_back"
            /\ ~unverified /\ faults.count <= 1
                => Loads(live')
  <1>1. ASSUME SetInv, SetInv', [Next]_vars PROVE Honest
    <2> SUFFICES ASSUME NEW t \in Threads, outcome'[t] = "rolled_back", outcome[t] # "rolled_back",
                        ~unverified, faults.count <= 1
                 PROVE  Loads(live')
      OBVIOUS
    <2>0. /\ TypeOK /\ ReliedSet(t) /\ RestoredSoFar(t) /\ RestoredLoads(t) /\ at[t] \in 1..3
          /\ live \in [Files -> Contents] /\ backup \in [Files -> Contents]
          /\ outcome \in [Threads -> Outcomes]
      BY <1>1 DEF SetInv, SetThread, BackupInv, TypeOK
    <2>1. restore_backup(t) \/ reload_restored(t)
      <3>1. /\ ~haproxy_dies /\ ~UNCHANGED vars
            /\ ~container_restarts /\ ~container_ends /\ ~container_starts
        BY <2>0 DEF haproxy_dies, container_restarts, container_ends, container_starts, Booting, vars
      <3>2. \A s \in Threads : ~Request(s) /\ ~process_exits(s)
        BY <2>0 DEF Request, request_generate, request_block, request_reload, process_exits
      <3>3. ~ensure_haproxy
        BY <2>0 DEF ensure_haproxy
      <3>4. PICK s \in Threads : Step(s)
        BY <1>1, <3>1, <3>2, <3>3 DEF Next
      <3>5. CASE generate_config(s)
        BY <2>0, <3>5
           DEF generate_config, generate_config_read, create_backup, create_backup_copy,
               update_blocked_ips_map_read, update_blocked_ips_map, write_coraza_spoe,
               write_haproxy_cfg, WriteRendered, validate_haproxy_config,
               reload_haproxy_safely_reload, reload_haproxy_safely_start,
               promote_current_config_to_backup, restore_backup, reload_restored, Return
      <3>6. CASE ~generate_config(s)
        BY <2>0, <3>4, <3>6
           DEF Step, update_blocked_ips_map_route, _promote_blocked_ips_map_to_backup,
               signal_haproxy, start_haproxy, start_haproxy_recheck, start_haproxy_launch
      <3> QED BY <3>5, <3>6
    <2>2. CASE restore_backup(t)
      <3>1. /\ backup["cfg"] # Absent /\ at[t] = 3 /\ pc[t] = "restore"
            /\ live' = Copied(live, backup, _config_backup_pairs[at[t]])
        BY <2>0, <2>2 DEF restore_backup, Return
      <3>2. Loads(backup) /\ live["cfg"] = backup["cfg"] /\ live["map"] = backup["map"]
        BY <2>0, <3>1 DEF ReliedSet, RestoredSoFar, Relied, Restoring, Target
      <3> QED BY <2>0, <3>1, <3>2, CopyOfLoading
    <2>3. CASE reload_restored(t)
      BY <2>0, <2>3 DEF reload_restored, RestoredLoads, Loads
    <2> QED BY <2>1, <2>2, <2>3
  <1>2. SetInv /\ SetInv' /\ [Next]_vars => [Honest]_vars
    BY <1>1
  <1> QED BY <1>2, SetInvHolds, PTL DEF Spec, RollbackHonest
=============================================================================
