------------------------------ MODULE Backups ------------------------------
(***************************************************************************)
(* The dumps of the database: a loop in the backup container makes one a   *)
(* night and deletes old ones, an operator makes others by hand, and       *)
(* either may fail, or be stopped with the container, at any point.        *)
(*                                                                         *)
(* A day begins at 03:00, and a dump takes less than a day.                *)
(***************************************************************************)
EXTENDS Naturals

CONSTANTS
  KeepDays,      (* KEEP_DAYS                                              *)
  Days,          (* bound on the days                                      *)
  MaxManual      (* bound on the dumps made by hand                        *)

ASSUME KeepAssumption == {KeepDays, Days, MaxManual} \subseteq Nat

VARIABLES
  day,
  dumps,      (* the files rapt-*.dump                                     *)
  partial,    (* the days of the files rapt-*.dump.partial                 *)
  loop,       (* where backup-loop.sh is                                   *)
  byHand,     (* the number of the manual dump under way, or 0             *)
  manual,     (* how many there were                                       *)
  nights      (* the days whose dump was written (a record of the model)   *)

backupVars == <<day, dumps, partial, loop, byHand, manual, nights>>

-----------------------------------------------------------------------------
(* number: 0 for the dump of a night. day: of its last write.              *)
Dump == [day : Nat, number : Nat, whole : BOOLEAN]

Nightly(d, whole) == [day |-> d, number |-> 0, whole |-> whole]
Manual(d, n, whole) == [day |-> d, number |-> n, whole |-> whole]

BackupTypeOK ==
  /\ day \in Nat /\ dumps \subseteq Dump
  /\ partial \subseteq 0 .. day /\ nights \subseteq 0 .. day
  /\ loop \in {"down", "asleep", "dumping", "dumped", "pruning"}
  /\ manual \in 0 .. MaxManual /\ byHand \in 0 .. manual

BackupInit ==
  /\ day = 0 /\ dumps = {} /\ partial = {} /\ nights = {}
  /\ loop = "asleep" /\ byHand = 0 /\ manual = 0

-----------------------------------------------------------------------------
(* The next 03:00: the loop wakes up, and pg_dump opens its file.          *)
NextDay ==
  /\ day < Days /\ loop \in {"down", "asleep"} /\ byHand = 0
  /\ day' = day + 1
  /\ loop' = IF loop = "asleep" THEN "dumping" ELSE loop
  /\ partial' = IF loop = "asleep" THEN partial \cup {day + 1} ELSE partial
  /\ UNCHANGED <<dumps, byHand, manual, nights>>

DumpEnds ==
  /\ loop = "dumping"
  /\ loop' = "dumped"
  /\ UNCHANGED <<day, dumps, partial, byHand, manual, nights>>

(* mv, after pg_dump has succeeded.                                        *)
Move ==
  /\ loop = "dumped"
  /\ loop' = "pruning"
  /\ dumps' = dumps \cup {Nightly(day, TRUE)}
  /\ partial' = partial \ {day}
  /\ nights' = nights \cup {day}
  /\ UNCHANGED <<day, byHand, manual>>

MutantDumpFails ==
  /\ loop = "dumping"
  /\ loop' = "pruning"
  /\ dumps' = dumps \cup {Nightly(day, FALSE)}
  /\ partial' = partial \ {day}
  /\ UNCHANGED <<day, byHand, manual, nights>>

DumpFails ==
  /\ loop \in {"dumping", "dumped"}
  /\ loop' = "pruning"
  /\ partial' = partial \ {day}
  /\ UNCHANGED <<day, dumps, byHand, manual, nights>>

(* find -mtime +KEEP_DAYS counts whole days since the last write, at       *)
(* another time of day; a manual dump is a file like the others. It runs   *)
(* whether the dump of the night was made or failed.                       *)
Prune ==
  /\ loop = "pruning"
  /\ loop' = "asleep"
  /\ \E gone \in SUBSET {d \in dumps : d.day + KeepDays < day} :
       /\ {d \in dumps : d.day + KeepDays + 1 < day} \subseteq gone
       /\ dumps' = dumps \ gone
  /\ UNCHANGED <<day, partial, byHand, manual, nights>>

(* backup-now.sh: the shell opens the file first. Without the container    *)
(* there is nothing to run in.                                             *)
BackupNow ==
  /\ byHand = 0 /\ manual < MaxManual
  /\ manual' = manual + 1
  /\ dumps' = dumps \cup {Manual(day, manual + 1, FALSE)}
  /\ byHand' = IF loop = "down" THEN 0 ELSE manual + 1
  /\ UNCHANGED <<day, partial, loop, nights>>

EndByHand ==
  /\ byHand # 0
  /\ \E whole \in BOOLEAN :
       dumps' = (dumps \ {Manual(day, byHand, FALSE)}) \cup {Manual(day, byHand, whole)}
  /\ byHand' = 0
  /\ UNCHANGED <<day, partial, loop, manual, nights>>

(* The container stops, with whatever runs in it.                          *)
Stop ==
  /\ loop # "down"
  /\ loop' = "down" /\ byHand' = 0
  /\ UNCHANGED <<day, dumps, partial, manual, nights>>

StartLoop ==
  /\ loop = "down"
  /\ loop' = "asleep"
  /\ UNCHANGED <<day, dumps, partial, byHand, manual, nights>>

BackupNext ==
  \/ NextDay \/ DumpEnds \/ Move \/ DumpFails \/ Prune
  \/ BackupNow \/ EndByHand \/ Stop \/ StartLoop

BackupSpec == BackupInit /\ [][BackupNext]_backupVars

-----------------------------------------------------------------------------
(* Properties *)

(* A file that looks like the dump of a night is a complete one, wherever  *)
(* the loop failed or was stopped. (A manual one may be cut short.)        *)
NightsAreWhole == \A d \in dumps : d.number = 0 => d.whole /\ d.day \in nights

(* "keeps 14 days": a night's dump is there that long, also beside manual  *)
(* ones and nights that failed.                                            *)
NightsAreKept == \A n \in nights : n + KeepDays >= day => Nightly(n, TRUE) \in dumps

(* What an operator restores from is what its name says.                   *)
DumpsAsPromised == NightsAreWhole /\ NightsAreKept
=============================================================================
