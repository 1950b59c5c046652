------------------------------ MODULE Preferences ------------------------------
(***************************************************************************)
(* The preference files: NodeDB's segments in RAM, SafeFile's way of       *)
(* replacing a file on each platform, the retry of saveToDisk(), edit      *)
(* transactions, deferred node updates, backup and restore, factory reset, *)
(* flash faults and a loss of power between any two steps.                 *)
(*                                                                         *)
(* A value of a segment is a number, 0 the default; the file system is     *)
(* external: a file that is closed without a fault is whole, one that is   *)
(* open when the power goes holds anything.                                *)
(***************************************************************************)
EXTENDS Integers, Sequences, FiniteSets

CONSTANTS
    Segments,       \* the segments of this instance, out of AllSegments
    Platforms,      \* the platforms of this instance
    MaxValue, MaxCrashes, MaxFaults         \* bounds

AllSegments == {"config", "moduleconfig", "channels", "devicestate", "nodedatabase"}
AllPlatforms == {"ESP32", "NRF52", "RP2040", "STM32"}
Files == Segments \cup {"backup"}

\* A file that is not there (or empty), one that does not decode, and one that
\* decodes to less than was saved: protobuf fields that are cut off are defaults.
Absent == -1
Torn == -2
Damaged == -3
Values == (0..MaxValue) \cup {Damaged}
Contents == Values \cup {Absent, Torn}

PreferenceAssumption ==
    /\ Segments \subseteq AllSegments
    /\ {"devicestate", "nodedatabase"} \subseteq Segments
    /\ Platforms \subseteq AllPlatforms /\ Platforms # {}
    /\ MaxValue \in Nat /\ MaxCrashes \in Nat /\ MaxFaults \in Nat
ASSUME PreferenceAssumption

VARIABLES
    platform,
    main, tmp,      \* by file: what the file and its ".tmp" hold
    ram,
    job,            \* the save in progress
    step,           \* how far SafeFile is with the file in hand
    okay,           \* saveProto(): what pb_encode() returned
    match,          \* what the file reads back as has the hash of what was written
    booting,        \* NodeDB's constructor has not made its last save yet
    editing,        \* hasOpenEditTransaction
    unsaved,        \* history: segments changed in RAM and not saved since
    crashes, faults
disk == << main, tmp >>
file == << job, step, okay, match >>
vars == << platform, disk, ram, file, booting, editing, unsaved, crashes, faults >>

Steps == {"idle", "open", "write", "close", "replace", "rename", "copy", "clean",
          "remove", "off"}
Jobs == [what : SUBSET Files, left : Seq(Files), ok : BOOLEAN, retry : BOOLEAN]
NoJob == [what |-> {}, left |-> << >>, ok |-> TRUE, retry |-> FALSE]

\* Every variable has its type and a save has a file in hand.
TypeOK ==
    /\ platform \in Platforms
    /\ main \in [Files -> Contents] /\ tmp \in [Files -> Contents]
    /\ ram \in [Segments -> Values]
    /\ job \in Jobs /\ step \in Steps /\ okay \in BOOLEAN /\ match \in BOOLEAN
    /\ (step \in {"idle", "remove", "off"}) <=> (job = NoJob)
    /\ (job # NoJob => job.left # << >>)
    /\ booting \in BOOLEAN /\ editing \in BOOLEAN
    /\ unsaved \subseteq Segments
    /\ crashes \in 0..MaxCrashes /\ faults \in 0..MaxFaults
--------------------------------------------------------------------------------
(***************************************************************************)
(* Loading and starting a save.                                            *)
(***************************************************************************)

\* loadProto() and what loadFromDisk() makes of its result.
MutantLoad(c) == IF c = Absent THEN 0 ELSE c
Load(c) == IF c \in {Absent, Torn} THEN 0 ELSE c

Init ==
    /\ platform \in Platforms
    /\ main = [f \in Files |-> IF f = "backup" THEN Absent ELSE 0]
    /\ tmp = [f \in Files |-> Absent]
    /\ ram = [s \in Segments |-> 0]
    /\ job = NoJob /\ step = "idle" /\ okay = TRUE /\ match = TRUE
    /\ booting = FALSE /\ editing = FALSE
    /\ unsaved = {} /\ crashes = 0 /\ faults = 0

\* saveToDiskNoRetry(): the segments it is told to save, in its order; the backup
\* is never saved with them.
InOrder(what) ==
    LET If(f) == IF f \in what THEN << f >> ELSE << >>
    IN  If("config") \o If("moduleconfig") \o If("channels")
            \o If("devicestate") \o If("nodedatabase") \o If("backup")

Idle == step = "idle" /\ ~booting

\* saveToDisk(what); a save outside of it (the backup, the first node database)
\* is not tried again. Saving nothing does nothing.
Begin(what, retry) ==
    IF what = {}
    THEN UNCHANGED << file, unsaved >>
    ELSE /\ job' = [what |-> what, left |-> InOrder(what), ok |-> TRUE, retry |-> retry]
         /\ step' = "open" /\ okay' = TRUE /\ match' = TRUE
         /\ unsaved' = unsaved \ what
--------------------------------------------------------------------------------
(***************************************************************************)
(* SafeFile, one file system call or one copy loop at a time.              *)
(***************************************************************************)
Hand == Head(job.left)
InPlace == platform = "NRF52"
\* Only the device state is saved with fullAtomic.
FullAtomic == Hand = "devicestate"
Written == IF Hand = "backup" THEN ram["devicestate"] ELSE ram[Hand]
Fault == faults < MaxFaults /\ faults' = faults + 1
NoFault == UNCHANGED faults
Rest == << platform, ram, booting, editing, crashes >>

\* The file in hand is done with, for saveProto() returns ok whatever close() said;
\* m and t are what the disk holds then. The last file ends the save or starts the
\* second try, which formats the flash of an NRF52 first.
Finish(ok, m, t) ==
    LET success == job.ok /\ ok
    IN  /\ okay' = TRUE /\ match' = TRUE
        /\ IF Len(job.left) > 1
           THEN /\ job' = [job EXCEPT !.left = Tail(@), !.ok = success]
                /\ step' = "open" /\ main' = m /\ tmp' = t
           ELSE IF ~success /\ job.retry
           THEN /\ job' = [job EXCEPT !.left = InOrder(job.what), !.ok = TRUE, !.retry = FALSE]
                /\ step' = "open"
                /\ main' = [f \in Files |-> IF InPlace THEN Absent ELSE m[f]]
                /\ tmp' = [f \in Files |-> IF InPlace THEN Absent ELSE t[f]]
           ELSE job' = NoJob /\ step' = "idle" /\ main' = m /\ tmp' = t

Advance(s) == step' = s /\ UNCHANGED << job, okay, match >>

\* openFile(): the old file goes first, unless the write is fully atomic.
OpenFile ==
    LET m == IF InPlace \/ ~FullAtomic THEN [main EXCEPT ![Hand] = Absent] ELSE main
    IN  /\ step = "open"
        /\ \/ NoFault /\ Advance("write") /\ main' = m /\ UNCHANGED tmp
           \/ Fault /\ Finish(FALSE, m, tmp)
        /\ UNCHANGED << Rest, unsaved >>

\* The encoder writes through SafeFile::write(); the .tmp of an STM32 is opened at
\* its end. A write that fails is noticed (noticed) or not.
WriteFile ==
    LET appended == platform = "STM32" /\ tmp[Hand] # Absent
        Put(c) == IF InPlace THEN main' = [main EXCEPT ![Hand] = c] /\ UNCHANGED tmp
                  ELSE tmp' = [tmp EXCEPT ![Hand] = c] /\ UNCHANGED main
    IN  /\ step = "write" /\ step' = "close" /\ UNCHANGED job
        /\ \/ /\ NoFault /\ okay' = TRUE
              /\ match' = ~appended /\ Put(IF appended THEN Torn ELSE Written)
           \/ /\ Fault /\ match' = FALSE
              /\ \E noticed \in BOOLEAN, c \in {Torn, Damaged} : okay' = ~noticed /\ Put(c)
        /\ UNCHANGED << Rest, unsaved >>

\* close() up to testReadback(), which may fail to open the file.
MutantCloseFile ==
    /\ step = "close" /\ NoFault
    /\ IF InPlace THEN Finish(okay, main, tmp)
       ELSE Advance("replace") /\ UNCHANGED disk
    /\ UNCHANGED << Rest, unsaved >>
CloseFile ==
    /\ step = "close"
    /\ IF InPlace THEN NoFault /\ Finish(okay, main, tmp)
       ELSE \/ NoFault /\ match /\ Advance("replace") /\ UNCHANGED disk
            \/ NoFault /\ ~match /\ Finish(okay, main, tmp)
            \/ Fault /\ Finish(okay, main, tmp)
    /\ UNCHANGED << Rest, unsaved >>

\* The "brief window of risk" of a fully atomic write.
MutantReplace ==
    /\ step = "replace" /\ NoFault
    /\ IF FullAtomic
       THEN Advance("rename") /\ main' = [main EXCEPT ![Hand] = Absent] /\ UNCHANGED tmp
       ELSE Finish(okay, main, tmp)
    /\ UNCHANGED << Rest, unsaved >>
Replace ==
    /\ step = "replace"
    /\ \/ /\ NoFault /\ Advance("rename") /\ UNCHANGED tmp
          /\ main' = IF FullAtomic THEN [main EXCEPT ![Hand] = Absent] ELSE main
       \/ Fault /\ FullAtomic /\ Finish(okay, main, tmp)
    /\ UNCHANGED << Rest, unsaved >>

\* renameFile(): a rename on the ESP32, elsewhere a copy and a removal.
Rename ==
    /\ step = "rename"
    /\ \/ /\ NoFault
          /\ IF platform = "ESP32"
             THEN Finish(okay, [main EXCEPT ![Hand] = tmp[Hand]], [tmp EXCEPT ![Hand] = Absent])
             ELSE Advance("copy") /\ UNCHANGED disk
       \/ Fault /\ Finish(okay, main, tmp)
    /\ UNCHANGED << Rest, unsaved >>

\* copyFile() does not look at what write() returns.
CopyFile ==
    /\ step = "copy" /\ Advance("clean")
    /\ \/ NoFault /\ main' = [main EXCEPT ![Hand] = tmp[Hand]]
       \/ Fault /\ \E c \in {Torn, Damaged} : main' = [main EXCEPT ![Hand] = c]
    /\ UNCHANGED << tmp, Rest, unsaved >>

RemoveTmp ==
    /\ step = "clean"
    /\ \/ NoFault /\ Finish(okay, main, [tmp EXCEPT ![Hand] = Absent])
       \/ Fault /\ Finish(okay, main, tmp)
    /\ UNCHANGED << Rest, unsaved >>

SaveStep == OpenFile \/ WriteFile \/ CloseFile \/ Replace \/ Rename \/ CopyFile \/ RemoveTmp
--------------------------------------------------------------------------------
(***************************************************************************)
(* What is saved, and when.                                                *)
(***************************************************************************)
Still == << platform, disk, crashes, faults >>

\* AdminModule: a setter changes one segment; saveChanges() leaves the file alone
\* while an edit transaction is open.
Edit(s, v) ==
    /\ Idle /\ s # "nodedatabase" /\ ram[s] # v
    /\ ram' = [ram EXCEPT ![s] = v]
    /\ IF editing THEN unsaved' = unsaved \cup {s} /\ UNCHANGED file
       ELSE Begin({s}, TRUE)
    /\ UNCHANGED << Still, booting, editing >>

BeginEdit ==
    /\ Idle /\ ~editing /\ editing' = TRUE
    /\ UNCHANGED << Still, ram, file, booting, unsaved >>

MutantCommitEdit ==
    /\ Idle /\ editing' = FALSE
    /\ IF editing THEN UNCHANGED << file, unsaved >> ELSE Begin(Segments, TRUE)
    /\ UNCHANGED << Still, ram, booting >>
CommitEdit ==
    /\ Idle /\ editing' = FALSE /\ Begin(Segments, TRUE)
    /\ UNCHANGED << Still, ram, booting >>

\* updateUser(): saved at once, or left for later when the last save is less than
\* a minute ago.
UpdateUser(v) ==
    /\ Idle /\ ram["nodedatabase"] # v
    /\ ram' = [ram EXCEPT !["nodedatabase"] = v]
    /\ \/ Begin({"nodedatabase"}, TRUE)
       \/ unsaved' = unsaved \cup {"nodedatabase"} /\ UNCHANGED file
    /\ UNCHANGED << Still, booting, editing >>

\* removeNodeByNum() and resetNodes() save what they changed, once; the second saves
\* the device state as well, after the nodes.
SaveNodes(v, left) ==
    /\ Idle /\ ram' = [ram EXCEPT !["nodedatabase"] = v]
    /\ job' = [what |-> {left[i] : i \in DOMAIN left}, left |-> left, ok |-> TRUE, retry |-> FALSE]
    /\ step' = "open" /\ unsaved' = unsaved \ job'.what
    /\ UNCHANGED << Still, okay, match, booting, editing >>
RemoveNodeByNum(v) == ram["nodedatabase"] # v /\ SaveNodes(v, << "nodedatabase" >>)
ResetNodes == SaveNodes(0, << "nodedatabase", "devicestate" >>)

\* doDeepSleep() and the menus save everything.
SaveAll ==
    /\ Idle /\ Begin(Segments, TRUE)
    /\ UNCHANGED << Still, ram, booting, editing >>

BackupPreferences ==
    /\ Idle /\ Begin({"backup"}, FALSE)
    /\ UNCHANGED << Still, ram, booting, editing >>

\* The backup is looked at through the owner, which is part of the device state.
\* restorePreferences() takes any result of loadProto() for success: a backup that
\* does not decode is restored as what memset() and the decoder left.
RestorePreferences ==
    /\ Idle /\ main["backup"] # Absent
    /\ ram' = [ram EXCEPT !["devicestate"] =
                 IF main["backup"] = Torn THEN Damaged ELSE main["backup"]]
    /\ Begin({"devicestate"}, TRUE)
    /\ UNCHANGED << Still, booting, editing >>

\* factoryReset(): rmDir() takes the files one by one (and does nothing on an
\* STM32), then the defaults are installed and saved.
FactoryReset ==
    /\ Idle /\ step' = "remove"
    /\ UNCHANGED << Still, ram, job, okay, match, booting, editing, unsaved >>
RemoveFile(f) ==
    /\ step = "remove" /\ platform # "STM32"
    /\ \/ main[f] # Absent /\ main' = [main EXCEPT ![f] = Absent] /\ UNCHANGED tmp
       \/ tmp[f] # Absent /\ tmp' = [tmp EXCEPT ![f] = Absent] /\ UNCHANGED main
    /\ UNCHANGED << platform, ram, file, booting, editing, unsaved, crashes, faults >>
InstallDefaults ==
    /\ step = "remove"
    /\ platform # "STM32" => \A s \in Segments : main[s] = Absent /\ tmp[s] = Absent
    /\ ram' = [s \in Segments |-> 0] /\ Begin(Segments, TRUE)
    /\ UNCHANGED << Still, booting, editing >>

\* The power may go at any step: the file that is open is left with anything.
PowerLoss ==
    LET open == IF step \in {"write", "close"} THEN Written ELSE IF step = "copy" THEN tmp[Hand]
                ELSE Absent
        left == {Absent, Torn, Damaged, open}
    IN  /\ step # "off" /\ crashes < MaxCrashes /\ crashes' = crashes + 1
        /\ IF step = "copy" \/ (InPlace /\ step \in {"write", "close"})
           THEN (\E c \in left : main' = [main EXCEPT ![Hand] = c]) /\ UNCHANGED tmp
           ELSE IF step \in {"write", "close"}
           THEN (\E c \in left : tmp' = [tmp EXCEPT ![Hand] = c]) /\ UNCHANGED main
           ELSE UNCHANGED disk
        /\ job' = NoJob /\ step' = "off" /\ okay' = TRUE /\ match' = TRUE
        /\ ram' = [s \in Segments |-> 0]
        /\ booting' = FALSE /\ editing' = FALSE /\ unsaved' = {}
        /\ UNCHANGED << platform, faults >>

\* NodeDB's constructor: load every segment; a node database that is not there is
\* saved at once. It is all there is to save, or BootSave follows.
Boot ==
    /\ step = "off" /\ booting' = TRUE
    /\ ram' = [s \in Segments |-> Load(main[s])]
    /\ IF main["nodedatabase"] = Absent THEN Begin({"nodedatabase"}, FALSE)
       ELSE step' = "idle" /\ UNCHANGED << job, okay, match, unsaved >>
    /\ UNCHANGED << Still, editing >>

\* The segments the constructor finds changed (by their CRC) are saved.
BootSave(dirty) ==
    /\ step = "idle" /\ booting /\ booting' = FALSE
    /\ Begin(dirty, TRUE)
    /\ UNCHANGED << Still, ram, editing >>

Next ==
    \/ SaveStep
    \/ \E s \in Segments, v \in 0..MaxValue : Edit(s, v)
    \/ \E v \in 0..MaxValue : UpdateUser(v) \/ RemoveNodeByNum(v)
    \/ ResetNodes \/ BeginEdit \/ CommitEdit \/ SaveAll
    \/ BackupPreferences \/ RestorePreferences
    \/ FactoryReset \/ InstallDefaults \/ \E f \in Segments : RemoveFile(f)
    \/ PowerLoss \/ Boot \/ \E dirty \in SUBSET (Segments \ {"moduleconfig"}) : BootSave(dirty)

Spec == Init /\ [][Next]_vars
--------------------------------------------------------------------------------
(***************************************************************************)
(* Properties.                                                             *)
(***************************************************************************)

\* On an ESP32 no preference file is ever torn or cut short under its own name,
\* whenever the power goes and whichever call on the file system fails: it is
\* renamed only after it has read back as written (SafeFile::close()).
NeverTorn ==
    platform = "ESP32" => \A f \in Files : main[f] \notin {Torn, Damaged}

\* Between saves, and as long as the flash has not failed, a reboot finds every
\* setting as it is in RAM, but those of an open edit transaction and the node
\* updates saved less than a minute after others; whatever was lost before, in
\* crashes in the middle of saves, factory resets and restores.
RebootSafe ==
    (step = "idle" /\ faults = 0) =>
        \A s \in Segments :
            (s \in unsaved /\ (editing \/ s = "nodedatabase")) \/ Load(main[s]) = ram[s]

\* saveProto(): "return true for success": a save that returns true has stored
\* what it was told to save. NodeDB returns what the encoder returned and drops
\* what SafeFile::close() found.
ReturnsTrue == step # "open" /\ job # NoJob /\ step' = "idle" /\ job.ok /\ okay
SaveReported ==
    [][ReturnsTrue => \A s \in job.what \cap Segments : Load(main'[s]) = ram[s]]_vars

\* The files keep the promise of PreferenceStore: only the segment whose file is in
\* hand can be lost, and a save goes on to the next file only when this one holds
\* what is in RAM, unless the flash failed.
Promise == INSTANCE PreferenceStore WITH
    Default <- 0, None <- "none",
    stored <- [s \in Segments |-> Load(main[s])],
    hand <- IF job # NoJob /\ step # "open" /\ Hand \in Segments THEN Hand ELSE "none",
    on <- step # "off", resetting <- step = "remove", trouble <- faults > 0
StoreKept == Promise!Spec
================================================================================
