---------------------------- MODULE CdPlayback ------------------------------
(***************************************************************************)
(* The CD block of the first emulator (archived cs2.rs and lib.rs): the    *)
(* drive that plays, what the port delivers beside the data of sectors,    *)
(* and the handshake of a command.                                         *)
(***************************************************************************)
EXTENDS Naturals, Sequences

CONSTANTS
    VBlankPeriod, AudioPeriod, DataPeriod, IdlePeriod,   \* in one unit of time
    PollPeriod,       \* between two looks for a disc
    Disc,             \* the tracks: first and last sector, audio or data
    LeadOut,          \* the sector after the last track
    Files,            \* the directory: first sector and number of sectors
    MaxFree,          \* free blocks at the start
    MaxCommands,      \* commands of one run
    Root,          \* the sector of the root directory, as its descriptor says
    Directories,   \* sector |-> its records: sequences of [lba, dir]
    WorksWhileWriting   \* TRUE: Core 7 may run between two writes of a command

VARIABLES
    disc,             \* a disc is in the drive
    status,           \* the status without its PERI bit
    peri,             \* the PERI bit
    fad,              \* the sector under the pickup
    play_start, play_end,
    isaudio,          \* the track read last was audio
    connected,        \* the drive's filter leads to a partition
    free,             \* blocks free
    periodic_cycles, status_cycles,
    running,          \* the engine is serving the periods of a V-Blank
    csct, pend,       \* two bits of HIRQ
    commands,         \* commands issued
    curdirsect,     \* the directory's sector, 0 when none was read
    fileinfo,       \* the records read last
    infotranstype,  \* what the port delivers
    trans_buffer,   \* its length in words
    transfercount,  \* words delivered
    cdwnum,         \* words to deliver
    host,               \* what the host does next
    cr,                 \* who wrote each command register last
    command_pending,
    vblank_pending,
    cmok, scdq,         \* two bits of HIRQ
    periBit,               \* the PERI bit of the status
    active,             \* Core 7 is not to park
    core,               \* where Core 7 is
    executed            \* history: what was executed since the host began

-----------------------------------------------------------------------------
(***************************************************************************)
(* The drive of the first emulator's CD block (archived cs2.rs):           *)
(* the commands that move it and the periodic engine, which Core 7 runs    *)
(* once per V-Blank (exec_vblank) and which reads one sector per period it *)
(* finds owed. One V-Blank's run of the engine is several actions here,    *)
(* one per period, and no command comes in between: the code holds the     *)
(* lock. The pool of sector buffers (CdBuffers) is a count of free blocks, *)
(* which the host gives back one at a time. The subcode fields, the        *)
(* options and the repeat count, which no command sets, are left out; so   *)
(* is the SEEK status, which nothing assigns.                              *)
(***************************************************************************)

PlaybackAssumption ==
    /\ {VBlankPeriod, AudioPeriod, DataPeriod, IdlePeriod, PollPeriod} \subseteq Nat \ {0}
    /\ DataPeriod < AudioPeriod /\ AudioPeriod < IdlePeriod /\ VBlankPeriod <= PollPeriod
    /\ Files \subseteq [lba : Nat, sectors : Nat]
    /\ {LeadOut, MaxFree, MaxCommands} \subseteq Nat
    /\ Disc \in Seq([start : Nat, end : Nat, audio : BOOLEAN]) /\ Disc # <<>>

driveVars == <<disc, status, peri, fad, play_start, play_end, isaudio, connected,
          free, periodic_cycles, status_cycles, running, csct, pend, commands>>

drive == <<status, peri, fad, play_start, play_end, isaudio>>

clock == <<periodic_cycles, status_cycles, running>>

\* fad_to_track: the track that holds a sector, if one does.
TracksAt(f) == {t \in DOMAIN Disc : Disc[t].start <= f /\ f <= Disc[t].end}

\* Where track n starts, or 150, the start of the disc, if there is none.
TrackToFad(n) == IF n \in DOMAIN Disc THEN Disc[n].start ELSE Disc[1].start

DriveInit ==
    /\ disc \in BOOLEAN
    /\ status = "PAUSE"
    /\ peri = FALSE
    /\ fad = Disc[1].start
    /\ play_start = Disc[1].start /\ play_end = Disc[1].start
    /\ isaudio = FALSE
    /\ connected = FALSE
    /\ free = MaxFree
    /\ periodic_cycles = 0 /\ status_cycles = 0
    /\ running = FALSE
    /\ csct = FALSE /\ pend = FALSE
    /\ commands = 0

-----------------------------------------------------------------------------
(* Commands.  Each is preceded by a write of CR1, which clears PERI. *)

Command ==
    /\ ~running
    /\ commands < MaxCommands
    /\ commands' = commands + 1
    /\ UNCHANGED <<disc, isaudio, csct, pend>>
    /\ UNCHANGED clock

SetStatus(s) == status' = s /\ peri' = FALSE

PlayFrom(start, end) ==
    /\ play_start' = start
    /\ play_end' = end
    /\ fad' = start
    /\ SetStatus("PLAY")

\* The host means a sector or a track.  The code tells them apart by the
\* opcode's byte, which is never zero: the number is always a track's.
PlayDisc(n, end) ==
    /\ Command
    /\ PlayFrom(IF disc THEN TrackToFad(n) ELSE n,
                IF end = 0 /\ disc THEN LeadOut ELSE end)
    /\ UNCHANGED <<connected, free>>

SeekDisc ==
    \E n \in 0 .. Len(Disc) + 1 :
        /\ Command
        /\ fad' = IF disc THEN TrackToFad(n) ELSE n
        /\ SetStatus("PAUSE")
        /\ UNCHANGED <<play_start, play_end, connected, free>>

ReadFile ==
    \E f \in Files :
        /\ Command
        /\ disc
        /\ PlayFrom(f.lba, f.lba + f.sectors)
        /\ UNCHANGED <<connected, free>>

\* Scan, open tray, abort file, and initialize with or without standby.
Restate ==
    /\ Command
    /\ \/ SetStatus("SCAN")
       \/ SetStatus("OPEN")
       \/ SetStatus("STANDBY")
       \/ SetStatus("PAUSE")
    /\ UNCHANGED <<fad, play_start, play_end, connected, free>>

ConnectFilter ==
    /\ Command
    /\ connected' = TRUE
    /\ peri' = FALSE
    /\ UNCHANGED <<status, fad, play_start, play_end, free>>

ReleaseBlock ==
    /\ Command
    /\ free < MaxFree
    /\ free' = free + 1
    /\ peri' = FALSE
    /\ UNCHANGED <<status, fad, play_start, play_end, connected>>

-----------------------------------------------------------------------------
(* The engine *)

PollDue(cycles) == cycles >= PollPeriod

\* The whole byte is compared: with PERI set an open tray is not OPEN.
FindsNoDisc == ~disc /\ (status # "OPEN" \/ peri)

VBlank ==
    /\ ~running
    /\ running' = TRUE
    /\ periodic_cycles' = periodic_cycles + VBlankPeriod
    /\ LET cycles == status_cycles + VBlankPeriod IN
       /\ status_cycles' = IF PollDue(cycles) THEN cycles - PollPeriod ELSE cycles
       /\ IF PollDue(cycles) /\ FindsNoDisc
          THEN SetStatus("NODISC") ELSE UNCHANGED <<status, peri>>
    /\ UNCHANGED <<disc, fad, play_start, play_end, isaudio, connected, free, csct, pend, commands>>

\* The period is chosen by the whole status byte: with PERI set it is not
\* PLAY, whatever the drive does.
Period ==
    IF status = "PLAY" /\ ~peri
    THEN IF isaudio THEN AudioPeriod ELSE DataPeriod
    ELSE IdlePeriod

EndRun ==
    /\ running
    /\ periodic_cycles < Period
    /\ running' = FALSE
    /\ UNCHANGED <<disc, drive, connected, free, periodic_cycles, status_cycles, csct, pend, commands>>

TakePeriod == periodic_cycles' = periodic_cycles - Period

\* A period while not playing: only the report.
StepIdle ==
    /\ running
    /\ periodic_cycles >= Period
    /\ status # "PLAY"
    /\ TakePeriod
    /\ peri' = TRUE
    /\ UNCHANGED <<disc, status, fad, play_start, play_end, isaudio, connected,
                   free, status_cycles, running, csct, pend, commands>>

StepWithoutDisc ==
    /\ running
    /\ periodic_cycles >= Period
    /\ status = "PLAY"
    /\ ~disc
    /\ TakePeriod
    /\ SetStatus("NODISC")
    /\ UNCHANGED <<disc, fad, play_start, play_end, isaudio, connected,
                   free, status_cycles, running, csct, pend, commands>>

\* What the sector under the pickup is, or was when it is in no track.
SectorIsAudio ==
    IF TracksAt(fad) = {} THEN isaudio
    ELSE Disc[CHOOSE t \in TracksAt(fad) : TRUE].audio

\* process_filtered_sector: a data sector takes a block if one is free.
FreeAfter(data) == IF data /\ connected /\ free > 0 THEN free - 1 ELSE free

Reached == fad + 1 >= play_end

EndOfPlay == fad' = fad + 1 /\ SetStatus("PAUSE") /\ pend' = TRUE

\* step_playback: a data sector is stored if a block is free, and the drive
\* goes on to the next sector in any case.
StepPlayback ==
    /\ running
    /\ periodic_cycles >= Period
    /\ status = "PLAY"
    /\ disc
    /\ TakePeriod
    /\ isaudio' = SectorIsAudio
    /\ LET data == TracksAt(fad) # {} /\ ~isaudio' IN
       /\ free' = FreeAfter(data)
       /\ csct' = (csct \/ data)
    /\ IF Reached THEN EndOfPlay
       ELSE fad' = fad + 1 /\ peri' = TRUE /\ UNCHANGED <<status, pend>>
    /\ UNCHANGED <<disc, play_start, play_end, connected, status_cycles, running, commands>>

Positions == 0 .. LeadOut

PlayCommand ==
    \E n \in Positions, end \in Positions : PlayDisc(n, end)

Engine == VBlank \/ EndRun \/ StepIdle \/ StepWithoutDisc \/ StepPlayback

DriveNext ==
    \/ PlayCommand
    \/ SeekDisc
    \/ ReadFile
    \/ Restate
    \/ ConnectFilter
    \/ ReleaseBlock
    \/ Engine

-----------------------------------------------------------------------------
\* Between two V-Blanks less than one idle period is left over, and less than
\* one poll: time is carried from one V-Blank to the next, and neither piles
\* up nor makes a later V-Blank serve a burst.
RemaindersAreSmall ==
    /\ ~running => periodic_cycles < IdlePeriod
    /\ status_cycles < PollPeriod

\* A drive that plays has not passed the end of its range, unless it has only
\* just been told to start there: a command changes start, end and position
\* together, and the engine compares after every sector.
PlaysWithinRange ==
    status = "PLAY" => fad < play_end \/ fad = play_start

\* Only the data of a data track takes a block: across the border of two
\* tracks no audio sector is stored, though the kind is read from the disc in
\* the step that stores.
StoresOnlyData ==
    free' < free => \E t \in TracksAt(fad) : ~Disc[t].audio

-----------------------------------------------------------------------------
(***************************************************************************)
(* The directory the CD block of the archived emulator keeps, and the      *)
(* information port (saturn-core/src/cs2.rs). A command copies a table of  *)
(* contents, a subcode or a file record into trans_buffer, and the host    *)
(* reads it from the port a word at a time while it may issue others. A    *)
(* directory is the sequence of its records in its first sector, the only  *)
(* one read_filesystem_directory looks at; what a record says besides      *)
(* where the file is, and how records are laid out, is left out.           *)
(***************************************************************************)

FilesAssumption ==
    /\ Root \in DOMAIN Directories /\ Root # 0
    /\ \A s \in DOMAIN Directories :
         Directories[s] \in Seq([lba : Nat \ {0}, dir : BOOLEAN])

portVars == <<curdirsect, fileinfo, infotranstype, trans_buffer, transfercount, cdwnum>>

port == <<infotranstype, trans_buffer, transfercount, cdwnum>>

directory == <<curdirsect, fileinfo>>

PortInit ==
    /\ curdirsect = 0
    /\ fileinfo = <<>>
    /\ infotranstype = "Idle"
    /\ trans_buffer = 0
    /\ transfercount = 0
    /\ cdwnum = 0

-----------------------------------------------------------------------------
ReadRecords(sector) == fileinfo' = Directories[sector]

\* read_filesystem_directory: file 0 is the root wherever one is; a number past
\* the records reads the current directory again.  The host names directories.
ChangeDirectory ==
    \E fid \in 0 .. Len(fileinfo) :
        LET goes_to == IF fid = 0 \/ curdirsect = 0 THEN Root
                       ELSE IF fid < Len(fileinfo) THEN fileinfo[fid + 1].lba
                       ELSE curdirsect
        IN
        /\ goes_to \in DOMAIN Directories
        /\ curdirsect' = goes_to
        /\ ReadRecords(goes_to)
        /\ UNCHANGED port

\* A command that fills trans_buffer with so many words and announces so many.
FillPort(type, words, announced) ==
    /\ infotranstype' = type
    /\ trans_buffer' = words
    /\ cdwnum' = announced
    /\ transfercount' = 0
    /\ UNCHANGED directory

\* 102 entries of four bytes, announced as 0x66 words.
GetToc == FillPort("Toc", 204, 102)

GetSubcode == FillPort("SubQ", 5, 5) \/ FillPort("SubRw", 12, 12)

GetFileInfo ==
    \E fid \in 0 .. Len(fileinfo) :
        /\ fid < Len(fileinfo)
        /\ FillPort("SingleFile", 6, 6)

EndDataTransfer ==
    /\ infotranstype # "Idle"
    /\ infotranstype' = "Idle"
    /\ UNCHANGED <<directory, trans_buffer, transfercount, cdwnum>>

\* The port closes with the last word announced.
AfterWord == IF transfercount + 1 >= cdwnum THEN "Idle" ELSE infotranstype

ReadInfoPort ==
    /\ infotranstype # "Idle"
    /\ IF transfercount < trans_buffer
       THEN /\ transfercount' = transfercount + 1
            /\ infotranstype' = AfterWord
       ELSE /\ infotranstype' = "Idle"
            /\ UNCHANGED transfercount
    /\ UNCHANGED <<directory, trans_buffer, cdwnum>>

PortNext ==
    \/ ChangeDirectory
    \/ GetToc
    \/ GetSubcode
    \/ GetFileInfo
    \/ EndDataTransfer
    \/ ReadInfoPort

-----------------------------------------------------------------------------
\* The records a file command indexes are those of the directory the CD block
\* says it is in, after any path up and down the tree.
RecordsAreOfDirectory ==
    curdirsect # 0 => fileinfo = Directories[curdirsect]

DeliversWholeRecords ==
    \A type \in {"SubQ", "SubRw", "SingleFile"} :
       infotranstype = type /\ transfercount' # transfercount /\ transfercount' > 0
         => (infotranstype' = "Idle" <=> transfercount' = trans_buffer)

-----------------------------------------------------------------------------
(***************************************************************************)
(* How a command reaches the CD block of the first emulator (archived      *)
(* cs2.rs, sh2.rs, lib.rs). The host, the master SH-2, writes CR1          *)
(* to CR4 one after the other, waits for CMOK in HIRQ and reads the answer *)
(* from the same four registers. Core 7 executes the command when it is    *)
(* awake and finds command_pending set; it is woken by the write of CR4,   *)
(* and by every V-Blank, which also makes it write its periodic report     *)
(* into the four registers. The registers are behind one lock, so each     *)
(* access of the host and each visit of Core 7 is one step. What a         *)
(* register holds is kept as who wrote it last.                            *)
(***************************************************************************)

CommandsAssumption == WorksWhileWriting \in BOOLEAN

CR == 1 .. 4

commandVars == <<host, cr, command_pending, vblank_pending, cmok, scdq, periBit, active, core, executed>>

Writing == host \in {"cr2", "cr3", "cr4"}

CommandInit ==
    /\ host = "clear"
    /\ cr = [r \in CR |-> "reset"]
    /\ command_pending = FALSE
    /\ vblank_pending = FALSE
    /\ cmok = TRUE /\ scdq = TRUE
    /\ periBit = FALSE
    /\ active = FALSE
    /\ core = "parked"
    /\ executed = "nothing"

-----------------------------------------------------------------------------
(* The host *)

\* The write of HIRQ is an AND mask; the host clears both bits.
HirqWrite(bit) == FALSE

HostClears ==
    /\ host = "clear"
    /\ cmok' = HirqWrite(cmok)
    /\ scdq' = HirqWrite(scdq)
    /\ host' = "cr1"
    /\ UNCHANGED <<cr, command_pending, vblank_pending, periBit, active, core, executed>>

WriteCR1 ==
    /\ host = "cr1"
    /\ cr' = [cr EXCEPT ![1] = "command"]
    /\ periBit' = FALSE
    /\ command_pending' = TRUE
    /\ host' = "cr2"
    /\ executed' = "nothing"
    /\ UNCHANGED <<vblank_pending, cmok, scdq, active, core>>

WriteCR2 ==
    /\ host = "cr2"
    /\ cr' = [cr EXCEPT ![2] = "command"]
    /\ host' = "cr3"
    /\ UNCHANGED <<command_pending, vblank_pending, cmok, scdq, periBit, active, core, executed>>

WriteCR3 ==
    /\ host = "cr3"
    /\ cr' = [cr EXCEPT ![3] = "command"]
    /\ host' = "cr4"
    /\ UNCHANGED <<command_pending, vblank_pending, cmok, scdq, periBit, active, core, executed>>

\* write_cs2_word releases the lock before it wakes Core 7.
WriteCR4 ==
    /\ host = "cr4"
    /\ cr' = [cr EXCEPT ![4] = "command"]
    /\ command_pending' = TRUE
    /\ host' = "wake"
    /\ UNCHANGED <<vblank_pending, cmok, scdq, periBit, active, core, executed>>

WakeCore ==
    /\ host = "wake"
    /\ active' = TRUE
    /\ host' = "wait"
    /\ UNCHANGED <<cr, command_pending, vblank_pending, cmok, scdq, periBit, core, executed>>

\* Reading CR4, the last of the answer, clears command_pending.
ReadAnswer ==
    /\ host = "wait"
    /\ cmok
    /\ command_pending' = FALSE
    /\ host' = "clear"
    /\ UNCHANGED <<cr, vblank_pending, cmok, scdq, periBit, active, core, executed>>

\* The master SH-2 enters V-Blank, between any two accesses of the host.
VBlankIn ==
    /\ vblank_pending' = TRUE
    /\ active' = TRUE
    /\ UNCHANGED <<host, cr, command_pending, cmok, scdq, periBit, core, executed>>

-----------------------------------------------------------------------------
(* Core 7 *)

Unpark ==
    /\ core = "parked"
    /\ active
    /\ core' = "work"
    /\ UNCHANGED <<host, cr, command_pending, vblank_pending, cmok, scdq, periBit, active, executed>>

\* What execute_command makes of the opcode in CR1: a command of the host, or
\* the top byte of what the CD block itself wrote there.  With PERI set that
\* byte is no opcode; without it, it is the one of a status command.
Dispatches(from) == from # "report"

\* execute_command clears CMOK; the handler writes the answer and sets it.
Executed(regs) ==
    IF Dispatches(regs[1])
    THEN [cr |-> [r \in CR |-> "answer"], cmok |-> TRUE,
          what |-> IF \A r \in CR : regs[r] = "command" THEN "whole" ELSE "part"]
    ELSE [cr |-> regs, cmok |-> FALSE, what |-> "unknown"]

\* Whether the visit executes a command.
ExecutesNow == command_pending

Work ==
    /\ core = "work"
    /\ WorksWhileWriting \/ ~Writing
    /\ LET done == IF ExecutesNow THEN Executed(cr)
                   ELSE [cr |-> cr, cmok |-> cmok, what |-> executed]
       IN /\ cr' = IF vblank_pending THEN [r \in CR |-> "report"] ELSE done.cr
          /\ cmok' = done.cmok
          /\ executed' = done.what
    /\ command_pending' = FALSE
    /\ periBit' = (periBit \/ vblank_pending)
    /\ scdq' = (scdq \/ vblank_pending)
    /\ vblank_pending' = FALSE
    /\ core' = "leave"
    /\ UNCHANGED <<host, active>>

\* Core 7 goes to park; what arrived since its work waits for the next wake.
Leave ==
    /\ core = "leave"
    /\ active' = FALSE
    /\ core' = "parked"
    /\ UNCHANGED <<host, cr, command_pending, vblank_pending, cmok, scdq, periBit, executed>>

Host == HostClears \/ WriteCR1 \/ WriteCR2 \/ WriteCR3 \/ WriteCR4 \/ WakeCore \/ ReadAnswer

Core7 == Unpark \/ Work \/ Leave

CommandNext == Host \/ VBlankIn \/ Core7

-----------------------------------------------------------------------------
\* CMOK, once the host cleared it and wrote its command, says that this
\* command was executed, with all four of its words: the flag is never left
\* over from the one before, nor set by a periodic report.
CmokIsOfThisCommand == host = "wait" /\ cmok => executed = "whole"

=============================================================================
