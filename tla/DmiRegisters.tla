---------------------------- MODULE DmiRegisters ----------------------------
(***************************************************************************)
(* The registers of the debug module behind the debug module interface,    *)
(* rtl/debug/dmi.py and rtl/debug/dm_registers.py.  One access at most is  *)
(* made in a clock.  The status registers (dmstatus, hartinfo) are views   *)
(* of this state; a read of them changes nothing.                          *)
(***************************************************************************)
EXTENDS Naturals

CONSTANTS
    Words,          \* what a word of the Program Buffer can be
    Data,           \* what a data register can hold
    Regs            \* register numbers

VARIABLES
    state, req_ack,                         \* inputs: the hart
    command_state, abstract_command_result, \* inputs: the command sequencer
    dmactive, haltreq, resumereq, resumeack, ndmreset, havereset,
    abstract_command_new, cmderr, abstract_busy_error, command,
    auto, data_regs, progbuf

dmiVars == <<dmactive, haltreq, resumereq, resumeack, ndmreset, havereset,
             abstract_command_new, cmderr, abstract_busy_error, command,
             auto, data_regs, progbuf>>

\* cmderr is the set of its bits.
None == {}
Busy == {0}
NotSupported == {1}
Exception == {0, 1}
HartRunning == {2}

Buffers == {"data", "progbuf0", "progbuf1"}     \* what autoexec can watch
Commands == [transfer : BOOLEAN, write : BOOLEAN, postexec : BOOLEAN, regno : Regs]

DmiTypeOK ==
    /\ dmactive \in BOOLEAN /\ haltreq \in BOOLEAN /\ resumereq \in BOOLEAN
    /\ resumeack \in BOOLEAN /\ ndmreset \in BOOLEAN /\ havereset \in BOOLEAN
    /\ abstract_command_new \in BOOLEAN /\ abstract_busy_error \in BOOLEAN
    /\ cmderr \in SUBSET (0 .. 2)
    /\ command \in Commands
    /\ auto \in SUBSET Buffers
    /\ data_regs \in Data
    /\ progbuf \in [0 .. 1 -> Words]

NoCommand == [transfer |-> FALSE, write |-> FALSE, postexec |-> FALSE,
              regno |-> CHOOSE r \in Regs : TRUE]

DmiInit ==
    /\ dmactive = FALSE /\ haltreq = FALSE /\ resumereq = FALSE
    /\ resumeack = FALSE /\ ndmreset = FALSE /\ havereset = FALSE
    /\ abstract_command_new = FALSE /\ abstract_busy_error = FALSE
    /\ cmderr = None
    /\ command = NoCommand
    /\ auto = {}
    /\ data_regs \in Data
    /\ progbuf \in [0 .. 1 -> Words]

-----------------------------------------------------------------------------
(* Accesses: reads and writes of the buffers, and writes of the registers. *)
(* access_reg: the type of the command; supported: it is of this type and  *)
(* accesses a 32-bit general register or makes no transfer; clear: the     *)
(* bits written to abstractcs.cmderr.                                      *)

NoAccess == [op |-> "none"]

BufferReads == [op : {"read"}, adr : Buffers]
DataWrites == [op : {"write"}, adr : {"data"}, value : Data]
ProgbufWrites == [op : {"write"}, adr : {"progbuf0", "progbuf1"}, value : Words]
ControlWrites == [op : {"dmcontrol"}, dmactive : BOOLEAN, haltreq : BOOLEAN,
                  resumereq : BOOLEAN, ndmreset : BOOLEAN, ackhavereset : BOOLEAN]
CommandWrites == {w \in [op : {"command"}, command : Commands, access_reg : BOOLEAN,
                         supported : BOOLEAN] : w.supported => w.access_reg}
ErrorWrites == [op : {"abstractcs"}, clear : SUBSET (0 .. 2)]
AutoWrites == [op : {"abstractauto"}, auto : SUBSET Buffers]

Control(active, halt, resume) ==
    [op |-> "dmcontrol", dmactive |-> active, haltreq |-> halt, resumereq |-> resume,
     ndmreset |-> FALSE, ackhavereset |-> FALSE]
Command(transfer, write, postexec, regno) ==
    [op |-> "command", access_reg |-> TRUE, supported |-> TRUE,
     command |-> [transfer |-> transfer, write |-> write, postexec |-> postexec,
                  regno |-> regno]]

-----------------------------------------------------------------------------
(* What happens in the clock of an access.                                 *)

command_busy == abstract_command_new \/ command_state # "none"

IsBuffer(access) == access.op \in {"read", "write"}

\* The access needs the abstract command machinery to be at rest.
Conflicts(access) ==
    /\ IsBuffer(access) \/ access.op \in {"command", "abstractcs", "abstractauto"}
    /\ command_busy

\* An access of a watched buffer repeats the last command ...
Repeats(access) == IsBuffer(access) /\ access.adr \in auto /\ ~command_busy /\ cmderr = None

\* ... and a command starts it, unless the hart runs.
Asks(access) == access.op = "command" /\ ~command_busy /\ cmderr = None
Starts(access) ==
    /\ state = "halted"
    /\ Repeats(access) \/ (Asks(access) /\ access.supported)

\* The errors of an access ...
RefusedRunning(access) == state # "halted" /\ (Repeats(access) \/ Asks(access))
RefusedUnsupported(access) == state = "halted" /\ Asks(access) /\ ~access.supported

\* ... and of the command that is at work.
Reported ==
    IF cmderr # None THEN cmderr
    ELSE IF command_state = "failed"
         THEN (IF abstract_busy_error THEN Busy ELSE Exception)
    ELSE IF ~command_busy /\ abstract_busy_error THEN Busy ELSE cmderr

CmderrClock(access) ==
    cmderr' = IF RefusedRunning(access) THEN HartRunning
              ELSE IF RefusedUnsupported(access) THEN NotSupported
              ELSE IF access.op = "abstractcs" /\ ~command_busy THEN cmderr \ access.clear
              ELSE Reported

BusyErrorClock(access) ==
    abstract_busy_error' =
        \/ Conflicts(access) /\ cmderr = None
        \/ abstract_busy_error /\ command_busy /\ command_state # "failed"

CommandClocked(access) ==
    /\ abstract_command_new' = (Starts(access) \/ (abstract_command_new /\ command_state # "taken"))
    /\ command' = IF Asks(access) /\ state = "halted" /\ access.access_reg
                   THEN access.command ELSE command

\* The requests to the hart are written only while no command is at work.
RequestClock(access) ==
    LET writes == access.op = "dmcontrol" /\ access.dmactive /\ ~command_busy
        resumes == writes /\ ~access.haltreq /\ access.resumereq /\ state = "halted"
    IN  /\ haltreq' = IF writes THEN access.haltreq ELSE haltreq
        /\ resumereq' = (resumes \/ (resumereq /\ ~req_ack))
        /\ resumeack' = (~resumes /\ (resumeack \/ (req_ack /\ resumereq)))

ResetClock(access, hart_reset) ==
    LET writes == access.op = "dmcontrol" /\ access.dmactive
    IN  /\ ndmreset' = IF writes THEN access.ndmreset ELSE ndmreset
        /\ havereset' = IF writes /\ ~command_busy /\ access.ackhavereset THEN FALSE
                        ELSE havereset \/ hart_reset

Writes(access, adr) == access.op = "write" /\ access.adr = adr /\ ~command_busy

BufferClock(access) ==
    /\ data_regs' = IF Writes(access, "data") THEN access.value
                    ELSE IF command_state = "regvalid" THEN abstract_command_result
                    ELSE data_regs
    /\ progbuf' = [i \in 0 .. 1 |->
                      IF Writes(access, IF i = 0 THEN "progbuf0" ELSE "progbuf1")
                      THEN access.value ELSE progbuf[i]]
    /\ auto' = IF access.op = "abstractauto" /\ ~command_busy THEN access.auto ELSE auto

\* While dmactive is off everything but the buffers is in reset.
Inactive(access) ==
    /\ ~dmactive
    /\ dmactive' = (access.op = "dmcontrol" /\ access.dmactive)
    /\ haltreq' = FALSE /\ resumereq' = FALSE /\ resumeack' = FALSE
    /\ ndmreset' = FALSE /\ havereset' = FALSE
    /\ abstract_command_new' = FALSE /\ abstract_busy_error' = FALSE
    /\ cmderr' = None /\ command' = NoCommand /\ auto' = {}
    /\ UNCHANGED <<data_regs, progbuf>>

Active(access, hart_reset) ==
    /\ dmactive
    /\ dmactive' = (access.op # "dmcontrol" \/ access.dmactive)
    /\ RequestClock(access)
    /\ ResetClock(access, hart_reset)
    /\ CommandClocked(access)
    /\ CmderrClock(access)
    /\ BusyErrorClock(access)
    /\ BufferClock(access)

DmiClock(access, hart_reset) == Inactive(access) \/ Active(access, hart_reset)

=============================================================================
