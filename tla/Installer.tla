------------------------------ MODULE Installer ------------------------------
(***************************************************************************)
(* The disk installer, userspace/install/phoenix-install.c: its prompts,   *)
(* then the steps of do_install.  Every command it runs may fail, and all  *)
(* failures but the first are ignored.  A question is answered by what one *)
(* fgets takes from the terminal: a line, or a piece of one that is longer *)
(* than the buffer, whose rest is left for the next question.  The texts   *)
(* of names and commands are left out; where a file ends up is not.        *)
(***************************************************************************)
EXTENDS Integers, Sequences, FiniteSets

CONSTANTS Disks,        \* the disks of the machine, in discovery order
          MaxRest       \* bound: pieces of a line after its first

VARIABLES ipc,          \* the step the installer is at, "off" before and after
          cfg,          \* install_config_t: target_disk and install_desktop
          consent,      \* the disk whose erasure the user agreed to, or "none"
          erased,       \* the disks this run of the installer gave a new partition table
          mounted,      \* whether the target's root is mounted on mnt
          service,      \* where asde-session.svc was written: none, target or live
          irc,          \* the exit status
          stdin,        \* pieces of a line that are still to be read
          toolong       \* whether a line was longer than its buffer, for the property

inputVars == <<stdin, toolong>>
instVars == <<ipc, cfg, consent, erased, mounted, service, irc, inputVars>>

NoConfig == [disk |-> "none", desktop |-> FALSE]

InstInit == /\ ipc = "off" /\ cfg = NoConfig /\ consent = "none" /\ erased = {} /\ mounted = FALSE
            /\ service = "none" /\ irc = 0 /\ stdin = <<>> /\ toolong = FALSE

\* Each run of the installer is looked at by itself: main starts with its
\* defaults, and when it has ended nothing refers to what it wrote.
InstStart == /\ ipc' = "welcome"
             /\ UNCHANGED <<cfg, consent, erased, mounted, service, irc, inputVars>>

InstReset == /\ ipc' = "off" /\ cfg' = NoConfig /\ consent' = "none" /\ erased' = {}
             /\ mounted' = FALSE /\ service' = "none" /\ irc' = 0
             /\ stdin' = <<>> /\ toolong' = FALSE

Leave(ret) == ipc' = "exit" /\ irc' = ret

\* What a piece begins with, as the questions tell it apart: a letter, or the
\* number of a disk.
Pieces == {"y", "n", "other"} \cup {Disks[d] : d \in DOMAIN Disks}

\* fgets: the next piece of the line; with none left the user types a line or
\* ends the input.
Gets(a) ==
    \/ stdin # <<>> /\ a = Head(stdin) /\ stdin' = Tail(stdin) /\ UNCHANGED toolong
    \/ stdin = <<>> /\ a = "eof" /\ UNCHANGED inputVars
    \/ /\ stdin = <<>> /\ a \in Pieces
       /\ \E n \in 0..MaxRest : stdin' \in [1..n -> Pieces]
       /\ toolong' = (toolong \/ stdin' # <<>>)

\* Mutant: the default answer is yes.
YesByDefault(a) == a # "n"

\* prompt_yn: the end of the input is a no, anything else is asked again.
Yes(a) == a = "y"
No(a) == a \in {"n", "eof"}

Prompt_yn(a, yes, no) == IF Yes(a) THEN yes ELSE IF No(a) THEN no ELSE ipc

step_welcome == /\ ipc = "welcome"
                /\ \E a \in Pieces \cup {"eof"} :
                      Gets(a) /\ ipc' = Prompt_yn(a, "discover", "exit")
                /\ UNCHANGED <<cfg, consent, erased, mounted, service, irc>>

\* discover_disks lists the disks that are there.
discover_disks == /\ ipc = "discover"
                  /\ \/ Disks # <<>> /\ ipc' = "select" /\ UNCHANGED irc
                     \/ Leave(1)
                  /\ UNCHANGED <<cfg, consent, erased, mounted, service, inputVars>>

\* prompt_int takes the end of the input for the first disk, and asks again
\* when it sees no number of a disk.
step_select_disk ==
    /\ ipc = "select"
    /\ \E a \in Pieces \cup {"eof"} :
          /\ Gets(a)
          /\ \/ /\ \E d \in DOMAIN Disks :
                      a = Disks[d] /\ cfg' = [cfg EXCEPT !.disk = a]
                /\ ipc' = "desktop"
             \/ a = "eof" /\ cfg' = [cfg EXCEPT !.disk = Disks[1]] /\ ipc' = "desktop"
             \/ a \in {"y", "n", "other"} /\ UNCHANGED <<cfg, ipc>>
    /\ UNCHANGED <<consent, erased, mounted, service, irc>>

step_desktop_choice == /\ ipc = "desktop"
                       /\ \E a \in Pieces \cup {"eof"} :
                             /\ Gets(a) /\ ipc' = Prompt_yn(a, "username", "username")
                             /\ cfg' = [cfg EXCEPT !.desktop = Yes(a)]
                       /\ UNCHANGED <<consent, erased, mounted, service, irc>>

\* Two names; any piece is one, and the end of the input is the default.
step_user_config == /\ ipc \in {"username", "hostname"}
                    /\ ipc' = IF ipc = "username" THEN "hostname" ELSE "confirm"
                    /\ \E a \in Pieces \cup {"eof"} : Gets(a)
                    /\ UNCHANGED <<cfg, consent, erased, mounted, service, irc>>

\* The user agrees by a line that is typed at this question and begins with y.
step_confirm ==
    /\ ipc = "confirm"
    /\ \E a \in Pieces \cup {"eof"} :
          /\ Gets(a) /\ ipc' = Prompt_yn(a, "partition", "exit")
          /\ consent' = IF a = "y" /\ stdin = <<>> THEN cfg.disk ELSE consent
    /\ UNCHANGED <<cfg, erased, mounted, service, irc>>

-----------------------------------------------------------------------------
(* do_install. *)

\* parted replaces the partition table, or fails, before that or after, and
\* ends the installation.
Partition == /\ ipc = "partition"
             /\ \/ /\ erased' = erased \cup {cfg.disk}
                   /\ ipc' = "format" /\ UNCHANGED irc
                \/ erased' \in {erased, erased \cup {cfg.disk}} /\ Leave(1)
             /\ UNCHANGED <<cfg, consent, mounted, service, inputVars>>

\* A run_cmd whose result is not looked at: done or failed, the next one comes.
Run(label) == ipc' = label /\ UNCHANGED <<cfg, consent, erased, irc, inputVars>>

\* Both mkfs commands.
Format == ipc = "format" /\ Run("mount") /\ UNCHANGED <<mounted, service>>

\* The mount works or fails, for one thing because mkfs has failed.
Mount == /\ ipc = "mount" /\ Run("dirs")
         /\ mounted' \in BOOLEAN
         /\ UNCHANGED service

\* Steps that write below mnt, to the target if it is mounted there and to the
\* live system if not; only for the service file is that kept.
WriteFiles(label) == Run(label) /\ UNCHANGED <<mounted, service>>

MakeDirs == ipc = "dirs" /\ WriteFiles("kernel")
CopyKernel == ipc = "kernel" /\ WriteFiles("grubcfg")
WriteGrubCfg == ipc = "grubcfg" /\ WriteFiles("bin")
CopyBin == ipc = "bin" /\ WriteFiles("etc")
WriteEtc == ipc = "etc" /\ WriteFiles("mbr")
GrubInstall == ipc = "mbr" /\ WriteFiles("umount")

Umount == /\ ipc = "umount" /\ Run("service")
          /\ mounted' \in {mounted, FALSE}
          /\ UNCHANGED service

\* The session's service file is written after the umount.
DesktopService ==
    /\ ipc = "service" /\ Run("success")
    /\ \E opened \in BOOLEAN :
          service' = IF opened /\ cfg.desktop THEN IF mounted THEN "target" ELSE "live"
                     ELSE service
    /\ UNCHANGED mounted

Success == /\ ipc = "success" /\ Leave(0)
           /\ UNCHANGED <<cfg, consent, erased, mounted, service, inputVars>>

\* The questions: each waits for the user when nothing is left to be read.
AskUser == \/ step_welcome \/ step_select_disk \/ step_desktop_choice
           \/ step_user_config \/ step_confirm

InstallStep == \/ discover_disks
               \/ Partition \/ Format \/ Mount \/ MakeDirs \/ CopyKernel \/ WriteGrubCfg
               \/ CopyBin \/ WriteEtc \/ GrubInstall \/ Umount \/ DesktopService \/ Success

(***************************************************************************)
(* As long as every line fits its buffer, a disk is erased only after the  *)
(* user answered the last question of this run of the installer with yes   *)
(* while that disk was the one shown: not by an answer to an earlier       *)
(* question, nor by an end of the input, which prompt_int takes for the    *)
(* first disk, nor by the answers of an earlier run.  With a longer line   *)
(* the rest of a name can be the answer.                                   *)
(***************************************************************************)
EraseNeedsConsent == [][\A d \in erased' \ erased : consent = d \/ toolong]_instVars
=============================================================================
