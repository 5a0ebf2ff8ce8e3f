----------------------------- MODULE SudoSession -----------------------------
(***************************************************************************)
(* executor/sudo.rs and the use RealExecutor makes of it: a process that   *)
(* runs many btrfs commands through sudo authenticates once, and refreshes *)
(* the credentials sudo keeps when ten minutes have passed.  `age` is what *)
(* sudo remembers, outside of the process and longer than it.              *)
(*                                                                         *)
(* How long sudo keeps credentials is set in sudoers, and bbkar knows      *)
(* nothing of it: five minutes in a sudo without configuration, fifteen in *)
(* Debian's, and 0 makes sudo ask every time.                              *)
(***************************************************************************)
EXTENDS Integers

CONSTANT RefreshInterval    \* SudoSession.refresh_interval, ten minutes

VARIABLES
  user,         \* who runs bbkar: root, with a tty, what sudoers says
  session,      \* RealExecutor.sudo_session: "none" or its strategy
  elapsed,      \* since last_refresh, by the process's monotonic clock
  age,          \* since sudo saw the password or used it, by sudo's clock
  ready,        \* ensure_sudo has returned, the command is not spawned
  asked,        \* commands for which sudo wanted a password in mid-session
  lapsed,       \* credentials have run out in mid-session
  suspended     \* the machine slept during this process

vars == <<user, session, elapsed, age, ready, asked, lapsed, suspended>>

(* NOPASSWD is for no command, for btrfs, or for every command; timeout is *)
(* timestamp_timeout.                                                      *)
Users == [root : BOOLEAN, tty : BOOLEAN, timeout : Nat,
          nopasswd : {"nothing", "btrfs", "everything"}]

Cached == age < user.timeout
NoPasswd(command) == user.nopasswd \in {command, "everything"}
Passes(command) == NoPasswd(command) \/ Cached

(* Clocks stop where nothing distinguishes their values any more.          *)
LateElapsed == RefreshInterval + 1
Later(t, end) == IF t < end THEN t + 1 ELSE end

SessionInit ==
  /\ session = "none"
  /\ elapsed = 0
  /\ age = user.timeout
  /\ ready = FALSE
  /\ asked = {}
  /\ lapsed = FALSE
  /\ suspended = FALSE

Init == user \in Users /\ SessionInit

-----------------------------------------------------------------------------
(* determine_execution_strategy and SudoSession::new.  Nothing is kept     *)
(* with a timeout of 0.                                                    *)

OpenAs(strategy) ==
  /\ session = "none"
  /\ session' = strategy
  /\ elapsed' = 0
  /\ ready' = TRUE
  /\ lapsed' = (user.timeout = 0)
  /\ UNCHANGED <<user, asked, suspended>>

OpenDirect ==
  /\ user.root
  /\ OpenAs("direct")
  /\ UNCHANGED age

(* `sudo -n id` passes by NOPASSWD, or by credentials of a while ago,      *)
(* whose age it resets.                                                    *)
OpenPasswordless ==
  /\ ~user.root
  /\ Passes("id")
  /\ OpenAs("passwordless")
  /\ age' = IF NoPasswd("id") THEN age ELSE 0

OpenInteractiveUnasked ==
  /\ ~user.root
  /\ ~Passes("id")
  /\ user.tty
  /\ OpenAs("interactive")
  /\ UNCHANGED age

(* sudo -v takes the password.                                             *)
OpenInteractive ==
  /\ ~user.root
  /\ ~Passes("id")
  /\ user.tty
  /\ OpenAs("interactive")
  /\ age' = 0

(* ensure_active before every further command.  sudo -v asks for the       *)
(* password again if the credentials have run out.                         *)
RefreshDue == session = "interactive" /\ elapsed > RefreshInterval

EnsureActive ==
  /\ session # "none"
  /\ ~ready
  /\ ~RefreshDue
  /\ ready' = TRUE
  /\ UNCHANGED <<user, session, elapsed, age, asked, lapsed, suspended>>

Asks(command) == asked' = asked \cup (IF Passes(command) THEN {} ELSE {command})

RefreshKeepingTime ==
  /\ ~ready
  /\ RefreshDue
  /\ ready' = TRUE
  /\ elapsed' = 0
  /\ Asks("-v")
  /\ UNCHANGED <<user, session, age, lapsed, suspended>>

Refresh ==
  /\ ~ready
  /\ RefreshDue
  /\ ready' = TRUE
  /\ elapsed' = 0
  /\ Asks("-v")
  /\ age' = 0
  /\ UNCHANGED <<user, session, lapsed, suspended>>

EnsureSudo == OpenDirect \/ OpenPasswordless \/ OpenInteractive \/ EnsureActive \/ Refresh

(* There is no terminal to ask on, or sudo does not get the password.      *)
Refused ==
  /\ ~ready
  /\ \/ session = "none" /\ ~user.root /\ ~Passes("id")
     \/ RefreshDue /\ ~Passes("-v")

(* btrfs_send_command, btrfs_receive_command.  bbkar does not see whether  *)
(* sudo got the password it asked for: without it the stream is empty.     *)
Spawn ==
  /\ ready
  /\ ready' = FALSE
  /\ \/ /\ session = "direct" \/ NoPasswd("btrfs")
        /\ UNCHANGED <<age, asked>>
     \/ /\ session # "direct" /\ ~NoPasswd("btrfs")
        /\ Asks("btrfs")
        /\ \/ age' = 0 /\ (Cached \/ user.tty)
           \/ age' = age /\ ~Cached
  /\ UNCHANGED <<user, session, elapsed, lapsed, suspended>>

-----------------------------------------------------------------------------
(* Nothing takes time between ensure_sudo and the spawn.                   *)

Aging ==
  /\ age' = Later(age, user.timeout)
  /\ lapsed' = (lapsed \/ (session # "none" /\ age + 1 = user.timeout))

Tick ==
  /\ ~user.root
  /\ ~ready
  /\ elapsed' = IF session = "none" THEN 0 ELSE Later(elapsed, LateElapsed)
  /\ Aging
  /\ UNCHANGED <<user, session, ready, asked, suspended>>

(* Instant does not count the time a machine is asleep; sudo's clock does. *)
Suspend ==
  /\ session \in {"passwordless", "interactive"}
  /\ ~ready
  /\ Aging
  /\ suspended' = TRUE
  /\ UNCHANGED <<user, session, elapsed, ready, asked>>

(* The process ends; sudo's credentials outlive it.                        *)
Quit ==
  /\ session' = "none"
  /\ elapsed' = 0
  /\ ready' = FALSE
  /\ asked' = {}
  /\ lapsed' = FALSE
  /\ suspended' = FALSE
  /\ UNCHANGED <<user, age>>

Next == EnsureSudo \/ Spawn \/ Tick \/ Suspend \/ Quit

Spec == Init /\ [][Next]_vars

-----------------------------------------------------------------------------
TypeOK ==
  /\ user \in Users
  /\ session \in {"none", "direct", "passwordless", "interactive"}
  /\ elapsed \in 0 .. LateElapsed
  /\ age \in 0 .. user.timeout
  /\ ready \in BOOLEAN
  /\ asked \subseteq {"-v", "btrfs"}
  /\ lapsed \in BOOLEAN
  /\ suspended \in BOOLEAN

(* The password given at the beginning serves until sudo forgets it: sudo  *)
(* asks in the middle of a command, for a btrfs command or for a refresh,  *)
(* only if credentials have run out since the session began, and never a   *)
(* user who is root or needs no password.  (They do run out when a single  *)
(* transfer outlasts timestamp_timeout; sudo.rs:14 promises more.)         *)
AskedOnlyAfterLapse ==
  asked # {} => lapsed /\ ~user.root /\ user.nopasswd # "everything"

(* The refresh keeps the question away from the btrfs commands, where a    *)
(* refusal is an empty stream and no error, if sudo keeps credentials for  *)
(* longer than the interval of ten minutes: it is `sudo -v` that asks      *)
(* then.  Two cases are left.  The machine slept, which last_refresh does  *)
(* not notice (sudo.rs:55); or determine_execution_strategy took cached    *)
(* credentials for passwordless sudo (sudo.rs:86), and refreshes nothing.  *)
BtrfsNotAsked ==
  "btrfs" \in asked =>
    \/ user.timeout <= RefreshInterval
    \/ suspended
    \/ session = "passwordless" /\ user.nopasswd = "nothing"

=============================================================================
