---------------------------- MODULE UserSessions ----------------------------
(***************************************************************************)
(* The sessions of one console user (internal/auth/session.go).  A login   *)
(* checks the password, then reads the row again and signs a cookie with   *)
(* its session_version; every request verifies its cookie against the row. *)
(* A new password or role, and enabling or disabling the user, raise the   *)
(* version in the same UPDATE, some time after the request has read the row.*)
(***************************************************************************)
EXTENDS Naturals

CONSTANTS
  SesCallers,     \* requests in flight at one time
  SesTTL,         \* m.ttl, in ticks
  MaxSesClock, MaxSesChanges, MaxSesLogins  \* bounds: ticks, changes and logins that begin

ASSUME SesAssumption == SesTTL \in Nat

VARIABLES
  sesUser,     \* the row: enabled, session_version
  sesCall,     \* each request: its step, what it read or will write
  sesCookies,  \* the cookies that were handed out
  sesClock,    \* time.Now
  sesEpoch,    \* history: how often password, role or enabling was written
  sesChanges, sesLogins  \* counters for the bounds

sessionVars == <<sesUser, sesCall, sesCookies, sesClock, sesEpoch, sesChanges, sesLogins>>

SesIdle == [step |-> "idle"]

SessionsInit ==
  /\ sesUser = [enabled |-> TRUE, version |-> 1]
  /\ sesCall = [c \in SesCallers |-> SesIdle]
  /\ sesCookies = {} /\ sesClock = 1 /\ sesEpoch = 0 /\ sesChanges = 0 /\ sesLogins = 0

(* Authenticate: the user is enabled and the password is the row's.        *)
SesAuthenticate(c) ==
  /\ sesCall[c] = SesIdle /\ sesLogins < MaxSesLogins /\ sesLogins' = sesLogins + 1
  /\ sesUser.enabled
  /\ sesCall' = [sesCall EXCEPT ![c] = [step |-> "issue", epoch |-> sesEpoch, crossed |-> FALSE]]
  /\ UNCHANGED <<sesUser, sesCookies, sesClock, sesEpoch, sesChanges>>

(* IssueCookie reads the row once more.                                    *)
SesIssueCookie(c) ==
  LET call == sesCall[c] IN
  /\ call.step = "issue"
  /\ sesCookies' = IF ~sesUser.enabled THEN sesCookies
       ELSE sesCookies \cup {[version |-> sesUser.version, exp |-> sesClock + SesTTL,
                              epoch |-> call.epoch, crossed |-> call.crossed]}
  /\ sesCall' = [sesCall EXCEPT ![c] = SesIdle]
  /\ UNCHANGED <<sesUser, sesClock, sesEpoch, sesChanges, sesLogins>>

(* ResetPassword, and UpdateUser with a role, a password or an enabling, up *)
(* to the write; "enabled" is empty when the enabling does not change.  A   *)
(* change of the display name alone leaves the sessions as they are.        *)
SesUpdateUser(c, enabled) ==
  /\ sesCall[c] = SesIdle /\ sesChanges < MaxSesChanges /\ sesChanges' = sesChanges + 1
  /\ sesCall' = [sesCall EXCEPT ![c] =
       [step |-> "write", enabled |-> enabled, read |-> sesUser.version]]
  /\ UNCHANGED <<sesUser, sesCookies, sesClock, sesEpoch, sesLogins>>

(* Mutant: one more than the version the request read.                     *)
VersionRead(call) == call.read + 1

NextVersion(call) == sesUser.version + 1  \* gorm.Expr("session_version + 1")

SesWrite(c) ==
  LET call == sesCall[c] IN
  /\ call.step = "write"
  /\ sesUser' = [enabled |-> IF call.enabled = {} THEN sesUser.enabled ELSE TRUE \in call.enabled,
                 version |-> NextVersion(call)]
  /\ sesCall' = [d \in SesCallers |->
       IF d = c THEN SesIdle
       ELSE IF sesCall[d].step = "issue" THEN [sesCall[d] EXCEPT !.crossed = TRUE] ELSE sesCall[d]]
  /\ sesEpoch' = sesEpoch + 1
  /\ UNCHANGED <<sesCookies, sesClock, sesChanges, sesLogins>>

SesTick ==
  /\ sesClock < MaxSesClock /\ sesClock' = sesClock + 1
  /\ UNCHANGED <<sesUser, sesCall, sesCookies, sesEpoch, sesChanges, sesLogins>>

SessionsNext ==
  \/ \E c \in SesCallers :
       \/ \E enabled \in {{}, {TRUE}, {FALSE}} : SesUpdateUser(c, enabled)
       \/ SesAuthenticate(c) \/ SesIssueCookie(c) \/ SesWrite(c)
  \/ SesTick

SessionsSpec == SessionsInit /\ [][SessionsNext]_sessionVars

(* verify, which RequireAuth asks at every request.                        *)
Accepted(cookie) ==
  sesClock <= cookie.exp /\ sesUser.enabled /\ cookie.version = sesUser.version

-----------------------------------------------------------------------------
(* A cookie that is accepted comes from a login since the last change of   *)
(* the password, the role or the enabling, whatever changes overlapped and *)
(* though a disabled user was enabled again, unless the login itself       *)
(* overlapped a change.                                                    *)
SessionsRevoked ==
  \A k \in sesCookies : Accepted(k) /\ ~k.crossed => k.epoch = sesEpoch
=============================================================================
