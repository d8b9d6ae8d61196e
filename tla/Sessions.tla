-------------------------------- MODULE Sessions --------------------------------
(***************************************************************************)
(* Sessions (auth/session.ts) of one account, in browsers that may send    *)
(* several requests at a time: reading with its refresh or its deletion,   *)
(* login once the password is checked, logout, and the commands of         *)
(* scripts/admin.mjs that close them.  Each query is a step.               *)
(***************************************************************************)
EXTENDS Integers

CONSTANTS
    Token, Browser, Visit,      \* Visit: requests that carry or open a session
    Absolute,       \* SESSION_ABSOLUTE_MS, in ticks
    Inactivity,     \* SESSION_IDLE_MS
    Horizon,        \* bound: ticks
    NoToken, Unborn, Gone

\* A row of the table.
Limits == [expiresAt : Nat, idleExpiresAt : Nat, lastUsedAt : Nat]

ASSUME SessionsAssumption ==
    /\ Absolute \in Nat /\ Inactivity \in 1..Absolute /\ Horizon \in Nat
    /\ NoToken \notin Token
    /\ Unborn # Gone /\ Unborn \notin Limits /\ Gone \notin Limits

VARIABLES
    clock,
    isActive,   \* the account
    session,    \* rows by token: Unborn, Gone, or their limits
    cookie,     \* of each browser
    visit,      \* requests under way
    command,    \* of the operator: sessions are about to be deleted
    ended       \* history: tokens refused, logged out or revoked

sessionVars == <<clock, isActive, session, cookie, visit, command, ended>>

Nowhere == [at |-> "nowhere"]
Row(t) == session[t] \notin {Unborn, Gone}
Least(a, b) == IF a <= b THEN a ELSE b

SessionsInit ==
    /\ clock = 0 /\ isActive = TRUE /\ command = FALSE
    /\ session = [t \in Token |-> Unborn]
    /\ cookie = [b \in Browser |-> NoToken]
    /\ visit = [v \in Visit |-> Nowhere]
    /\ ended = {}

Rows(gone) == session' = [t \in Token |-> IF Row(t) /\ t \in gone THEN Gone ELSE session[t]]

Goes(v, place) == visit' = [visit EXCEPT ![v].at = place]

TimePasses == clock < Horizon /\ clock' = clock + 1
        /\ UNCHANGED <<isActive, session, cookie, visit, command, ended>>

-----------------------------------------------------------------------------
(* A request that needs a user, a logout included: readSession.            *)

\* History: whether what it carries has ended before it began.
Arrive(v, b, logout) ==
    /\ visit[v] = Nowhere /\ cookie[b] # NoToken
    /\ visit' = [visit EXCEPT ![v] = [at |-> "sent", token |-> cookie[b], browser |-> b, logout |-> logout,
                                      late |-> cookie[b] \in ended \/ ~isActive]]
    /\ UNCHANGED <<clock, isActive, session, cookie, command, ended>>

FindSession(v) ==
    /\ visit[v].at = "sent"
    /\ IF Row(visit[v].token)
       THEN /\ visit' = [visit EXCEPT ![v] = [at |-> "found", token |-> @.token, browser |-> @.browser,
                                              logout |-> @.logout, late |-> @.late,
                                              row |-> session[@.token], isActive |-> isActive]]
            /\ UNCHANGED ended
       ELSE Goes(v, "refused") /\ ended' = ended \cup {visit[v].token}
    /\ UNCHANGED <<clock, isActive, session, cookie, command>>

\* The instant is taken once the row is read.
Check(v) ==
    /\ visit[v].at = "found"
    /\ LET row == visit[v].row
           invalid == row.expiresAt <= clock \/ row.idleExpiresAt <= clock \/ ~visit[v].isActive
           next == IF invalid THEN "invalid" ELSE IF clock > row.lastUsedAt THEN "refresh" ELSE "served"
       IN  visit' = [visit EXCEPT ![v] = [at |-> next, token |-> @.token, browser |-> @.browser,
                                          logout |-> @.logout, late |-> @.late,
                                          expiresAt |-> row.expiresAt, now |-> clock]]
    /\ UNCHANGED <<clock, isActive, session, cookie, command, ended>>

\* Seeded fault: a session that cannot be used is refused and left in the table.
DeleteNothing(v) ==
    /\ visit[v].at = "invalid"
    /\ Goes(v, "refused")
    /\ ended' = ended \cup {visit[v].token}
    /\ UNCHANGED <<clock, isActive, session, cookie, command>>

\* A session that cannot be used is deleted at once, and refused.
DeleteInvalid(v) ==
    /\ visit[v].at = "invalid"
    /\ Goes(v, "refused")
    /\ Rows({visit[v].token})
    /\ ended' = ended \cup {visit[v].token}
    /\ UNCHANGED <<clock, isActive, cookie, command>>

\* The update by id of a row deleted meanwhile is an error.
Refresh(v) ==
    /\ visit[v].at = "refresh"
    /\ LET t == visit[v].token IN
       IF Row(t)
       THEN /\ session' = [session EXCEPT ![t].lastUsedAt = visit[v].now,
                                          ![t].idleExpiresAt = Least(visit[v].now + Inactivity, visit[v].expiresAt)]
            /\ Goes(v, "served")
       ELSE Goes(v, "failed") /\ UNCHANGED session
    /\ UNCHANGED <<clock, isActive, cookie, command, ended>>

-----------------------------------------------------------------------------
(* Login and logout.                                                       *)

\* The password is right and the account active: createSession begins.
Login(v, b) ==
    /\ visit[v] = Nowhere /\ isActive
    /\ visit' = [visit EXCEPT ![v] = [at |-> "closing", token |-> cookie[b], browser |-> b, opens |-> TRUE]]
    /\ UNCHANGED <<clock, isActive, session, cookie, command, ended>>

\* Once its user is read, served or not.
Logout(v) ==
    /\ visit[v].at \in {"served", "refused"} /\ visit[v].logout
    /\ visit' = [visit EXCEPT ![v] = [at |-> "closing", token |-> @.token, browser |-> @.browser, opens |-> FALSE]]
    /\ UNCHANGED <<clock, isActive, session, cookie, command, ended>>

\* destroySession
DestroySession(v) ==
    /\ visit[v].at = "closing"
    /\ Rows({visit[v].token})
    /\ ended' = ended \cup ({visit[v].token} \ {NoToken})
    /\ IF visit[v].opens THEN Goes(v, "opening")
       ELSE visit' = [visit EXCEPT ![v] = [at |-> "reply", token |-> NoToken, browser |-> @.browser]]
    /\ UNCHANGED <<clock, isActive, cookie, command>>

\* The token is new.
CreateSession(v) ==
    /\ visit[v].at = "opening"
    /\ \E t \in Token : session[t] = Unborn
    /\ LET t == CHOOSE new \in Token : session[new] = Unborn IN
         /\ session' = [session EXCEPT ![t] = [expiresAt |-> clock + Absolute, idleExpiresAt |-> clock + Inactivity,
                                               lastUsedAt |-> clock]]
         /\ visit' = [visit EXCEPT ![v] = [at |-> "purge", token |-> t, browser |-> @.browser]]
    /\ UNCHANGED <<clock, isActive, cookie, command, ended>>

PurgeExpired(v) ==
    /\ visit[v].at = "purge"
    /\ Rows({t \in Token : Row(t) /\ (session[t].expiresAt <= clock \/ session[t].idleExpiresAt <= clock)})
    /\ Goes(v, "reply")
    /\ UNCHANGED <<clock, isActive, cookie, command, ended>>

\* The answer sets or clears the cookie, or is lost.
Reply(v, received) ==
    /\ visit[v].at = "reply"
    /\ cookie' = IF received THEN [cookie EXCEPT ![visit[v].browser] = visit[v].token] ELSE cookie
    /\ visit' = [visit EXCEPT ![v] = Nowhere]
    /\ UNCHANGED <<clock, isActive, session, command, ended>>

Leave(v) ==
    /\ visit[v].at \in {"served", "refused", "failed"}
    /\ visit[v].at # "failed" => ~visit[v].logout
    /\ visit' = [visit EXCEPT ![v] = Nowhere]
    /\ UNCHANGED <<clock, isActive, session, cookie, command, ended>>

-----------------------------------------------------------------------------
(* admin.mjs: the account is written, then its sessions are deleted.       *)

WriteAccount(disabled) ==
    /\ ~command
    /\ command' = TRUE
    /\ isActive' = (isActive /\ ~disabled)
    /\ UNCHANGED <<clock, session, cookie, visit, ended>>

DeleteSessions ==
    /\ command
    /\ command' = FALSE
    /\ Rows(Token)
    /\ ended' = ended \cup {t \in Token : session[t] # Unborn}
    /\ UNCHANGED <<clock, isActive, cookie, visit>>

SessionsNext ==
    \/ TimePasses \/ DeleteSessions \/ \E disabled \in BOOLEAN : WriteAccount(disabled)
    \/ \E v \in Visit :
          \/ \E b \in Browser : Login(v, b) \/ \E logout \in BOOLEAN : Arrive(v, b, logout)
          \/ FindSession(v) \/ Check(v) \/ DeleteInvalid(v) \/ Refresh(v)
          \/ Logout(v) \/ DestroySession(v) \/ CreateSession(v) \/ PurgeExpired(v) \/ Leave(v)
          \/ \E received \in BOOLEAN : Reply(v, received)

SessionsSpec == SessionsInit /\ [][SessionsNext]_sessionVars

-----------------------------------------------------------------------------
(* Properties.                                                             *)

\* A session refused, logged out or revoked is never served to a request that begins
\* later, whatever was refreshing it ("elle ne doit pas pouvoir redevenir valide"), nor
\* any session of an account disabled before; none is served beyond its absolute limit.
SessionsInv ==
    /\ \A v \in Visit : visit[v].at = "served" => ~visit[v].late /\ visit[v].now < visit[v].expiresAt
    /\ \A t \in Token : Row(t) => session[t].idleExpiresAt <= session[t].expiresAt
    /\ \A t \in ended : ~Row(t)
=============================================================================
