---------------------------- MODULE SessionRefresh ----------------------------
(***************************************************************************)
(* The login sessions of one user of the portal: refresh tokens that are   *)
(* rotated at each use, with a grace window and reuse detection; switching *)
(* the organization; signing out here and everywhere.  The API keeps the   *)
(* rotation markers and the blocklist in Redis and the epoch of the user   *)
(* in Postgres, and reads them one after the other.  A browser keeps its   *)
(* session in localStorage, each of its tabs a copy in memory.             *)
(*                                                                         *)
(* A tick of `now` is the second an `iat` is rounded to.  An access token  *)
(* is the time it was minted at: a session is a refresh token and the      *)
(* access token handed out with it.                                        *)
(***************************************************************************)
EXTENDS Integers

CONSTANTS Browsers, Tabs,
          Of,           \* the browser of a tab
          Tokens,       \* bound: refresh tokens that may ever be minted
          Life,         \* jwt_refresh_ttl_seconds
          AccessLife,   \* jwt_access_ttl_seconds
          MinLife,      \* the least life of a token, 60 in tokens.py
          Grace,        \* refresh_rotation_grace_seconds
          Delay,        \* bound on the time from a request to its answer, and
                        \* from reading the time of an epoch to its commit
          Agenda,       \* bound: when the user may log in, switch the
                        \* organization, log out here and everywhere
          MaxTime,      \* bound on the clock
          None

ASSUME TabsAssumption == Of \in [Tabs -> Browsers]
ASSUME TimesAssumption ==
  /\ {Life, AccessLife, MinLife, MaxTime} \subseteq Nat \ {0}
  /\ Delay \in Nat /\ Grace \in Nat /\ Grace > 2 * Delay
ASSUME AgendaAssumption ==
  Agenda \in [{"login", "switch", "logout", "logout_all"} -> SUBSET Nat]
ASSUME NoneAssumption == None \notin Tokens \cup Browsers

VARIABLES now,       \* the time
          token,     \* the refresh tokens and their rotation markers
          blocked,   \* refresh tokens on the blocklist
          epoch,     \* tokens_valid_after of the user, 0 when not set
          stored,    \* the session in the localStorage of a browser
          tab,       \* the tabs and the request each has under way
          leaving,   \* sessions whose logout is posted and not served
          revoking,  \* times read for a new epoch that may still be committed
          late,      \* history: tokens handed out after such a time by requests
                     \* that passed their checks before it was committed, and
                     \* the successors of these tokens
          cutoff,    \* history: the greatest time ever committed as the epoch
          alarm,     \* history: a refresh of some tab was taken for reuse
          relapsed,  \* history: a tab adopted a token that was retired by then
          abandoned  \* history: a page was left before it could adopt the
                     \* successor of the token in its browser's localStorage

api == <<token, blocked, epoch, revoking>>
signOut == <<late, cutoff>>
reuse == <<alarm, relapsed, abandoned>>
history == <<signOut, reuse>>
vars == <<now, api, stored, tab, leaving, history>>

-----------------------------------------------------------------------------
Time == 0 .. MaxTime
NoSession == [refresh |-> None, at |-> 0]
Session == [refresh : Tokens, at : 1 .. MaxTime] \cup {NoSession}

(* A token is minted when iat > 0; login is when the user signed in, home   *)
(* the browser it was for (history); rotated is when it was retired, next   *)
(* the successor.                                                           *)
TokenType ==
  [iat : Time, exp : 0 .. MaxTime + Life, login : Time, home : Browsers \cup {None},
   rotated : Time, next : Tokens \cup {None}]

(* What a tab has in memory, what it sent when, what the API answers, and   *)
(* whether an epoch was committed after the request was let through.        *)
TabType ==
  [mem : Session, sent : Session, answer : Session, since : Time, late : BOOLEAN,
   pc : {"idle", "refreshing", "rotating", "reissuing", "answered", "refused",
         "switching", "moving", "moved"}]

TypeOK ==
  /\ now \in 1 .. MaxTime
  /\ token \in [Tokens -> TokenType]
  /\ blocked \subseteq Tokens
  /\ epoch \in Time
  /\ stored \in [Browsers -> Session]
  /\ tab \in [Tabs -> TabType]
  /\ leaving \subseteq Session
  /\ revoking \subseteq 1 .. MaxTime
  /\ late \subseteq Tokens
  /\ cutoff \in Time
  /\ alarm \in BOOLEAN /\ relapsed \in BOOLEAN /\ abandoned \in BOOLEAN

Unminted == [iat |-> 0, exp |-> 0, login |-> 0, home |-> None,
             rotated |-> 0, next |-> None]
Quiet == [mem |-> NoSession, sent |-> NoSession, answer |-> NoSession, since |-> 0,
          late |-> FALSE, pc |-> "idle"]

Init ==
  /\ now = 1
  /\ token = [x \in Tokens |-> Unminted]
  /\ blocked = {} /\ epoch = 0
  /\ stored = [b \in Browsers |-> NoSession]
  /\ tab = [t \in Tabs |-> Quiet]
  /\ leaving = {} /\ revoking = {} /\ late = {} /\ cutoff = 0
  /\ alarm = FALSE /\ relapsed = FALSE /\ abandoned = FALSE

-----------------------------------------------------------------------------
AtLeast(a, b) == IF a < b THEN b ELSE a
AtMost(a, b) == IF a < b THEN a ELSE b

(* Mutant: the exp of the presented token is taken for a time to live.      *)
ExpiryOfExp(x) == now + AtLeast(token[x].exp, MinLife)
(* create_token_with_jti with the life that the presented token has left.   *)
Expiry(x) == now + AtMost(Life, AtLeast(token[x].exp - now, MinLife))

(* Mutant: the epoch is not looked at.                                      *)
DeadNever(x) == FALSE
(* token_predates_epoch: iat is rounded down, the epoch is not.             *)
Dead(x) == token[x].iat <= epoch

Acceptable(x) == token[x].exp > now /\ x \notin blocked /\ ~Dead(x)

Rotated(x) == token[x].rotated > 0
(* Mutant: a window that opens with the token.                              *)
InGraceOfMint(x) == Rotated(x) /\ now < token[x].iat + Grace
(* The successor is kept for the grace window.                              *)
InGrace(x) == Rotated(x) /\ now < token[x].rotated + Grace

Idle(t) == tab[t].pc = "idle"
RefreshPcs == {"refreshing", "rotating", "reissuing", "answered", "refused"}
Goto(t, pc) == tab' = [tab EXCEPT ![t].pc = pc]
Answer(t, pc, s) == tab' = [tab EXCEPT ![t].pc = pc, ![t].answer = s]

(* The request of t mints x, whose session began at `login`, in the token   *)
(* table m.                                                                 *)
Mint(m, t, x, login, exp) ==
  [m EXCEPT ![x] = [iat |-> now, exp |-> exp, login |-> login, home |-> Of[t],
                    rotated |-> 0, next |-> None]]
Fresh(x) == token[x] = Unminted

(* setTokens: memory and localStorage at once.                              *)
SetTokens(t, s) ==
  /\ stored' = [stored EXCEPT ![Of[t]] = s]
  /\ tab' = [tab EXCEPT ![t] = [Quiet EXCEPT !.mem = s]]

-----------------------------------------------------------------------------
Login(t) ==
  /\ now \in Agenda.login
  /\ Idle(t)
  /\ tab[t].mem = NoSession
  /\ \E x \in Tokens :
       /\ Fresh(x)
       /\ token' = Mint(token, t, x, now, now + Life)
       /\ SetTokens(t, [refresh |-> x, at |-> now])
  /\ UNCHANGED <<now, blocked, epoch, revoking, leaving, history>>

(* TokenManager.refresh after a 401.  A second request that got its 401     *)
(* late refreshes a session that was refreshed a moment ago, so the access  *)
(* token may be a new one.  A tab is given one request at a time.            *)
Send(t, pc) ==
  /\ Idle(t)
  /\ tab[t].mem # NoSession
  /\ tab' = [tab EXCEPT ![t].pc = pc, ![t].sent = tab[t].mem, ![t].since = now]
  /\ UNCHANGED <<now, api, stored, leaving, history>>

(* refresh_access_token up to the mint.  The read of the rotation marker    *)
(* fails soft, so a retired token may pass.                                 *)
RefreshPasses(t) ==
  /\ tab[t].pc = "refreshing"
  /\ Acceptable(tab[t].sent.refresh)
  /\ Goto(t, "rotating")
  /\ UNCHANGED <<now, api, stored, leaving, history>>

(* The retired token is in its grace window: its successor is handed out    *)
(* once more, with a new access token.                                      *)
RefreshInGrace(t) ==
  LET x == tab[t].sent.refresh IN
  /\ tab[t].pc = "refreshing"
  /\ Acceptable(x)
  /\ InGrace(x)
  /\ Answer(t, "reissuing", [refresh |-> token[x].next, at |-> now])
  /\ UNCHANGED <<now, api, stored, leaving, history>>

(* What a request hands out is late when it was overtaken, and so is what   *)
(* is minted from that.                                                     *)
LateBy(t, x) ==
  IF tab[t].late \/ tab[t].sent.refresh \in late THEN late \cup {x} ELSE late

Reissue(t) ==
  LET y == tab[t].answer.refresh IN
  /\ tab[t].pc = "reissuing"
  /\ late' = LateBy(t, y)
  /\ Answer(t, "answered", [refresh |-> y, at |-> now])
  /\ UNCHANGED <<now, api, stored, leaving, cutoff, reuse>>

(* The time of the new epoch is read; its commit is awaited.                *)
Stamp == revoking' = revoking \cup {now}

RefreshReused(t) ==
  LET x == tab[t].sent.refresh IN
  /\ tab[t].pc = "refreshing"
  /\ Acceptable(x)
  /\ Rotated(x) /\ ~InGrace(x)
  /\ Stamp
  /\ alarm' = TRUE
  /\ Goto(t, "refused")
  /\ UNCHANGED <<now, token, blocked, epoch, stored, leaving, signOut, relapsed, abandoned>>

Rotate(t) ==
  LET x == tab[t].sent.refresh IN
  /\ tab[t].pc = "rotating"
  /\ \E y \in Tokens :
       /\ Fresh(y)
       /\ token' = Mint([token EXCEPT ![x].rotated = now, ![x].next = y],
                        t, y, token[x].login, Expiry(x))
       /\ late' = LateBy(t, y)
       /\ Answer(t, "answered", [refresh |-> y, at |-> now])
  /\ UNCHANGED <<now, blocked, epoch, revoking, stored, leaving, cutoff, reuse>>

-----------------------------------------------------------------------------
(* switch_organization: the access token is checked, both tokens are        *)
(* blocked and a pair is minted.  A refresh token that has expired is not   *)
(* decoded: the new one has a full life.                                    *)
SwitchPasses(t) ==
  LET s == tab[t].sent IN
  /\ tab[t].pc = "switching"
  /\ s.at > epoch /\ now < s.at + AccessLife
  /\ Goto(t, "moving")
  /\ UNCHANGED <<now, api, stored, leaving, history>>

SwitchMints(t) ==
  LET s == tab[t].sent
      x == s.refresh
      valid == token[x].exp > now IN
  /\ tab[t].pc = "moving"
  /\ blocked' = IF valid THEN blocked \cup {x} ELSE blocked
  /\ \E y \in Tokens :
       /\ Fresh(y)
       /\ token' = Mint(token, t, y, token[x].login, IF valid THEN Expiry(x) ELSE now + Life)
       /\ late' = LateBy(t, y)
       /\ Answer(t, "moved", [refresh |-> y, at |-> now])
  /\ UNCHANGED <<now, epoch, revoking, stored, leaving, cutoff, reuse>>

(* The switch is refused, Redis or the connection fails, or the page that   *)
(* asked for it is left or reloaded.                                        *)
SwitchFails(t) ==
  /\ tab[t].pc \in {"switching", "moving", "moved"}
  /\ tab' = [tab EXCEPT ![t] = [Quiet EXCEPT !.mem = tab[t].mem]]
  /\ UNCHANGED <<now, api, stored, leaving, history>>

-----------------------------------------------------------------------------
(* The client adopts what it is answered, whatever its session is by now.   *)
Receive(t) ==
  /\ tab[t].pc \in {"answered", "moved"}
  /\ SetTokens(t, tab[t].answer)
  /\ relapsed' = (relapsed \/ Rotated(tab[t].answer.refresh))
  /\ UNCHANGED <<now, api, leaving, signOut, alarm, abandoned>>

(* A refresh that fails ends the session: its token is not acceptable,      *)
(* Redis cannot be read or written, or the request or its answer is lost.   *)
SessionExpired(t) ==
  /\ tab[t].pc \in RefreshPcs
  /\ SetTokens(t, NoSession)
  /\ UNCHANGED <<now, api, leaving, history>>

(* The page is closed, reloaded or killed with a refresh under way.  The    *)
(* API serves the request or not, nobody takes its answer, and localStorage *)
(* keeps the token presented: this is the moment the request comes to       *)
(* nothing.  The next page of the browser reads localStorage.               *)
PageLeft(t) ==
  LET s == stored[Of[t]] IN
  /\ tab[t].pc \in RefreshPcs
  /\ tab' = [tab EXCEPT ![t] = [Quiet EXCEPT !.mem = s]]
  /\ abandoned' = (abandoned \/ (/\ tab[t].pc = "answered"
                                /\ s.refresh = tab[t].sent.refresh))
  /\ UNCHANGED <<now, api, stored, leaving, signOut, alarm, relapsed>>

(* The storage event.                                                       *)
Sync(t) ==
  /\ tab[t].mem # stored[Of[t]]
  /\ tab' = [tab EXCEPT ![t].mem = stored[Of[t]]]
  /\ UNCHANGED <<now, api, stored, leaving, history>>

(* handleSignOut: the logout is posted and not waited for.                  *)
Logout(t) ==
  /\ now \in Agenda.logout
  /\ tab[t].mem # NoSession
  /\ leaving' = leaving \cup {tab[t].mem}
  /\ stored' = [stored EXCEPT ![Of[t]] = NoSession]
  /\ tab' = [tab EXCEPT ![t].mem = NoSession]
  /\ UNCHANGED <<now, api, history>>

(* The logout is served, or refused, lost or stopped by Redis.              *)
LogoutServed(s) ==
  /\ s \in leaving
  /\ leaving' = leaving \ {s}
  /\ \/ UNCHANGED blocked
     \/ now < s.at + AccessLife /\ now < token[s.refresh].exp
        /\ blocked' = blocked \cup {s.refresh}
  /\ UNCHANGED <<now, token, epoch, revoking, stored, tab, history>>

(* logout_all, and a change or a reset of the password.  The tokens it also *)
(* blocks are dead already.                                                 *)
LogoutAll ==
  /\ now \in Agenda.logout_all \ revoking
  /\ Stamp
  /\ UNCHANGED <<now, token, blocked, epoch, stored, tab, leaving, history>>

(* The sessions that tabs and browsers have or are about to get, and the    *)
(* refresh tokens with which something was handed out after s.              *)
Held == {stored[b] : b \in Browsers}
          \cup UNION {{tab[t].mem, tab[t].sent, tab[t].answer} : t \in Tabs}
HandedOutAfter(s) ==
  {x \in Tokens : token[x].iat > s \/ \E e \in Held : e.refresh = x /\ e.at > s}

(* Requests that have passed their checks are overtaken.  The commits of    *)
(* two sign-outs may come in the other order than their times, and another  *)
(* one of the same second may follow.                                       *)
EpochCommits(s) ==
  /\ s \in revoking
  /\ epoch' = s
  /\ late' = late \cup HandedOutAfter(s)
  /\ cutoff' = AtLeast(cutoff, s)
  /\ tab' = [t \in Tabs |-> IF tab[t].pc \in {"rotating", "reissuing", "moving"}
                            THEN [tab[t] EXCEPT !.late = TRUE] ELSE tab[t]]
  /\ UNCHANGED <<now, token, blocked, revoking, stored, leaving, reuse>>

(* None of this second is under way any more, or its commit failed.         *)
RevocationEnds(s) ==
  /\ s \in revoking
  /\ revoking' = revoking \ {s}
  /\ UNCHANGED <<now, token, blocked, epoch, stored, tab, leaving, history>>

(* No request takes longer than Delay, and storage events are seen within   *)
(* the second.                                                              *)
Tick ==
  /\ now < MaxTime
  /\ \A t \in Tabs : /\ ~Idle(t) => now < tab[t].since + Delay
                     /\ tab[t].mem = stored[Of[t]]
  /\ \A s \in revoking : now < s + Delay
  /\ now' = now + 1
  /\ UNCHANGED <<api, stored, tab, leaving, history>>

-----------------------------------------------------------------------------
Refresh(t) ==
  \/ Send(t, "refreshing")
  \/ RefreshPasses(t) \/ RefreshInGrace(t) \/ RefreshReused(t)
  \/ Rotate(t) \/ Reissue(t)

Switch(t) ==
  \/ now \in Agenda.switch /\ Send(t, "switching")
  \/ SwitchPasses(t) \/ SwitchMints(t) \/ SwitchFails(t)

Next ==
  \/ \E t \in Tabs :
       \/ Login(t) \/ Refresh(t) \/ Switch(t)
       \/ Receive(t) \/ SessionExpired(t) \/ PageLeft(t) \/ Sync(t) \/ Logout(t)
  \/ \E s \in leaving : LogoutServed(s)
  \/ LogoutAll
  \/ \E s \in revoking : EpochCommits(s) \/ RevocationEnds(s)
  \/ Tick

Spec == Init /\ [][Next]_vars

-----------------------------------------------------------------------------
(* Signing out everywhere reaches every session: what is still alive comes  *)
(* from a login after it, or is late (a request that had passed its checks  *)
(* when the epoch was committed handed it out later than the time read for  *)
(* the epoch).  This holds of every sign-out that was committed, also when  *)
(* the commits of two come in the other order than their times.             *)
SignOutReachesAll ==
  \A x \in HandedOutAfter(epoch) \ late :
    token[x].login > epoch /\ token[x].login >= cutoff

(* The tabs of one browser refresh one session side by side, which the      *)
(* grace window is for (when it outlasts two requests): a refresh is taken  *)
(* for reuse only after a tab adopted an answer that another tab's refresh  *)
(* had retired meanwhile, or a page was left between the rotation of its    *)
(* token and the answer.                                                    *)
AlarmHasACause == alarm => relapsed \/ abandoned
=============================================================================
