------------------------- MODULE SessionRefresh_proofs -------------------------
(***************************************************************************)
(* Signing out everywhere reaches every session of SessionRefresh, and no  *)
(* refresh is taken for reuse before a tab relapsed or a page was left in  *)
(* the middle of one, for every set of browsers, tabs and tokens, every    *)
(* length of a life and every agenda of the user.                          *)
(*                                                                         *)
(* The tokens alone are not an inductive invariant: what a tab, a browser  *)
(* or a request holds is presented again later.  A session whose access    *)
(* token outlives the epoch must therefore belong to a login after it      *)
(* (Known), a successor must be no older than its predecessor (TokenInv),  *)
(* and a request that was let through and not overtaken must still present *)
(* or have read a live token (Let).  The second theorem has an invariant   *)
(* of its own, over the clock and what the tabs of one browser hold (AInv).*)
(***************************************************************************)
EXTENDS SessionRefresh, TLAPS

-----------------------------------------------------------------------------
(* The login is later than every sign-out.                                  *)
After(x) == token[x].login > epoch /\ token[x].login >= cutoff

TokenOK(x) ==
  /\ token[x].iat <= now
  /\ token[x].iat = 0 => token[x].rotated = 0 /\ token[x].next = None /\ x \notin late
  /\ token[x].iat > epoch /\ x \notin late => After(x)
  /\ token[x].rotated > 0 => token[x].next \in Tokens
  /\ token[x].next \in Tokens =>
       /\ token[token[x].next].iat > 0
       /\ token[token[x].next].iat >= token[x].iat

TokenInv == \A x \in Tokens : TokenOK(x)

(* What may be held as a session.                                           *)
Known(s) ==
  s # NoSession =>
    /\ token[s.refresh].iat > 0
    /\ s.at <= now
    /\ s.at > epoch /\ s.refresh \notin late => After(s.refresh)

(* What a request has passed still holds unless the epoch moved.            *)
Let(q) ==
  /\ q.pc # "idle" => q.sent # NoSession
  /\ q.pc \in {"reissuing", "answered", "moved"} => q.answer # NoSession
  /\ q.pc = "rotating" /\ ~q.late => token[q.sent.refresh].iat > epoch
  /\ q.pc = "reissuing" /\ ~q.late => token[q.answer.refresh].iat > epoch
  /\ q.pc = "moving" /\ ~q.late => q.sent.at > epoch

TabOK(q) == Known(q.mem) /\ Known(q.sent) /\ Known(q.answer) /\ Let(q)

HeldInv ==
  /\ \A b \in Browsers : Known(stored[b])
  /\ \A t \in Tabs : TabOK(tab[t])
  /\ NoSession \notin leaving

ClockInv == cutoff <= now /\ \A s \in revoking : s <= now

IInv == TypeOK /\ TokenInv /\ HeldInv /\ ClockInv

-----------------------------------------------------------------------------
LEMMA NoToken == NoSession.refresh \notin Tokens /\ NoSession.refresh = None
BY NoneAssumption DEF NoSession

LEMMA SessionFields ==
  ASSUME NEW s \in Session, s # NoSession
  PROVE  s.refresh \in Tokens /\ s.at \in 1 .. MaxTime
BY DEF Session

LEMMA NewSession ==
  ASSUME NEW x \in Tokens, NEW a \in 1 .. MaxTime
  PROVE  /\ [refresh |-> x, at |-> a] \in Session
         /\ [refresh |-> x, at |-> a] # NoSession
         /\ [refresh |-> x, at |-> a].refresh = x
         /\ [refresh |-> x, at |-> a].at = a
<1> DEFINE s == [refresh |-> x, at |-> a]
<1>1. s.refresh = x /\ s.at = a
  OBVIOUS
<1>2. s # NoSession
  BY <1>1, NoToken
<1>3. s \in Session
  BY DEF Session
<1> QED
  BY <1>1, <1>2, <1>3

LEMMA TokenFields ==
  ASSUME TypeOK, NEW x \in Tokens
  PROVE  /\ token[x] \in TokenType
         /\ token[x].iat \in Time /\ token[x].login \in Time /\ token[x].rotated \in Time
         /\ token[x].exp \in 0 .. MaxTime + Life
         /\ token[x].next \in Tokens \cup {None}
         /\ token[x].home \in Browsers \cup {None}
BY DEF TypeOK, TokenType

LEMMA TabFields ==
  ASSUME TypeOK, NEW t \in Tabs
  PROVE  /\ tab[t] \in TabType
         /\ tab[t].mem \in Session /\ tab[t].sent \in Session /\ tab[t].answer \in Session
         /\ tab[t].since \in Time /\ tab[t].late \in BOOLEAN
BY DEF TypeOK, TabType

LEMMA Numbers ==
  ASSUME TypeOK
  PROVE  /\ now \in 1 .. MaxTime /\ now \in Nat /\ epoch \in Nat /\ cutoff \in Nat
         /\ MaxTime \in Nat /\ Life \in Nat
BY TimesAssumption DEF TypeOK, Time

LEMMA Initially == Init => IInv
<1> SUFFICES ASSUME Init PROVE IInv
  OBVIOUS
<1>1. NoSession \in Session
  BY DEF Session
<1>2. Unminted \in TokenType
  BY TimesAssumption DEF Unminted, TokenType, Time
<1>3. Quiet \in TabType
  BY <1>1, TimesAssumption DEF Quiet, TabType, Time
<1>4. TypeOK
  <2>1. 1 \in 1 .. MaxTime /\ 0 \in 0 .. MaxTime
    BY TimesAssumption
  <2>2. token \in [Tokens -> TokenType] /\ stored \in [Browsers -> Session] /\ tab \in [Tabs -> TabType]
    BY <1>1, <1>2, <1>3 DEF Init
  <2> QED
    BY <2>1, <2>2 DEF Init, TypeOK, Time
<1>5. TokenInv
  BY NoneAssumption DEF Init, TokenInv, TokenOK, Unminted
<1>6. Known(NoSession)
  BY DEF Known
<1>7. TabOK(Quiet)
  BY <1>6 DEF TabOK, Let, Quiet
<1>8. HeldInv
  BY <1>6, <1>7 DEF Init, HeldInv
<1>9. ClockInv
  BY DEF Init, ClockInv
<1> QED
  BY <1>4, <1>5, <1>8, <1>9 DEF IInv

-----------------------------------------------------------------------------
(* The shapes of a step.                                                    *)
(* The request of one tab moves on and the API keeps what it knows.         *)
LEMMA TabMoves ==
  ASSUME IInv, UNCHANGED <<now, token, epoch, late, cutoff>>, NEW t \in Tabs,
         tab' \in [Tabs -> TabType],
         \A u \in Tabs : u # t => tab'[u] = tab[u],
         TabOK(tab'[t]),
         stored' \in [Browsers -> Session],
         \A b \in Browsers : Known(stored'[b]),
         leaving' \subseteq Session, NoSession \notin leaving',
         blocked' \subseteq Tokens, revoking' \subseteq revoking \cup {now},
         alarm' \in BOOLEAN, relapsed' \in BOOLEAN, abandoned' \in BOOLEAN
  PROVE  IInv'
<1>1. TypeOK'
  BY DEF IInv, TypeOK, Time
<1>2. TokenInv'
  BY DEF IInv, TokenInv, TokenOK, After
<1>3. \A u \in Tabs : TabOK(tab'[u])
  BY DEF IInv, HeldInv
<1>4. \A u \in Tabs : TabOK(tab[u])'
  BY <1>3 DEF TabOK, Known, Let, After
<1>5. \A b \in Browsers : Known(stored[b])'
  BY DEF Known, After
<1>6. ClockInv'
  BY Numbers DEF IInv, ClockInv
<1> QED
  BY <1>1, <1>2, <1>4, <1>5, <1>6 DEF IInv, HeldInv

(* A token is minted: what was known before stays known.                    *)
LEMMA Minting ==
  ASSUME IInv, UNCHANGED <<now, epoch, cutoff>>, NEW y \in Tokens, Fresh(y),
         late' \in {late, late \cup {y}},
         \A x \in Tokens : x # y => /\ token'[x].iat = token[x].iat
                                    /\ token'[x].login = token[x].login,
         NEW s \in Session, Known(s)
  PROVE  Known(s)'
<1>1. token[y].iat = 0
  BY DEF Fresh, Unminted
<1> SUFFICES ASSUME s # NoSession
             PROVE  /\ token'[s.refresh].iat > 0
                    /\ s.at <= now
                    /\ s.at > epoch /\ s.refresh \notin late' =>
                         /\ token'[s.refresh].login > epoch
                         /\ token'[s.refresh].login >= cutoff
  BY DEF Known, NoSession, After
<1>2. s.refresh \in Tokens /\ token[s.refresh].iat > 0
  BY SessionFields DEF Known
<1>3. s.refresh # y
  BY <1>1, <1>2
<1> QED
  BY <1>2, <1>3 DEF Known, After

(* The tab whose request minted y holds what TabOK asks of it, or the       *)
(* client adopted the new session.                                          *)
LEMMA Minted ==
  ASSUME IInv, UNCHANGED <<now, epoch, cutoff, revoking>>,
         NEW t \in Tabs, NEW y \in Tokens, Fresh(y),
         late' \in {late, late \cup {y}},
         token' \in [Tokens -> TokenType],
         token'[y].iat = now, token'[y].rotated = 0, token'[y].next = None,
         y \notin late' /\ now > epoch => token'[y].login > epoch /\ token'[y].login >= cutoff,
         \A x \in Tokens : x # y => /\ token'[x].iat = token[x].iat
                                    /\ token'[x].login = token[x].login,
         \A x \in Tokens : x # y =>
           \/ token'[x] = token[x]
           \/ token'[x].iat > 0 /\ token'[x].next = y,
         tab' \in [Tabs -> TabType],
         \A u \in Tabs : u # t => tab'[u] = tab[u],
         TabOK(tab[t])',
         stored' \in [Browsers -> Session],
         \A b \in Browsers : Known(stored[b])',
         leaving' = leaving, blocked' \subseteq Tokens,
         UNCHANGED reuse
  PROVE  IInv'
<1>1. token[y].iat = 0 /\ y \notin late
  BY DEF Fresh, Unminted, IInv, TokenInv, TokenOK
<1>2. TypeOK'
  BY DEF IInv, TypeOK, Time, reuse
<1>3. ASSUME NEW x \in Tokens PROVE TokenOK(x)'
  <2>1. CASE x = y
    BY <2>1, Numbers, NoneAssumption DEF IInv, TokenOK, After
  <2>2. CASE x # y /\ token'[x] = token[x]
    <3>1. TokenOK(x)
      BY DEF IInv, TokenInv
    <3>2. token[x].next \in Tokens => token[x].next # y
      BY <1>1, <3>1 DEF TokenOK
    <3> QED
      BY <2>2, <3>1, <3>2 DEF TokenOK, After
  <2>3. CASE x # y /\ token'[x] # token[x]
    <3>1. TokenOK(x) /\ token'[x].iat = token[x].iat /\ token'[x].login = token[x].login
      BY <2>3 DEF IInv, TokenInv
    <3>2. token'[x].iat > 0 /\ token'[x].next = y
      BY <2>3
    <3>3. token'[y].iat > 0 /\ token'[y].iat >= token'[x].iat
      BY <3>1, Numbers DEF IInv, TokenOK
    <3>4. x \in late' <=> x \in late
      BY <2>3
    <3> QED
      BY <2>3, <3>1, <3>2, <3>3, <3>4, Numbers, TokenFields DEF IInv, TokenOK, After
  <2> QED
    BY <2>1, <2>2, <2>3
<1>4. ASSUME NEW u \in Tabs, u # t PROVE TabOK(tab[u])'
  <2>1. /\ tab'[u] = tab[u] /\ TabOK(tab[u])
        /\ tab[u].mem \in Session /\ tab[u].sent \in Session /\ tab[u].answer \in Session
    BY <1>4, TabFields DEF IInv, HeldInv
  <2>2. Known(tab[u].mem) /\ Known(tab[u].sent) /\ Known(tab[u].answer) /\ Let(tab[u])
    BY <2>1 DEF TabOK
  <2>3. \A s \in Session : Known(s) => (s # NoSession =>
           /\ token'[s.refresh].iat > 0
           /\ s.at <= now
           /\ s.at > epoch /\ s.refresh \notin late' =>
                token'[s.refresh].login > epoch /\ token'[s.refresh].login >= cutoff)
    <3>1. ASSUME NEW s \in Session, Known(s) PROVE Known(s)'
      BY <3>1, Minting
    <3> QED
      BY <1>1, <3>1, SessionFields DEF Known, After
  <2>4. Known(tab[u].mem)' /\ Known(tab[u].sent)' /\ Known(tab[u].answer)'
    BY <2>1, <2>2, <2>3 DEF Known, NoSession, After
  <2>5. Let(tab[u])'
    <3>1. tab[u].pc = "rotating" => tab[u].sent.refresh \in Tokens /\ tab[u].sent.refresh # y
      BY <1>1, <2>1, <2>2, SessionFields DEF Let, Known
    <3>2. tab[u].pc = "reissuing" => tab[u].answer.refresh \in Tokens /\ tab[u].answer.refresh # y
      BY <1>1, <2>1, <2>2, SessionFields DEF Let, Known
    <3> QED
      BY <2>1, <2>2, <3>1, <3>2 DEF Let, NoSession
  <2> QED
    BY <2>4, <2>5 DEF TabOK
<1>5. HeldInv'
  BY <1>4 DEF IInv, HeldInv, NoSession
<1>6. ClockInv'
  BY DEF IInv, ClockInv
<1> QED
  BY <1>2, <1>3, <1>5, <1>6 DEF IInv, TokenInv

(* An epoch is committed: what is younger was handed out after its time,    *)
(* and requests that were let through are late from then on.                *)
LEMMA EpochCommitsStep ==
  ASSUME IInv, NEW s \in revoking, EpochCommits(s)
  PROVE  IInv'
<1> DEFINE young == HandedOutAfter(s)
<1>1. /\ UNCHANGED <<now, token, blocked, revoking, stored, leaving, alarm, relapsed, abandoned>>
      /\ epoch' = s /\ late' = late \cup young /\ cutoff' \in {cutoff, s}
  BY DEF EpochCommits, reuse, AtLeast
<1>2. s \in 1 .. MaxTime /\ s \in Nat /\ s > 0 /\ s <= now
  BY TimesAssumption DEF IInv, TypeOK, ClockInv
<1>3. \A u \in Tabs : /\ tab'[u] \in TabType
                      /\ tab'[u].mem = tab[u].mem /\ tab'[u].sent = tab[u].sent
                      /\ tab'[u].answer = tab[u].answer /\ tab'[u].pc = tab[u].pc
                      /\ tab[u].pc \in {"rotating", "reissuing", "moving"} => tab'[u].late
  BY DEF EpochCommits, IInv, TypeOK, TabType
<1>4. tab' \in [Tabs -> TabType]
  BY <1>3 DEF EpochCommits
<1>5. \A e \in Held : e \in Session /\ Known(e)
  BY TabFields DEF Held, IInv, TypeOK, HeldInv, TabOK
<1>6. young \subseteq Tokens
  BY DEF HandedOutAfter
<1>7. \A x \in young : token[x].iat > 0
  <2> SUFFICES ASSUME NEW x \in young PROVE token[x].iat > 0
    OBVIOUS
  <2>1. CASE token[x].iat > s
    BY <1>2, <1>6, <2>1, TokenFields DEF IInv, Time
  <2>2. CASE \E e \in Held : e.refresh = x /\ e.at > s
    <3>1. PICK e \in Held : e.refresh = x /\ e.at > s
      BY <2>2
    <3>2. e # NoSession
      BY <1>2, <3>1 DEF NoSession
    <3> QED
      BY <1>5, <3>1, <3>2 DEF Known
  <2> QED
    BY <2>1, <2>2 DEF HandedOutAfter
<1>8. \A e \in Held : e.at > s /\ e # NoSession => e.refresh \in young
  BY <1>5, SessionFields DEF HandedOutAfter
<1>9. \A x \in Tokens : token[x].iat > s => x \in young
  BY DEF HandedOutAfter
<1> HIDE DEF young
<1>10. TypeOK'
  BY <1>1, <1>2, <1>4, <1>6, TimesAssumption DEF IInv, TypeOK, Time
<1>11. ASSUME NEW x \in Tokens PROVE TokenOK(x)'
  BY <1>1, <1>7, <1>9 DEF IInv, TokenInv, TokenOK
<1>12. ASSUME NEW e \in Held
       PROVE  e # NoSession => /\ token[e.refresh].iat > 0 /\ e.at <= now
                               /\ ~(e.at > s /\ e.refresh \notin late')
  BY <1>1, <1>5, <1>8 DEF Known
<1>13. \A b \in Browsers : Known(stored[b])'
  BY <1>1, <1>12 DEF Held, Known, NoSession
<1>14. ASSUME NEW u \in Tabs PROVE TabOK(tab[u])'
  <2>1. \A e \in {tab[u].mem, tab[u].sent, tab[u].answer} : e \in Held
    BY DEF Held
  <2>2. Known(tab[u].mem)' /\ Known(tab[u].sent)' /\ Known(tab[u].answer)'
    BY <1>1, <1>3, <1>12, <2>1 DEF Known, NoSession
  <2>3. Let(tab[u])'
    BY <1>3 DEF IInv, HeldInv, TabOK, Let, NoSession
  <2> QED
    BY <2>2, <2>3 DEF TabOK
<1>15. ClockInv'
  BY <1>1, <1>2 DEF IInv, ClockInv
<1> QED
  BY <1>1, <1>10, <1>11, <1>13, <1>14, <1>15 DEF IInv, TokenInv, HeldInv, NoSession

-----------------------------------------------------------------------------
(* Moves of one tab.                                                        *)
LEMMA Adopted ==
  ASSUME IInv, NEW t \in Tabs, NEW s \in Session, Known(s), SetTokens(t, s),
         UNCHANGED <<now, api, signOut, leaving>>,
         alarm' \in BOOLEAN, relapsed' \in BOOLEAN, abandoned' \in BOOLEAN
  PROVE  IInv'
<1> DEFINE r == [Quiet EXCEPT !.mem = s]
<1>1. /\ r.mem = s /\ r.sent = NoSession /\ r.answer = NoSession /\ r.pc = "idle"
      /\ r.late = FALSE /\ r.since = 0
  BY DEF Quiet
<1>2. r \in TabType
  <2>1. NoSession \in Session /\ 0 \in Time
    BY TimesAssumption DEF Session, Time
  <2> QED
    BY <2>1 DEF Quiet, TabType
<1>3. TabOK(r)
  BY <1>1 DEF TabOK, Known, Let
<1>4. /\ stored' = [stored EXCEPT ![Of[t]] = s]
      /\ tab' = [tab EXCEPT ![t] = r]
  BY DEF SetTokens
<1> HIDE DEF r
<1>5. tab' \in [Tabs -> TabType] /\ tab'[t] = r /\ \A u \in Tabs : u # t => tab'[u] = tab[u]
  BY <1>2, <1>4 DEF IInv, TypeOK
<1>6. stored' \in [Browsers -> Session] /\ \A b \in Browsers : Known(stored'[b])
  <2>1. \A b \in Browsers : stored'[b] = IF b = Of[t] THEN s ELSE stored[b]
    BY <1>4 DEF IInv, TypeOK
  <2>2. stored' \in [Browsers -> Session]
    BY <1>4 DEF IInv, TypeOK
  <2>3. \A b \in Browsers : Known(stored[b])
    BY DEF IInv, HeldInv
  <2> QED
    BY <2>1, <2>2, <2>3
<1>7. /\ leaving' \subseteq Session /\ NoSession \notin leaving' /\ blocked' \subseteq Tokens
      /\ revoking' \subseteq revoking \cup {now} /\ UNCHANGED <<now, token, epoch, late, cutoff>>
  BY DEF IInv, TypeOK, HeldInv, api, signOut
<1>8. TabOK(tab'[t])
  BY <1>3, <1>5
<1> QED
  BY <1>5, <1>6, <1>7, <1>8, TabMoves

(* Only the tab changes, and what it holds is known.                        *)
LEMMA Advanced ==
  ASSUME IInv, NEW t \in Tabs, NEW r \in TabType, TabOK(r),
         tab' = [tab EXCEPT ![t] = r],
         UNCHANGED <<now, token, blocked, epoch, stored, leaving, signOut>>,
         revoking' \subseteq revoking \cup {now},
         alarm' \in BOOLEAN, relapsed' \in BOOLEAN, abandoned' \in BOOLEAN
  PROVE  IInv'
<1>1. tab' \in [Tabs -> TabType] /\ tab'[t] = r /\ \A u \in Tabs : u # t => tab'[u] = tab[u]
  BY DEF IInv, TypeOK
<1>2. /\ stored' \in [Browsers -> Session] /\ \A b \in Browsers : Known(stored'[b])
      /\ leaving' \subseteq Session /\ NoSession \notin leaving' /\ blocked' \subseteq Tokens
      /\ UNCHANGED <<now, token, epoch, late, cutoff>>
  BY DEF IInv, TypeOK, HeldInv, signOut
<1>3. TabOK(tab'[t])
  BY <1>1
<1> QED
  BY <1>1, <1>2, <1>3, TabMoves

LEMMA Silent ==
  ASSUME IInv, UNCHANGED <<api, history>>
  PROVE  /\ UNCHANGED <<token, blocked, epoch, signOut>> /\ revoking' \subseteq revoking \cup {now}
         /\ alarm' \in BOOLEAN /\ relapsed' \in BOOLEAN /\ abandoned' \in BOOLEAN
BY DEF api, history, reuse, IInv, TypeOK

LEMMA SendStep ==
  ASSUME IInv, NEW t \in Tabs, NEW pc \in {"refreshing", "switching"}, Send(t, pc)
  PROVE  IInv'
<1> DEFINE r == [tab[t] EXCEPT !.pc = pc, !.sent = tab[t].mem, !.since = now]
<1>1. tab[t] \in TabType /\ now \in Time /\ TabOK(tab[t]) /\ tab[t].mem # NoSession
  BY TabFields, Numbers DEF IInv, HeldInv, Send, Time
<1>2. r \in TabType
  BY <1>1 DEF TabType
<1>3. /\ r.mem = tab[t].mem /\ r.sent = tab[t].mem /\ r.answer = tab[t].answer /\ r.pc = pc
  BY <1>1 DEF TabType
<1>4. tab' = [tab EXCEPT ![t] = r]
  BY DEF Send
<1> HIDE DEF r
<1>5. TabOK(r)
  BY <1>1, <1>3 DEF TabOK, Let
<1> QED
  BY <1>2, <1>4, <1>5, Silent, Advanced DEF Send

LEMMA PassStep ==
  ASSUME IInv, NEW t \in Tabs,
         NEW pc \in {"rotating", "moving"}, tab[t].pc # "idle", Goto(t, pc),
         pc = "rotating" => token[tab[t].sent.refresh].iat > epoch,
         pc = "moving" => tab[t].sent.at > epoch,
         UNCHANGED <<now, api, stored, leaving, history>>
  PROVE  IInv'
<1> DEFINE r == [tab[t] EXCEPT !.pc = pc]
<1>1. tab[t] \in TabType /\ TabOK(tab[t])
  BY TabFields DEF IInv, HeldInv
<1>2. r \in TabType
  BY <1>1 DEF TabType
<1>3. r.mem = tab[t].mem /\ r.sent = tab[t].sent /\ r.answer = tab[t].answer /\ r.pc = pc
  BY <1>1 DEF TabType
<1>4. tab' = [tab EXCEPT ![t] = r]
  BY DEF Goto
<1> HIDE DEF r
<1>5. TabOK(r)
  BY <1>1, <1>3 DEF TabOK, Let
<1> QED
  BY <1>2, <1>4, <1>5, Silent, Advanced

LEMMA Live ==
  ASSUME IInv, NEW x \in Tokens, Acceptable(x)
  PROVE  token[x].iat > epoch
BY Numbers, TokenFields DEF IInv, Acceptable, Dead, Time

LEMMA RefreshPassesStep ==
  ASSUME IInv, NEW t \in Tabs, RefreshPasses(t)
  PROVE  IInv'
<1>1. tab[t].pc = "refreshing" /\ tab[t].sent \in Session /\ tab[t].sent # NoSession
  BY TabFields DEF RefreshPasses, IInv, HeldInv, TabOK, Let
<1>2. token[tab[t].sent.refresh].iat > epoch
  BY <1>1, SessionFields, Live DEF RefreshPasses
<1> QED
  BY <1>1, <1>2, PassStep DEF RefreshPasses

LEMMA SwitchPassesStep ==
  ASSUME IInv, NEW t \in Tabs, SwitchPasses(t)
  PROVE  IInv'
BY PassStep DEF SwitchPasses

(* The successor found in the grace window is no older than the token      *)
(* presented, so it is live too.                                            *)
LEMMA RefreshInGraceStep ==
  ASSUME IInv, NEW t \in Tabs, RefreshInGrace(t)
  PROVE  IInv'
<1> DEFINE x == tab[t].sent.refresh
           y == token[x].next
           s == [refresh |-> y, at |-> now]
           r == [tab[t] EXCEPT !.pc = "reissuing", !.answer = s]
<1>1. tab[t].pc = "refreshing" /\ tab[t] \in TabType /\ TabOK(tab[t])
      /\ tab[t].sent \in Session /\ tab[t].sent # NoSession
  BY TabFields DEF RefreshInGrace, IInv, HeldInv, TabOK, Let
<1>2. x \in Tokens /\ TokenOK(x) /\ token[x].iat > epoch /\ token[x].rotated > 0
  <2>1. x \in Tokens /\ TokenOK(x)
    BY <1>1, SessionFields DEF IInv, TokenInv
  <2>2. Acceptable(x) /\ token[x].rotated > 0
    BY DEF RefreshInGrace, InGrace, Rotated
  <2> HIDE DEF x
  <2> QED
    BY <2>1, <2>2, Live
<1>3. y \in Tokens /\ TokenOK(y) /\ token[y].iat >= token[x].iat /\ token[y].iat > 0
  BY <1>2 DEF TokenOK, IInv, TokenInv
<1>4. token[y].iat > epoch
  BY <1>2, <1>3, TokenFields, Numbers DEF IInv, Time
<1>5. s \in Session /\ s # NoSession /\ s.refresh = y /\ s.at = now
  BY <1>3, NewSession, Numbers DEF IInv
<1>6. tab' = [tab EXCEPT ![t] = r]
  BY DEF RefreshInGrace, Answer
<1> HIDE DEF s
<1>7. Known(s)
  <2>1. y \notin late => After(y)
    BY <1>3, <1>4 DEF TokenOK
  <2> HIDE DEF y
  <2> QED
    BY <1>3, <1>5, <2>1, Numbers DEF Known, After, IInv
<1>8. r \in TabType
  BY <1>1, <1>5 DEF TabType
<1>9. r.mem = tab[t].mem /\ r.sent = tab[t].sent /\ r.answer = s /\ r.pc = "reissuing"
  BY <1>1 DEF TabType
<1> HIDE DEF r
<1>10. TabOK(r)
  BY <1>1, <1>4, <1>5, <1>7, <1>9 DEF TabOK, Let
<1> QED
  BY <1>6, <1>8, <1>10, Silent, Advanced DEF RefreshInGrace

(* The successor is handed out.  Unless the request was overtaken, it still *)
(* is as live as it was when it was read.                                   *)
LEMMA ReissueStep ==
  ASSUME IInv, NEW t \in Tabs, Reissue(t)
  PROVE  IInv'
<1> DEFINE y == tab[t].answer.refresh
           s == [refresh |-> y, at |-> now]
           r == [tab[t] EXCEPT !.pc = "answered", !.answer = s]
<1>1. /\ tab[t].pc = "reissuing" /\ tab[t] \in TabType /\ TabOK(tab[t])
      /\ tab[t].answer \in Session /\ tab[t].answer # NoSession
      /\ tab[t].sent \in Session /\ tab[t].sent # NoSession
  BY TabFields DEF Reissue, IInv, HeldInv, TabOK, Let
<1>2. y \in Tokens /\ token[y].iat > 0 /\ TokenOK(y)
  BY <1>1, SessionFields DEF TabOK, Known, IInv, TokenInv
<1>3. s \in Session /\ s # NoSession /\ s.refresh = y /\ s.at = now
  BY <1>2, NewSession, Numbers DEF IInv
<1>4. /\ tab' = [tab EXCEPT ![t] = r]
      /\ UNCHANGED <<now, token, blocked, epoch, revoking, stored, leaving,
                     cutoff, alarm, relapsed, abandoned>>
  BY DEF Reissue, Answer, api, reuse
<1>5. late' \in {late, late \cup {y}} /\ (tab[t].late => y \in late')
  BY DEF Reissue, LateBy
<1> HIDE DEF s
<1>6. r \in TabType /\ r.mem = tab[t].mem /\ r.sent = tab[t].sent /\ r.answer = s
      /\ r.pc = "answered"
  BY <1>1, <1>3 DEF TabType
<1> HIDE DEF r
<1>7. tab' \in [Tabs -> TabType] /\ tab'[t] = r /\ \A u \in Tabs : u # t => tab'[u] = tab[u]
  BY <1>4, <1>6 DEF IInv, TypeOK
<1>8. TypeOK'
  BY <1>2, <1>4, <1>5, <1>7 DEF IInv, TypeOK, Time
<1>9. ASSUME NEW x \in Tokens PROVE TokenOK(x)'
  BY <1>2, <1>4, <1>5 DEF IInv, TokenInv, TokenOK, After
<1>10. \A b \in Browsers : Known(stored[b])'
  <2>1. \A b \in Browsers : stored[b] \in Session /\ Known(stored[b]) /\ stored'[b] = stored[b]
    BY <1>4 DEF IInv, HeldInv, TypeOK
  <2> QED
    BY <1>4, <1>5, <2>1 DEF Known, After, NoSession
<1>11. Known(tab[t].answer)'
  <2>1. y \notin late' => After(y)
    BY <1>1, <1>2, <1>5 DEF TabOK, Let, TokenOK
  <2>2. tab'[t].answer = s
    BY <1>6, <1>7
  <2> HIDE DEF y
  <2> QED
    BY <1>2, <1>3, <1>4, <2>1, <2>2, Numbers DEF Known, After, IInv, NoSession
<1>12. TabOK(tab[t])'
  <2>1. /\ Known(tab[t].mem) /\ tab'[t].mem = tab[t].mem
        /\ Known(tab[t].sent) /\ tab'[t].sent = tab[t].sent
    BY <1>1, <1>6, <1>7 DEF TabOK
  <2>4. Known(tab[t].mem)' /\ Known(tab[t].sent)'
    BY <1>4, <1>5, <2>1 DEF Known, After, NoSession
  <2>3. Let(tab[t])'
    BY <1>1, <1>3, <1>6, <1>7 DEF Let, NoSession
  <2> QED
    BY <1>11, <2>3, <2>4 DEF TabOK
<1>13. ASSUME NEW u \in Tabs, u # t PROVE TabOK(tab[u])'
  <2>1. TabOK(tab[u]) /\ tab'[u] = tab[u]
    BY <1>7, <1>13 DEF IInv, HeldInv
  <2>2. Known(tab[u].mem)' /\ Known(tab[u].sent)' /\ Known(tab[u].answer)'
    BY <1>4, <1>5, <2>1 DEF TabOK, Known, After, NoSession
  <2>3. Let(tab[u])'
    BY <1>4, <2>1 DEF TabOK, Let, NoSession
  <2> QED
    BY <2>2, <2>3 DEF TabOK
<1>14. ClockInv' /\ NoSession \notin leaving'
  BY <1>4 DEF IInv, HeldInv, ClockInv
<1> QED
  BY <1>8, <1>9, <1>10, <1>12, <1>13, <1>14 DEF IInv, TokenInv, HeldInv, NoSession

(* A reused token reads the time for a new epoch, as signing out everywhere *)
(* does.                                                                    *)
LEMMA RefreshReusedStep ==
  ASSUME IInv, NEW t \in Tabs, RefreshReused(t)
  PROVE  IInv'
<1> DEFINE r == [tab[t] EXCEPT !.pc = "refused"]
<1>1. tab[t].pc = "refreshing" /\ tab[t] \in TabType /\ TabOK(tab[t])
  BY TabFields DEF RefreshReused, IInv, HeldInv
<1>2. /\ r \in TabType /\ r.mem = tab[t].mem /\ r.sent = tab[t].sent
      /\ r.answer = tab[t].answer /\ r.pc = "refused"
  BY <1>1 DEF TabType
<1>3. /\ tab' = [tab EXCEPT ![t] = r]
      /\ UNCHANGED <<now, token, blocked, epoch, stored, leaving, signOut>>
      /\ revoking' \subseteq revoking \cup {now}
      /\ alarm' \in BOOLEAN /\ relapsed' \in BOOLEAN /\ abandoned' \in BOOLEAN
  BY DEF RefreshReused, Goto, Stamp, IInv, TypeOK
<1> HIDE DEF r
<1>4. TabOK(r)
  BY <1>1, <1>2 DEF TabOK, Let
<1> QED
  BY <1>2, <1>3, <1>4, Advanced

(* The API's own steps about the epoch.                                     *)
LEMMA LogoutAllStep ==
  ASSUME IInv, LogoutAll
  PROVE  IInv'
<1>1. UNCHANGED <<now, token, blocked, epoch, stored, tab, leaving, history>>
      /\ revoking' = revoking \cup {now}
  BY DEF LogoutAll, Stamp
<1>2. TypeOK'
  BY <1>1, Numbers DEF IInv, TypeOK, history, signOut, reuse, Time
<1>3. ClockInv'
  BY <1>1, Numbers DEF IInv, ClockInv, history, signOut
<1> QED
  BY <1>1, <1>2, <1>3 DEF IInv, TokenInv, TokenOK, HeldInv, TabOK, Known, Let, After, NoSession,
     history, signOut

LEMMA RevocationEndsStep ==
  ASSUME IInv, NEW s \in revoking, RevocationEnds(s)
  PROVE  IInv'
<1>1. UNCHANGED <<now, token, blocked, epoch, stored, tab, leaving, history>>
      /\ revoking' \subseteq revoking
  BY DEF RevocationEnds
<1>2. TypeOK'
  BY <1>1 DEF IInv, TypeOK, history, signOut, reuse, Time
<1>3. ClockInv'
  BY <1>1 DEF IInv, ClockInv, history, signOut
<1> QED
  BY <1>1, <1>2, <1>3 DEF IInv, TokenInv, TokenOK, HeldInv, TabOK, Known, Let, After, NoSession,
     history, signOut

-----------------------------------------------------------------------------
(* The requests that mint.                                                  *)
LEMMA NewToken ==
  ASSUME IInv, NEW x \in Tokens
  PROVE  Expiry(x) \in 0 .. MaxTime + Life /\ now + Life \in 0 .. MaxTime + Life
<1>1. now \in 1 .. MaxTime /\ Life \in Nat /\ MinLife \in Nat /\ MaxTime \in Nat
      /\ token[x].exp \in Nat
  BY TokenFields, TimesAssumption DEF IInv, TypeOK
<1>2. AtLeast(token[x].exp - now, MinLife) \in Nat
  BY <1>1 DEF AtLeast
<1>3. AtMost(Life, AtLeast(token[x].exp - now, MinLife)) \in 0 .. Life
  BY <1>1, <1>2 DEF AtMost
<1> QED
  BY <1>1, <1>3 DEF Expiry

LEMMA Minter ==
  ASSUME IInv, NEW t \in Tabs, NEW login \in Time, NEW exp \in 0 .. MaxTime + Life
  PROVE  \E k \in TokenType :
           /\ k = [iat |-> now, exp |-> exp, login |-> login, home |-> Of[t],
                   rotated |-> 0, next |-> None]
           /\ k.iat = now /\ k.rotated = 0 /\ k.next = None /\ k.login = login
<1> DEFINE k == [iat |-> now, exp |-> exp, login |-> login, home |-> Of[t],
                 rotated |-> 0, next |-> None]
<1>1. k \in TokenType
  BY Numbers, TabsAssumption, TimesAssumption DEF TokenType, Time, IInv
<1>2. k.iat = now /\ k.rotated = 0 /\ k.next = None /\ k.login = login
  OBVIOUS
<1> HIDE DEF k
<1>3. k = [iat |-> now, exp |-> exp, login |-> login, home |-> Of[t],
           rotated |-> 0, next |-> None]
  BY DEF k
<1> WITNESS k \in TokenType
<1> QED
  BY <1>2, <1>3

LEMMA LoginStep ==
  ASSUME IInv, NEW t \in Tabs, Login(t)
  PROVE  IInv'
<1>1. PICK y \in Tokens : /\ Fresh(y)
                          /\ token' = Mint(token, t, y, now, now + Life)
                          /\ SetTokens(t, [refresh |-> y, at |-> now])
  BY DEF Login
<1>2. now \in Time /\ now + Life \in 0 .. MaxTime + Life /\ token \in [Tokens -> TokenType]
  BY <1>1, NewToken, Numbers DEF IInv, TypeOK, Time
<1>3. /\ token' \in [Tokens -> TokenType]
      /\ token'[y].iat = now /\ token'[y].rotated = 0 /\ token'[y].next = None
      /\ token'[y].login = now
      /\ \A x \in Tokens : x # y => token'[x] = token[x]
  <2>1. PICK k \in TokenType :
          /\ k = [iat |-> now, exp |-> now + Life, login |-> now, home |-> Of[t],
                  rotated |-> 0, next |-> None]
          /\ k.iat = now /\ k.rotated = 0 /\ k.next = None /\ k.login = now
    BY <1>2, Minter
  <2>2. token' = [token EXCEPT ![y] = k]
    BY <1>1, <2>1 DEF Mint
  <2> QED
    BY <1>2, <2>1, <2>2
<1>4. PICK s \in Session : /\ s = [refresh |-> y, at |-> now]
                           /\ s # NoSession /\ s.refresh = y /\ s.at = now
  BY NewSession, Numbers DEF IInv
<1> DEFINE r == [Quiet EXCEPT !.mem = s]
<1>5. tab' = [tab EXCEPT ![t] = r] /\ stored' = [stored EXCEPT ![Of[t]] = s]
  BY <1>1, <1>4 DEF SetTokens
<1>6. /\ r.mem = s /\ r.sent = NoSession /\ r.answer = NoSession /\ r.pc = "idle"
  BY DEF Quiet
<1>7. r \in TabType
  <2>1. NoSession \in Session /\ 0 \in Time
    BY TimesAssumption DEF Session, Time
  <2> QED
    BY <1>4, <2>1 DEF Quiet, TabType
<1> HIDE DEF r
<1>8. tab' \in [Tabs -> TabType] /\ tab'[t] = r /\ \A u \in Tabs : u # t => tab'[u] = tab[u]
  BY <1>5, <1>7 DEF IInv, TypeOK
<1>9. UNCHANGED <<now, epoch, late, cutoff, reuse, blocked, revoking, leaving>>
  BY DEF Login, history, signOut
<1>10. Known(s)'
  BY <1>3, <1>4, <1>9, Numbers DEF Known, After, ClockInv, IInv
<1>11. TabOK(tab[t])'
  BY <1>6, <1>8, <1>10 DEF TabOK, Known, Let, NoSession
<1>12. stored' \in [Browsers -> Session] /\ \A b \in Browsers : Known(stored[b])'
  <2>1. stored \in [Browsers -> Session] /\ \A b \in Browsers : Known(stored[b])
    BY DEF IInv, TypeOK, HeldInv
  <2>2. \A b \in Browsers : stored'[b] = IF b = Of[t] THEN s ELSE stored[b]
    BY <1>5, <2>1
  <2>3. ASSUME NEW b \in Browsers, b # Of[t] PROVE Known(stored[b])'
    <3>1. stored'[b] = stored[b] /\ stored[b] \in Session /\ Known(stored[b])
      BY <2>1, <2>2, <2>3
    <3> DEFINE z == stored[b]
    <3>2. z # NoSession => z.refresh \in Tokens /\ z.refresh # y
      BY <1>1, <3>1, SessionFields DEF Known, Fresh, Unminted
    <3> QED
      BY <1>3, <1>9, <3>1, <3>2 DEF Known, After, NoSession
  <2>4. ASSUME NEW b \in Browsers, b = Of[t] PROVE Known(stored[b])'
    BY <1>10, <2>2, <2>4 DEF Known, NoSession
  <2> QED
    BY <1>4, <1>5, <2>1, <2>3, <2>4
<1>13. blocked' \subseteq Tokens
  BY <1>9 DEF IInv, TypeOK
<1>14. now > epoch => token'[y].login > epoch /\ token'[y].login >= cutoff
  BY <1>3, Numbers DEF ClockInv, IInv
<1> QED
  BY <1>1, <1>3, <1>8, <1>9, <1>11, <1>12, <1>13, <1>14, Minted

(* A request mints a successor of the token it presents.  Unless it was     *)
(* overtaken, what it had passed still tells the login younger than the     *)
(* epoch.                                                                   *)
LEMMA Successor ==
  ASSUME IInv, NEW t \in Tabs, NEW y \in Tokens, Fresh(y),
         tab[t].pc \in {"rotating", "moving"},
         NEW pc \in {"answered", "moved"}, Answer(t, pc, [refresh |-> y, at |-> now]),
         late' = LateBy(t, y),
         token' \in [Tokens -> TokenType],
         token'[y].iat = now, token'[y].rotated = 0, token'[y].next = None,
         token'[y].login = token[tab[t].sent.refresh].login,
         \A x \in Tokens : x # y => /\ token'[x].iat = token[x].iat
                                    /\ token'[x].login = token[x].login,
         \A x \in Tokens : x # y => \/ token'[x] = token[x]
                                    \/ x = tab[t].sent.refresh /\ token'[x].next = y,
         blocked' \subseteq Tokens,
         UNCHANGED <<now, epoch, revoking, stored, leaving, cutoff, reuse>>
  PROVE  IInv'
<1> DEFINE x == tab[t].sent.refresh
<1>1. /\ tab[t] \in TabType /\ TabOK(tab[t]) /\ tab[t].late \in BOOLEAN
      /\ tab[t].sent \in Session /\ tab[t].sent # NoSession
      /\ tab[t].mem \in Session /\ tab[t].answer \in Session
  BY TabFields DEF IInv, HeldInv, TabOK, Let
<1>2. x \in Tokens /\ TokenOK(x) /\ token[x].iat > 0 /\ Known(tab[t].sent)
  BY <1>1, SessionFields DEF IInv, TokenInv, TabOK, Known
<1>3. token[y].iat = 0 /\ y # x
  BY <1>2 DEF Fresh, Unminted
<1>4. token[x].login \in Time
  BY <1>2, TokenFields DEF IInv
<1>5. /\ token' \in [Tokens -> TokenType]
      /\ token'[y].iat = now /\ token'[y].rotated = 0 /\ token'[y].next = None
      /\ token'[y].login = token[x].login
  OBVIOUS
<1>6. y \notin late' => ~tab[t].late /\ x \notin late
  BY DEF LateBy
<1>7. late' \in {late, late \cup {y}} /\ (x \in late => y \in late')
  BY DEF LateBy
<1>8. ~tab[t].late /\ x \notin late => After(x)
  <2>1. CASE tab[t].pc = "rotating"
    BY <1>1, <1>2, <2>1 DEF TabOK, Let, TokenOK
  <2>2. CASE tab[t].pc = "moving"
    BY <1>1, <1>2, <2>2 DEF TabOK, Let, Known
  <2> QED
    BY <2>1, <2>2
<1>9. PICK s \in Session : /\ s = [refresh |-> y, at |-> now]
                           /\ s # NoSession /\ s.refresh = y /\ s.at = now
  BY NewSession, Numbers DEF IInv
<1> DEFINE r == [tab[t] EXCEPT !.pc = pc, !.answer = s]
<1>10. tab' = [tab EXCEPT ![t] = r]
  BY <1>9 DEF Answer
<1>11. r \in TabType /\ r.mem = tab[t].mem /\ r.sent = tab[t].sent /\ r.answer = s /\ r.pc = pc
  BY <1>1 DEF TabType
<1> HIDE DEF r
<1>12. tab' \in [Tabs -> TabType] /\ tab'[t] = r /\ \A u \in Tabs : u # t => tab'[u] = tab[u]
  BY <1>10, <1>11 DEF IInv, TypeOK
<1>13. \A z \in Tokens : z # y => token'[z].iat = token[z].iat /\ token'[z].login = token[z].login
  OBVIOUS
<1>14. \A z \in Tokens : z # y => \/ token'[z] = token[z]
                                  \/ token'[z].iat > 0 /\ token'[z].next = y
  BY <1>2, <1>5, <1>7, <1>13
<1>15. ASSUME NEW z \in Session, Known(z) PROVE Known(z)'
  <2>1. UNCHANGED <<now, epoch, cutoff>> /\ late' \in {late, late \cup {y}}
    BY <1>7
  <2> HIDE DEF x
  <2> QED
    BY <1>13, <1>15, <2>1, Minting
<1>16. Known(s)'
  BY <1>5, <1>6, <1>8, <1>9, Numbers DEF Known, After, IInv
<1>17. TabOK(tab[t])'
  <2>1. \A z \in Session : Known(z) => (z # NoSession =>
           /\ token'[z.refresh].iat > 0
           /\ z.at <= now'
           /\ z.at > epoch' /\ z.refresh \notin late' =>
                token'[z.refresh].login > epoch' /\ token'[z.refresh].login >= cutoff')
    BY <1>15 DEF Known, After, NoSession
  <2>2. Known(tab[t].mem) /\ Known(tab[t].sent)
    BY <1>1 DEF TabOK
  <2>3. Known(tab[t].mem)' /\ Known(tab[t].sent)'
    BY <1>1, <1>11, <1>12, <2>1, <2>2 DEF Known, After, NoSession
  <2>4. Known(tab[t].answer)'
    BY <1>11, <1>12, <1>16 DEF Known, After, NoSession
  <2>5. Let(tab[t])'
    BY <1>1, <1>9, <1>11, <1>12 DEF Let, NoSession
  <2> QED
    BY <2>3, <2>4, <2>5 DEF TabOK
<1>18. stored' \in [Browsers -> Session] /\ \A b \in Browsers : Known(stored[b])'
  <2>1. stored' = stored /\ \A b \in Browsers : stored[b] \in Session /\ Known(stored[b])
    BY DEF IInv, TypeOK, HeldInv
  <2>2. \A b \in Browsers : Known(stored[b])'
    BY <1>15, <2>1 DEF Known, After, NoSession
  <2> QED
    BY <2>1, <2>2 DEF IInv, TypeOK
<1>19. y \notin late' /\ now > epoch => token'[y].login > epoch /\ token'[y].login >= cutoff
  BY <1>5, <1>6, <1>8 DEF After
<1> QED
  BY <1>5, <1>7, <1>12, <1>13, <1>14, <1>17, <1>18, <1>19, Minted

LEMMA RotateStep ==
  ASSUME IInv, NEW t \in Tabs, Rotate(t)
  PROVE  IInv'
<1> DEFINE x == tab[t].sent.refresh
<1>1. tab[t].pc = "rotating" /\ tab[t].sent \in Session /\ tab[t].sent # NoSession
  BY TabFields DEF Rotate, IInv, HeldInv, TabOK, Let
<1>2. x \in Tokens
  BY <1>1, SessionFields
<1>3. PICK y \in Tokens :
        /\ Fresh(y)
        /\ token' = Mint([token EXCEPT ![x].rotated = now, ![x].next = y],
                         t, y, token[x].login, Expiry(x))
        /\ late' = LateBy(t, y)
        /\ Answer(t, "answered", [refresh |-> y, at |-> now])
  BY DEF Rotate
<1> DEFINE e == [token[x] EXCEPT !.rotated = now, !.next = y]
           m == [token EXCEPT ![x] = e]
<1>4. token[x] \in TokenType /\ now \in Time /\ token \in [Tokens -> TokenType]
  BY <1>2, TokenFields, Numbers DEF IInv, TypeOK, Time
<1>5. e \in TokenType /\ e.iat = token[x].iat /\ e.login = token[x].login /\ e.next = y
  BY <1>4 DEF TokenType
<1>6. [token EXCEPT ![x].rotated = now, ![x].next = y] = m
  BY <1>2, <1>4
<1> HIDE DEF e
<1>7. /\ m \in [Tokens -> TokenType]
      /\ \A z \in Tokens : m[z].iat = token[z].iat /\ m[z].login = token[z].login
      /\ \A z \in Tokens : z # y => (m[z] = token[z] \/ (z = x /\ m[z].next = y))
  <2>1. m \in [Tokens -> TokenType] /\ \A z \in Tokens : m[z] = IF z = x THEN e ELSE token[z]
    BY <1>2, <1>4, <1>5
  <2> HIDE DEF m
  <2> QED
    BY <1>2, <1>5, <2>1
<1> HIDE DEF m
<1>8. UNCHANGED <<now, epoch, revoking, stored, leaving, cutoff, reuse>> /\ blocked' \subseteq Tokens
  BY DEF Rotate, IInv, TypeOK
<1>9. /\ token' \in [Tokens -> TokenType]
      /\ token'[y].iat = now /\ token'[y].rotated = 0 /\ token'[y].next = None
      /\ token'[y].login = token[x].login
      /\ \A z \in Tokens : z # y => token'[z] = m[z]
  <2>1. Expiry(x) \in 0 .. MaxTime + Life /\ token[x].login \in Time
    BY <1>2, NewToken, TokenFields DEF IInv
  <2>2. PICK k \in TokenType :
          /\ k = [iat |-> now, exp |-> Expiry(x), login |-> token[x].login, home |-> Of[t],
                  rotated |-> 0, next |-> None]
          /\ k.iat = now /\ k.rotated = 0 /\ k.next = None /\ k.login = token[x].login
    BY <2>1, Minter
  <2>3. token' = [m EXCEPT ![y] = k]
    BY <1>3, <1>6, <2>2 DEF Mint
  <2> QED
    BY <1>7, <2>2, <2>3
<1>10. \A z \in Tokens : z # y => /\ token'[z].iat = token[z].iat
                                 /\ token'[z].login = token[z].login
  BY <1>7, <1>9
<1>11. \A z \in Tokens : z # y => \/ token'[z] = token[z]
                                  \/ z = tab[t].sent.refresh /\ token'[z].next = y
  BY <1>7, <1>9
<1>12. y \in Tokens /\ Fresh(y) /\ late' = LateBy(t, y)
       /\ Answer(t, "answered", [refresh |-> y, at |-> now])
  BY <1>3
<1> QED
  BY <1>1, <1>8, <1>9, <1>10, <1>11, <1>12, Successor

LEMMA SwitchMintsStep ==
  ASSUME IInv, NEW t \in Tabs, SwitchMints(t)
  PROVE  IInv'
<1> DEFINE x == tab[t].sent.refresh
           exp == IF token[x].exp > now THEN Expiry(x) ELSE now + Life
<1>1. tab[t].pc = "moving" /\ tab[t].sent \in Session /\ tab[t].sent # NoSession
  BY TabFields DEF SwitchMints, IInv, HeldInv, TabOK, Let
<1>2. x \in Tokens
  BY <1>1, SessionFields
<1>3. exp \in 0 .. MaxTime + Life
  BY <1>2, NewToken
<1>4. PICK y \in Tokens :
        /\ Fresh(y)
        /\ token' = Mint(token, t, y, token[x].login, exp)
        /\ late' = LateBy(t, y)
        /\ Answer(t, "moved", [refresh |-> y, at |-> now])
  BY DEF SwitchMints
<1> HIDE DEF exp
<1>5. token \in [Tokens -> TokenType] /\ blocked' \subseteq Tokens
      /\ UNCHANGED <<now, epoch, revoking, stored, leaving, cutoff, reuse>>
  BY <1>2 DEF SwitchMints, IInv, TypeOK
<1>6. /\ token' \in [Tokens -> TokenType]
      /\ token'[y].iat = now /\ token'[y].rotated = 0 /\ token'[y].next = None
      /\ token'[y].login = token[x].login
      /\ \A z \in Tokens : z # y => token'[z] = token[z]
  <2>1. token[x].login \in Time
    BY <1>2, TokenFields DEF IInv
  <2>2. PICK k \in TokenType :
          /\ k = [iat |-> now, exp |-> exp, login |-> token[x].login, home |-> Of[t],
                  rotated |-> 0, next |-> None]
          /\ k.iat = now /\ k.rotated = 0 /\ k.next = None /\ k.login = token[x].login
    BY <1>3, <2>1, Minter
  <2>3. token' = [token EXCEPT ![y] = k]
    BY <1>4, <2>2 DEF Mint
  <2> QED
    BY <1>5, <2>2, <2>3
<1> QED
  BY <1>1, <1>4, <1>5, <1>6, Successor

-----------------------------------------------------------------------------
LEMMA NoSessionKnown == NoSession \in Session /\ Known(NoSession)
BY DEF Session, Known

LEMMA ReceiveStep ==
  ASSUME IInv, NEW t \in Tabs, Receive(t)
  PROVE  IInv'
<1>1. tab[t].answer \in Session /\ Known(tab[t].answer)
  BY TabFields DEF IInv, HeldInv, TabOK
<1>2. /\ SetTokens(t, tab[t].answer)
      /\ UNCHANGED <<now, api, signOut, leaving>>
      /\ alarm' \in BOOLEAN /\ relapsed' \in BOOLEAN /\ abandoned' \in BOOLEAN
  BY DEF Receive, IInv, TypeOK, Rotated
<1> QED
  BY <1>1, <1>2, Adopted

LEMMA SessionExpiredStep ==
  ASSUME IInv, NEW t \in Tabs, SessionExpired(t)
  PROVE  IInv'
<1>1. /\ SetTokens(t, NoSession)
      /\ UNCHANGED <<now, api, signOut, leaving>>
      /\ alarm' \in BOOLEAN /\ relapsed' \in BOOLEAN /\ abandoned' \in BOOLEAN
  BY DEF SessionExpired, history, reuse, IInv, TypeOK
<1> QED
  BY <1>1, NoSessionKnown, Adopted

LEMMA PageLeftStep ==
  ASSUME IInv, NEW t \in Tabs, PageLeft(t)
  PROVE  IInv'
<1> DEFINE r == [Quiet EXCEPT !.mem = stored[Of[t]]]
<1>1. stored[Of[t]] \in Session /\ Known(stored[Of[t]]) /\ 0 \in Time
  BY TabsAssumption, TimesAssumption DEF IInv, TypeOK, HeldInv, Time
<1>2. /\ r.mem = stored[Of[t]] /\ r.sent = NoSession /\ r.answer = NoSession /\ r.pc = "idle"
  BY DEF Quiet
<1>3. r \in TabType
  BY <1>1, NoSessionKnown DEF Quiet, TabType
<1>4. TabOK(r)
  BY <1>1, <1>2, NoSessionKnown DEF TabOK, Let
<1>5. /\ tab' = [tab EXCEPT ![t] = r]
      /\ UNCHANGED <<now, token, blocked, epoch, revoking, stored, leaving, signOut>>
      /\ alarm' \in BOOLEAN /\ relapsed' \in BOOLEAN /\ abandoned' \in BOOLEAN
  BY DEF PageLeft, api, IInv, TypeOK
<1> HIDE DEF r
<1> QED
  BY <1>3, <1>4, <1>5, Advanced

LEMMA SwitchFailsStep ==
  ASSUME IInv, NEW t \in Tabs, SwitchFails(t)
  PROVE  IInv'
<1> DEFINE r == [Quiet EXCEPT !.mem = tab[t].mem]
<1>1. tab[t].mem \in Session /\ Known(tab[t].mem) /\ 0 \in Time
  BY TabFields, TimesAssumption DEF IInv, HeldInv, TabOK, Time
<1>2. /\ r.mem = tab[t].mem /\ r.sent = NoSession /\ r.answer = NoSession /\ r.pc = "idle"
  BY DEF Quiet
<1>3. r \in TabType
  BY <1>1, NoSessionKnown DEF Quiet, TabType
<1>4. TabOK(r)
  BY <1>1, <1>2, NoSessionKnown DEF TabOK, Let
<1>5. tab' = [tab EXCEPT ![t] = r]
  BY DEF SwitchFails
<1> HIDE DEF r
<1> QED
  BY <1>3, <1>4, <1>5, Silent, Advanced DEF SwitchFails

LEMMA SyncStep ==
  ASSUME IInv, NEW t \in Tabs, Sync(t)
  PROVE  IInv'
<1> DEFINE r == [tab[t] EXCEPT !.mem = stored[Of[t]]]
<1>1. tab[t] \in TabType /\ TabOK(tab[t])
  BY TabFields DEF IInv, HeldInv
<1>2. stored[Of[t]] \in Session /\ Known(stored[Of[t]])
  BY TabsAssumption DEF IInv, TypeOK, HeldInv
<1>3. r \in TabType
  BY <1>1, <1>2 DEF TabType
<1>4. /\ r.mem = stored[Of[t]] /\ r.sent = tab[t].sent /\ r.answer = tab[t].answer
      /\ r.pc = tab[t].pc /\ r.late = tab[t].late
  BY <1>1 DEF TabType
<1>5. tab' = [tab EXCEPT ![t] = r]
  BY DEF Sync
<1> HIDE DEF r
<1>6. TabOK(r)
  BY <1>1, <1>2, <1>4 DEF TabOK, Let
<1> QED
  BY <1>3, <1>5, <1>6, Silent, Advanced DEF Sync

LEMMA LogoutStep ==
  ASSUME IInv, NEW t \in Tabs, Logout(t)
  PROVE  IInv'
<1> DEFINE r == [tab[t] EXCEPT !.mem = NoSession]
<1>1. tab[t] \in TabType /\ TabOK(tab[t]) /\ tab[t].mem \in Session
  BY TabFields DEF IInv, HeldInv
<1>2. r \in TabType
  BY <1>1, NoSessionKnown DEF TabType
<1>3. /\ r.mem = NoSession /\ r.sent = tab[t].sent /\ r.answer = tab[t].answer
      /\ r.pc = tab[t].pc /\ r.late = tab[t].late
  BY <1>1 DEF TabType
<1>4. tab' = [tab EXCEPT ![t] = r]
  BY DEF Logout
<1> HIDE DEF r
<1>5. TabOK(r)
  BY <1>1, <1>3, NoSessionKnown DEF TabOK, Let
<1>6. tab' \in [Tabs -> TabType] /\ tab'[t] = r /\ \A u \in Tabs : u # t => tab'[u] = tab[u]
  BY <1>2, <1>4 DEF IInv, TypeOK
<1>7. stored' \in [Browsers -> Session] /\ \A b \in Browsers : Known(stored'[b])
  <2>1. stored' = [stored EXCEPT ![Of[t]] = NoSession]
    BY DEF Logout
  <2>2. stored \in [Browsers -> Session] /\ \A b \in Browsers : Known(stored[b])
    BY DEF IInv, TypeOK, HeldInv
  <2>3. \A b \in Browsers : stored'[b] = NoSession \/ stored'[b] = stored[b]
    BY <2>1, <2>2
  <2>4. stored' \in [Browsers -> Session]
    BY <2>1, <2>2, NoSessionKnown
  <2> QED
    BY <2>2, <2>3, <2>4, NoSessionKnown
<1>8. /\ leaving' \subseteq Session /\ NoSession \notin leaving' /\ blocked' \subseteq Tokens
      /\ revoking' \subseteq revoking \cup {now} /\ UNCHANGED <<now, token, epoch, late, cutoff>>
      /\ alarm' \in BOOLEAN /\ relapsed' \in BOOLEAN /\ abandoned' \in BOOLEAN
  BY <1>1 DEF Logout, api, history, signOut, reuse, IInv, TypeOK, HeldInv
<1>9. TabOK(tab'[t])
  BY <1>5, <1>6
<1> QED
  BY <1>6, <1>7, <1>8, <1>9, TabMoves

(* Steps without a tab.                                                     *)
LEMMA LogoutServedStep ==
  ASSUME IInv, NEW s \in leaving, LogoutServed(s)
  PROVE  IInv'
<1>1. s \in Session /\ s # NoSession /\ leaving' \subseteq Session /\ NoSession \notin leaving'
  BY DEF LogoutServed, IInv, TypeOK, HeldInv
<1>2. s.refresh \in Tokens
  BY <1>1, SessionFields
<1>3. blocked' \subseteq Tokens
  BY <1>2 DEF LogoutServed, IInv, TypeOK
<1>4. UNCHANGED <<now, token, epoch, revoking, stored, tab, late, cutoff,
                   alarm, relapsed, abandoned>>
  BY DEF LogoutServed, history, signOut, reuse
<1>5. TypeOK'
  BY <1>1, <1>3, <1>4 DEF IInv, TypeOK, Time
<1>6. TokenInv'
  BY <1>4 DEF IInv, TokenInv, TokenOK, After
<1>7. HeldInv' /\ ClockInv'
  BY <1>1, <1>4 DEF IInv, HeldInv, TabOK, Known, Let, After, NoSession, ClockInv
<1> QED
  BY <1>5, <1>6, <1>7 DEF IInv

LEMMA TickStep ==
  ASSUME IInv, Tick
  PROVE  IInv'
<1>1. now' = now + 1 /\ now' \in 1 .. MaxTime /\ now \in Nat
  BY Numbers DEF Tick, IInv
<1>2. UNCHANGED <<token, blocked, epoch, revoking, stored, tab, leaving, late, cutoff,
                   alarm, relapsed, abandoned>>
  BY DEF Tick, api, history, signOut, reuse
<1>3. TypeOK'
  BY <1>1, <1>2 DEF IInv, TypeOK, Time
<1>4. ASSUME NEW x \in Tokens PROVE TokenOK(x)'
  <2>1. TokenOK(x) /\ token[x].iat \in Nat
    BY TokenFields, Numbers DEF IInv, TokenInv, Time
  <2> QED
    BY <1>1, <1>2, <2>1 DEF TokenOK, After
<1>5. ASSUME NEW s \in Session, Known(s) PROVE s # NoSession =>
             /\ token'[s.refresh].iat > 0
             /\ s.at <= now'
             /\ s.at > epoch' /\ s.refresh \notin late' =>
                  token'[s.refresh].login > epoch' /\ token'[s.refresh].login >= cutoff'
  BY <1>1, <1>2, <1>5, SessionFields, Numbers DEF Known, After, IInv
<1>6. \A b \in Browsers : Known(stored[b])'
  <2>1. \A b \in Browsers : stored[b] \in Session /\ Known(stored[b])
    BY DEF IInv, TypeOK, HeldInv
  <2> QED
    BY <1>2, <1>5, <2>1 DEF Known, After, NoSession
<1>7. ASSUME NEW u \in Tabs PROVE TabOK(tab[u])'
  <2>1. /\ TabOK(tab[u])
        /\ tab[u].mem \in Session /\ tab[u].sent \in Session /\ tab[u].answer \in Session
    BY TabFields DEF IInv, HeldInv
  <2>2. Known(tab[u].mem)' /\ Known(tab[u].sent)' /\ Known(tab[u].answer)'
    BY <1>2, <1>5, <2>1 DEF TabOK, Known, After, NoSession
  <2>3. Let(tab[u])'
    BY <1>2, <2>1 DEF TabOK, Let, NoSession
  <2> QED
    BY <2>2, <2>3 DEF TabOK
<1>8. NoSession \notin leaving' /\ ClockInv'
  BY <1>1, <1>2, Numbers DEF IInv, TypeOK, HeldInv, ClockInv
<1> QED
  BY <1>3, <1>4, <1>6, <1>7, <1>8 DEF IInv, TokenInv, HeldInv, NoSession

LEMMA Stepwise == IInv /\ [Next]_vars => IInv'
<1> SUFFICES ASSUME IInv, [Next]_vars PROVE IInv'
  OBVIOUS
<1>1. ASSUME NEW t \in Tabs,
             Login(t) \/ Refresh(t) \/ Switch(t) \/ Receive(t) \/ SessionExpired(t)
               \/ PageLeft(t) \/ Sync(t) \/ Logout(t)
      PROVE  IInv'
  BY <1>1, LoginStep, SendStep, RefreshPassesStep, RefreshInGraceStep, ReissueStep,
     RefreshReusedStep, RotateStep, SwitchPassesStep, SwitchMintsStep, SwitchFailsStep,
     ReceiveStep, SessionExpiredStep, PageLeftStep, SyncStep, LogoutStep DEF Refresh, Switch
<1>2. CASE UNCHANGED vars
  BY <1>2 DEF vars, api, history, signOut, reuse, IInv, TypeOK, TokenInv, TokenOK, HeldInv, TabOK,
     Known, Let, After, NoSession, ClockInv
<1> QED
  BY <1>1, <1>2, LogoutServedStep, LogoutAllStep, EpochCommitsStep, RevocationEndsStep,
     TickStep DEF Next

-----------------------------------------------------------------------------
THEOREM Invariant == Spec => []IInv
<1> QED
  BY Initially, Stepwise, PTL DEF Spec

(* Every variable keeps its type in every run.                              *)
THEOREM TypeCorrect == Spec => []TypeOK
<1>1. IInv => TypeOK
  BY DEF IInv
<1> QED
  BY <1>1, Invariant, PTL

(* Signing out everywhere (logout_all, a change of the password, or the     *)
(* reuse alarm) reaches every session of the user, however refreshes,       *)
(* switches of organization and other sign-outs interleave with reading its *)
(* time and committing it: a refresh or an access token that is still alive *)
(* comes from a login after every sign-out, or was handed out after the     *)
(* time read by a request that was past its checks before the commit.       *)
THEOREM EveryoneIsSignedOut == Spec => []SignOutReachesAll
<1>1. IInv => SignOutReachesAll
  <2> SUFFICES ASSUME IInv, NEW x \in HandedOutAfter(epoch), x \notin late
               PROVE  After(x)
    BY DEF SignOutReachesAll, After
  <2>1. CASE x \in Tokens /\ token[x].iat > epoch
    BY <2>1 DEF IInv, TokenInv, TokenOK
  <2>2. CASE \E e \in Held : e.refresh = x /\ e.at > epoch
    <3>1. PICK e \in Held : e.refresh = x /\ e.at > epoch
      BY <2>2
    <3>2. Known(e)
      BY <3>1 DEF Held, IInv, HeldInv, TabOK
    <3>3. e # NoSession
      BY <3>1, Numbers DEF NoSession, IInv
    <3> QED
      BY <3>1, <3>2, <3>3 DEF Known
  <2> QED
    BY <2>1, <2>2 DEF HandedOutAfter
<1> QED
  BY <1>1, Invariant, PTL

-----------------------------------------------------------------------------
(* Why the alarm waits for a relapse or an abandoned answer.  A token stays *)
(* in the browser it was minted for (HomeInv) and a request is answered in  *)
(* time (PaceInv).  So a browser keeps a retired token only until the tab   *)
(* that retired it adopts its answer (Awaited), a tab no longer than a      *)
(* Delay after it was retired (Recent), and what a tab presents was retired *)
(* at most two of them ago.                                                 *)
Excused == relapsed \/ abandoned
AtHome(s, b) == s # NoSession => token[s.refresh].home = b
Retired(s) == s # NoSession /\ Rotated(s.refresh)

TabHome(t) ==
  AtHome(tab[t].mem, Of[t]) /\ AtHome(tab[t].sent, Of[t]) /\ AtHome(tab[t].answer, Of[t])
Paced(t) == ~Idle(t) => tab[t].since <= now /\ now <= tab[t].since + Delay
Recent(t) ==
  /\ Retired(tab[t].mem) => now <= token[tab[t].mem.refresh].rotated + Delay
  /\ ~Idle(t) /\ Retired(tab[t].sent) =>
       tab[t].since <= token[tab[t].sent.refresh].rotated + Delay
Awaited(b) ==
  Retired(stored[b]) =>
    \E u \in Tabs : /\ Of[u] = b /\ tab[u].pc = "answered"
                    /\ tab[u].sent.refresh = stored[b].refresh
                    /\ tab[u].since <= token[stored[b].refresh].rotated

HomeInv ==
  /\ \A x \in Tokens : token[x].next \in Tokens => token[token[x].next].home = token[x].home
  /\ \A b \in Browsers : AtHome(stored[b], b)
  /\ \A t \in Tabs : TabHome(t)
PaceInv == \A t \in Tabs : Paced(t)
WindowInv ==
  Excused \/ (~alarm /\ (\A t \in Tabs : Recent(t)) /\ \A b \in Browsers : Awaited(b))

AInv == HomeInv /\ PaceInv /\ WindowInv

LEMMA HeldTokens ==
  ASSUME IInv
  PROVE  /\ \A b \in Browsers : stored[b] # NoSession =>
              stored[b].refresh \in Tokens /\ token[stored[b].refresh].iat > 0
         /\ \A t \in Tabs : \A s \in {tab[t].mem, tab[t].sent, tab[t].answer} :
              s # NoSession => s.refresh \in Tokens /\ token[s.refresh].iat > 0
<1>1. \A s \in Session : Known(s) /\ s # NoSession =>
        s.refresh \in Tokens /\ token[s.refresh].iat > 0
  BY SessionFields DEF Known
<1>2. \A b \in Browsers : stored[b] \in Session /\ Known(stored[b])
  BY DEF IInv, TypeOK, HeldInv
<1>3. \A t \in Tabs : \A s \in {tab[t].mem, tab[t].sent, tab[t].answer} :
        s \in Session /\ Known(s)
  BY TabFields DEF IInv, HeldInv, TabOK
<1> QED
  BY <1>1, <1>2, <1>3

LEMMA Moments ==
  ASSUME IInv
  PROVE  /\ now \in Nat /\ Delay \in Nat /\ Grace \in Nat /\ Grace > 2 * Delay
         /\ \A x \in Tokens : token[x].rotated \in Nat
         /\ \A t \in Tabs : tab[t].since \in Nat
BY TimesAssumption, TokenFields, TabFields, Numbers DEF IInv, Time

(* What one request may do to the tokens that exist: retire one of its own  *)
(* browser, in favour of another one.                                       *)
TokensMove(t) ==
  \A x \in Tokens :
    IF token[x].iat > 0
    THEN /\ token'[x].home = token[x].home
         /\ \/ token'[x].rotated = token[x].rotated
            \/ token'[x].rotated = now /\ token[x].home = Of[t]
         /\ \/ token'[x].next = token[x].next
            \/ token'[x].next \in Tokens /\ token'[token'[x].next].home = token[x].home
    ELSE token'[x].next \notin Tokens

LEMMA Unmoved ==
  ASSUME IInv, NEW x \in Tokens
  PROVE  token[x].iat \in Nat /\ None \notin Tokens /\ (token[x].iat = 0 => token[x].next = None)
BY NoneAssumption, TokenFields, Numbers DEF IInv, TokenInv, TokenOK, Time

LEMMA MintMoves ==
  ASSUME IInv, NEW t \in Tabs, NEW y \in Tokens, token[y].iat = 0,
         token'[y].home = Of[t], token'[y].next = None,
         \A z \in Tokens : z # y =>
           \/ token'[z] = token[z]
           \/ /\ token[z].iat > 0 /\ token[z].home = Of[t]
              /\ token'[z].home = token[z].home
              /\ token'[z].rotated = now /\ token'[z].next = y
  PROVE  TokensMove(t)
<1> SUFFICES ASSUME NEW x \in Tokens
             PROVE  IF token[x].iat > 0
                    THEN /\ token'[x].home = token[x].home
                         /\ \/ token'[x].rotated = token[x].rotated
                            \/ token'[x].rotated = now /\ token[x].home = Of[t]
                         /\ \/ token'[x].next = token[x].next
                            \/ /\ token'[x].next \in Tokens
                               /\ token'[token'[x].next].home = token[x].home
                    ELSE token'[x].next \notin Tokens
  BY DEF TokensMove
<1>1. CASE x = y
  BY <1>1, Unmoved
<1>2. CASE x # y /\ token'[x] = token[x]
  BY <1>2, Unmoved
<1>3. CASE x # y /\ token'[x] # token[x]
  BY <1>3
<1> QED
  BY <1>1, <1>2, <1>3

LEMMA TokensStay == ASSUME IInv, NEW t \in Tabs, token' = token PROVE TokensMove(t)
BY NoneAssumption, TokenFields, Numbers DEF TokensMove, IInv, TokenInv, TokenOK, Time

Kept(u) ==
  /\ tab'[u].mem = tab[u].mem /\ tab'[u].sent = tab[u].sent
  /\ tab'[u].since = tab[u].since
  /\ tab'[u].pc # "idle" => tab[u].pc # "idle"
Same(u) == Kept(u) /\ tab'[u].answer = tab[u].answer /\ tab'[u].pc = tab[u].pc

LEMMA RecentStays ==
  ASSUME IInv, PaceInv, now' = now, NEW t \in Tabs, TokensMove(t),
         NEW u \in Tabs, Kept(u), Recent(u)
  PROVE  Recent(u)'
<1>1. \A x \in Tokens : token[x].iat > 0 => \/ token'[x].rotated = token[x].rotated
                                            \/ token'[x].rotated = now
  BY DEF TokensMove
<1>2. Retired(tab[u].mem)' => now <= token'[tab[u].mem.refresh].rotated + Delay
  <2> SUFFICES ASSUME tab[u].mem # NoSession, token'[tab[u].mem.refresh].rotated > 0
               PROVE  now <= token'[tab[u].mem.refresh].rotated + Delay
    BY DEF Kept, Retired, Rotated, NoSession
  <2> DEFINE x == tab[u].mem.refresh
  <2>1. x \in Tokens /\ token[x].iat > 0
    BY HeldTokens
  <2>2. CASE token'[x].rotated = token[x].rotated
    BY <2>2 DEF Recent, Retired, Rotated
  <2>3. CASE token'[x].rotated = now
    BY <2>3, Moments
  <2> QED
    BY <1>1, <2>1, <2>2, <2>3
<1>3. tab'[u].pc # "idle" /\ Retired(tab[u].sent)' =>
        tab[u].since <= token'[tab[u].sent.refresh].rotated + Delay
  <2> SUFFICES ASSUME tab[u].pc # "idle", tab[u].sent # NoSession,
                      token'[tab[u].sent.refresh].rotated > 0
               PROVE  tab[u].since <= token'[tab[u].sent.refresh].rotated + Delay
    BY DEF Kept, Retired, Rotated, NoSession
  <2> DEFINE x == tab[u].sent.refresh
  <2>1. x \in Tokens /\ token[x].iat > 0
    BY HeldTokens
  <2>2. CASE token'[x].rotated = token[x].rotated
    BY <2>2 DEF Recent, Retired, Rotated, Idle
  <2>3. CASE token'[x].rotated = now
    BY <2>3, Moments DEF PaceInv, Paced, Idle
  <2> QED
    BY <1>1, <2>1, <2>2, <2>3
<1> QED
  BY <1>2, <1>3 DEF Recent, Idle, Kept, Retired, NoSession

LEMMA AwaitedStays ==
  ASSUME IInv, NEW b \in Browsers, Awaited(b), stored'[b] = stored[b],
         \A x \in Tokens : token[x].iat > 0 /\ token[x].home = b =>
           token'[x].rotated = token[x].rotated,
         AtHome(stored[b], b),
         \A u \in Tabs : Of[u] = b /\ tab[u].pc = "answered" =>
           /\ tab'[u].pc = "answered"
           /\ tab'[u].sent = tab[u].sent /\ tab'[u].since = tab[u].since
  PROVE  Awaited(b)'
<1> SUFFICES ASSUME stored[b] # NoSession, token'[stored[b].refresh].rotated > 0
             PROVE  \E u \in Tabs : /\ Of[u] = b /\ tab'[u].pc = "answered"
                                    /\ tab'[u].sent.refresh = stored[b].refresh
                                    /\ tab'[u].since <= token'[stored[b].refresh].rotated
  BY DEF Awaited, Retired, Rotated, NoSession
<1> DEFINE x == stored[b].refresh
<1>1. x \in Tokens /\ token[x].iat > 0 /\ token[x].home = b
  BY HeldTokens DEF AtHome
<1>2. token'[x].rotated = token[x].rotated
  BY <1>1
<1>3. Retired(stored[b])
  BY <1>2 DEF Retired, Rotated
<1> QED
  BY <1>2, <1>3 DEF Awaited

LEMMA OneTab ==
  ASSUME IInv, AInv, now' = now, NEW t \in Tabs, TokensMove(t),
         Excused => Excused', alarm' => alarm \/ Excused',
         \A u \in Tabs \ {t} : Same(u),
         \A b \in Browsers \ {Of[t]} : stored'[b] = stored[b],
         AtHome(stored[Of[t]], Of[t])', TabHome(t)', Paced(t)',
         Excused' \/ (Recent(t)' /\ Awaited(Of[t])')
  PROVE  AInv'
<1>1. \A x \in Tokens : token[x].iat > 0 => token'[x].home = token[x].home
  BY DEF TokensMove
<1>2. ASSUME NEW x \in Tokens, token'[x].next \in Tokens
      PROVE  token'[token'[x].next].home = token'[x].home
  <2>1. token[x].iat > 0
    BY <1>2 DEF TokensMove
  <2>2. CASE token'[x].next = token[x].next
    <3>1. token[token[x].next].iat > 0 /\ token[token[x].next].home = token[x].home
      BY <1>2, <2>2 DEF IInv, TokenInv, TokenOK, AInv, HomeInv
    <3> QED
      BY <1>1, <1>2, <2>1, <2>2, <3>1
  <2>3. CASE token'[x].next # token[x].next
    BY <2>1, <2>3 DEF TokensMove
  <2> QED
    BY <2>2, <2>3
<1>3. \A b \in Browsers : AtHome(stored[b], b)'
  <2>1. ASSUME NEW b \in Browsers, b # Of[t] PROVE AtHome(stored[b], b)'
    BY <1>1, <2>1, HeldTokens DEF AtHome, AInv, HomeInv, NoSession
  <2> QED
    BY <2>1
<1>4. ASSUME NEW u \in Tabs, u # t PROVE TabHome(u)' /\ Paced(u)'
  <2>1. Same(u) /\ TabHome(u) /\ Paced(u)
    BY <1>4 DEF AInv, HomeInv, PaceInv
  <2>2. \A s \in {tab[u].mem, tab[u].sent, tab[u].answer} :
          s # NoSession => token'[s.refresh].home = token[s.refresh].home
    BY <1>1, HeldTokens
  <2>3. TabHome(u)'
    BY <2>1, <2>2 DEF TabHome, AtHome, Same, Kept, NoSession
  <2>4. Paced(u)'
    BY <2>1 DEF Paced, Idle, Same, Kept
  <2> QED
    BY <2>3, <2>4
<1>5. HomeInv' /\ PaceInv'
  BY <1>2, <1>3, <1>4 DEF HomeInv, PaceInv
<1>6. ASSUME ~Excused' PROVE ~alarm' /\ (\A u \in Tabs : Recent(u)') /\ \A b \in Browsers : Awaited(b)'
  <2>1. ~alarm /\ (\A u \in Tabs : Recent(u)) /\ \A b \in Browsers : Awaited(b)
    BY <1>6 DEF AInv, WindowInv
  <2>2. ASSUME NEW u \in Tabs, u # t PROVE Recent(u)'
    BY <2>1, <2>2, RecentStays DEF Same, AInv
  <2>3. ASSUME NEW b \in Browsers, b # Of[t] PROVE Awaited(b)'
    <3>1. \A x \in Tokens : token[x].iat > 0 /\ token[x].home = b =>
            token'[x].rotated = token[x].rotated
      BY <2>3 DEF TokensMove
    <3>2. \A u \in Tabs : Of[u] = b /\ tab[u].pc = "answered" =>
            /\ tab'[u].pc = "answered"
            /\ tab'[u].sent = tab[u].sent /\ tab'[u].since = tab[u].since
      BY <2>3 DEF Same, Kept
    <3> QED
      BY <2>1, <2>3, <3>1, <3>2, AwaitedStays DEF AInv, HomeInv
  <2> QED
    BY <1>6, <2>1, <2>2, <2>3
<1> QED
  BY <1>5, <1>6 DEF AInv, WindowInv

(* The request of t goes on, as far as an answer perhaps.                   *)
LEMMA GoesOn ==
  ASSUME IInv, AInv, UNCHANGED <<now, stored, Excused>>, NEW t \in Tabs, TokensMove(t),
         alarm' => alarm \/ Excused, \A u \in Tabs \ {t} : Same(u),
         Kept(t), tab[t].pc # "idle", AtHome(tab[t].answer, Of[t])',
         Excused \/ Awaited(Of[t])'
  PROVE  AInv'
<1>1. \A s \in {stored[Of[t]], tab[t].mem, tab[t].sent} :
        s # NoSession => token'[s.refresh].home = token[s.refresh].home
  BY HeldTokens, TabsAssumption DEF TokensMove
<1>2. AtHome(stored[Of[t]], Of[t])' /\ AtHome(tab[t].mem, Of[t])' /\ AtHome(tab[t].sent, Of[t])'
  BY <1>1, TabsAssumption DEF AtHome, AInv, HomeInv, TabHome, Kept, NoSession
<1>3. Paced(t)'
  BY DEF AInv, PaceInv, Paced, Idle, Kept
<1>4. Excused \/ Recent(t)'
  BY RecentStays DEF AInv, WindowInv
<1> QED
  BY <1>2, <1>3, <1>4, OneTab DEF TabHome

LEMMA Adopts ==
  ASSUME IInv, AInv, UNCHANGED <<now, token>>, NEW t \in Tabs,
         NEW s \in Session, SetTokens(t, s), AtHome(s, Of[t]),
         Excused => Excused', alarm' = alarm, Excused' \/ ~Retired(s)
  PROVE  AInv'
<1>1. /\ stored'[Of[t]] = s
      /\ \A b \in Browsers \ {Of[t]} : stored'[b] = stored[b]
  BY TabsAssumption DEF SetTokens, IInv, TypeOK
<1>2. \A u \in Tabs \ {t} : Same(u)
  BY DEF SetTokens, Same, Kept, IInv, TypeOK
<1>3. tab'[t].mem = s /\ tab'[t].sent = NoSession /\ tab'[t].answer = NoSession
      /\ tab'[t].pc = "idle"
  BY DEF SetTokens, Quiet, IInv, TypeOK
<1>4. AtHome(stored[Of[t]], Of[t])' /\ TabHome(t)' /\ Paced(t)'
  BY <1>1, <1>3 DEF AtHome, TabHome, Paced, Idle, NoSession
<1>5. Excused' \/ (Recent(t)' /\ Awaited(Of[t])')
  BY <1>1, <1>3 DEF Recent, Awaited, Retired, Rotated, Idle, NoSession
<1> QED
  BY <1>1, <1>2, <1>4, <1>5, TokensStay, OneTab

LEMMA NothingMoves ==
  ASSUME AInv, UNCHANGED <<now, token, stored, alarm, Excused>>, \A u \in Tabs : Same(u)
  PROVE  AInv'
<1>1. HomeInv'
  BY DEF AInv, HomeInv, AtHome, TabHome, Same, Kept, NoSession
<1>2. PaceInv'
  BY DEF AInv, PaceInv, Paced, Idle, Same, Kept
<1>3. \A u \in Tabs : Recent(u) => Recent(u)'
  BY DEF Recent, Retired, Rotated, Idle, Same, Kept, NoSession
<1>4. \A b \in Browsers : Awaited(b) => Awaited(b)'
  BY DEF Awaited, Retired, Rotated, Same, Kept, NoSession
<1> QED
  BY <1>1, <1>2, <1>3, <1>4 DEF AInv, WindowInv

LEMMA LoginOnTime == ASSUME IInv, AInv, NEW t \in Tabs, Login(t) PROVE AInv'
<1>1. PICK y \in Tokens : /\ Fresh(y)
                          /\ token' = Mint(token, t, y, now, now + Life)
                          /\ SetTokens(t, [refresh |-> y, at |-> now])
  BY DEF Login
<1> DEFINE s == [refresh |-> y, at |-> now]
<1>2. token[y].iat = 0
  BY <1>1 DEF Fresh, Unminted
<1>3. /\ token'[y].home = Of[t] /\ token'[y].rotated = 0 /\ token'[y].next = None
      /\ \A x \in Tokens : x # y => token'[x] = token[x]
  BY <1>1 DEF Mint, IInv, TypeOK
<1>4. TokensMove(t)
  BY <1>2, <1>3, MintMoves
<1>5. /\ stored'[Of[t]] = s
      /\ \A b \in Browsers \ {Of[t]} : stored'[b] = stored[b]
      /\ \A u \in Tabs \ {t} : tab'[u] = tab[u]
      /\ tab'[t] = [Quiet EXCEPT !.mem = s]
  BY <1>1, TabsAssumption DEF SetTokens, IInv, TypeOK
<1>6. /\ tab'[t].mem = s /\ tab'[t].sent = NoSession /\ tab'[t].answer = NoSession
      /\ tab'[t].pc = "idle"
  BY <1>5 DEF Quiet
<1>7. s.refresh = y
  OBVIOUS
<1> HIDE DEF s
<1>8. AtHome(stored[Of[t]], Of[t])' /\ TabHome(t)' /\ Paced(t)'
  BY <1>3, <1>5, <1>6, <1>7 DEF AtHome, TabHome, Paced, Idle, NoSession
<1>9. Recent(t)' /\ Awaited(Of[t])'
  BY <1>3, <1>5, <1>6, <1>7 DEF Recent, Awaited, Retired, Rotated, Idle, NoSession
<1>10. UNCHANGED <<now, alarm, Excused>>
  BY DEF Login, history, reuse, Excused
<1>11. \A u \in Tabs \ {t} : Same(u)
  BY <1>5 DEF Same, Kept
<1> QED
  BY <1>4, <1>5, <1>8, <1>9, <1>10, <1>11, OneTab

LEMMA SendOnTime ==
  ASSUME IInv, AInv, NEW t \in Tabs, NEW pc \in {"refreshing", "switching"}, Send(t, pc)
  PROVE  AInv'
<1>1. UNCHANGED <<now, token, stored, alarm, Excused>> /\ tab[t].pc = "idle"
  BY DEF Send, api, history, reuse, Excused, Idle
<1>2. /\ tab'[t].mem = tab[t].mem /\ tab'[t].sent = tab[t].mem
      /\ tab'[t].answer = tab[t].answer /\ tab'[t].since = now /\ tab'[t].pc = pc
      /\ \A u \in Tabs \ {t} : tab'[u] = tab[u]
  BY DEF Send, IInv, TypeOK, TabType
<1>3. \A u \in Tabs \ {t} : Same(u)
  BY <1>2 DEF Same, Kept
<1>4. AtHome(stored[Of[t]], Of[t])' /\ TabHome(t)'
  BY <1>1, <1>2, TabsAssumption DEF AInv, HomeInv, AtHome, TabHome, NoSession
<1>5. Paced(t)'
  BY <1>1, <1>2, Moments DEF Paced
<1>6. Recent(t) => Recent(t)'
  BY <1>1, <1>2 DEF Recent, Retired, Rotated, NoSession
<1>7. Awaited(Of[t]) => Awaited(Of[t])'
  BY <1>1, <1>2, TabsAssumption, AwaitedStays DEF AInv, HomeInv
<1>8. Excused' \/ (Recent(t)' /\ Awaited(Of[t])')
  BY <1>1, <1>6, <1>7, TabsAssumption DEF AInv, WindowInv
<1> QED
  BY <1>1, <1>3, <1>4, <1>5, <1>8, TokensStay, OneTab

(* The request of t passes a check or is answered, and mints nothing.       *)
LEMMA ChecksOnTime ==
  ASSUME IInv, AInv, UNCHANGED <<now, token, stored, Excused>>, NEW t \in Tabs,
         alarm' => alarm \/ Excused, \A u \in Tabs \ {t} : Same(u), Kept(t),
         tab[t].pc \notin {"idle", "answered"}, AtHome(tab'[t].answer, Of[t])
  PROVE  AInv'
<1>1. TokensMove(t)
  BY TokensStay
<1>2. Awaited(Of[t]) => Awaited(Of[t])'
  BY TabsAssumption, AwaitedStays DEF AInv, HomeInv, Same, Kept
<1>3. Excused \/ Awaited(Of[t])'
  BY <1>2, TabsAssumption DEF AInv, WindowInv
<1>4. AtHome(tab[t].answer, Of[t])'
  BY DEF AtHome, NoSession
<1> QED
  BY <1>1, <1>3, <1>4, GoesOn

LEMMA PassesOnTime ==
  ASSUME IInv, AInv, NEW t \in Tabs, RefreshPasses(t) \/ SwitchPasses(t)
  PROVE  AInv'
<1>1. /\ UNCHANGED <<now, token, stored, alarm, Excused>>
      /\ tab[t].pc \in {"refreshing", "switching"}
      /\ \E pc : tab' = [tab EXCEPT ![t].pc = pc]
  BY DEF RefreshPasses, SwitchPasses, Goto, api, history, reuse, Excused
<1>2. \A u \in Tabs \ {t} : Same(u)
  BY <1>1 DEF Same, Kept, IInv, TypeOK
<1>3. Kept(t) /\ tab'[t].answer = tab[t].answer
  BY <1>1 DEF Kept, IInv, TypeOK, TabType
<1>4. AtHome(tab'[t].answer, Of[t])
  BY <1>3 DEF AInv, HomeInv, TabHome
<1> QED
  BY <1>1, <1>2, <1>3, <1>4, ChecksOnTime

LEMMA InGraceOnTime ==
  ASSUME IInv, AInv, NEW t \in Tabs, RefreshInGrace(t)
  PROVE  AInv'
<1> DEFINE x == tab[t].sent.refresh
           s == [refresh |-> token[x].next, at |-> now]
<1>1. /\ UNCHANGED <<now, token, stored, alarm, Excused>> /\ tab[t].pc = "refreshing"
      /\ tab' = [tab EXCEPT ![t].pc = "reissuing", ![t].answer = s]
      /\ Rotated(x)
  BY DEF RefreshInGrace, Answer, InGrace, api, history, reuse, Excused
<1>2. x \in Tokens /\ token[x].home = Of[t]
  BY <1>1, HeldTokens DEF IInv, HeldInv, TabOK, Let, AInv, HomeInv, TabHome, AtHome
<1>3. token[token[x].next].home = Of[t]
  BY <1>1, <1>2 DEF Rotated, IInv, TokenInv, TokenOK, AInv, HomeInv
<1>4. AtHome(s, Of[t])
  BY <1>3 DEF AtHome
<1> HIDE DEF s
<1>5. \A u \in Tabs \ {t} : Same(u)
  BY <1>1 DEF Same, Kept, IInv, TypeOK
<1>6. Kept(t) /\ tab'[t].answer = s
  BY <1>1 DEF Kept, IInv, TypeOK, TabType
<1> QED
  BY <1>1, <1>4, <1>5, <1>6, ChecksOnTime

LEMMA ReissueOnTime ==
  ASSUME IInv, AInv, NEW t \in Tabs, Reissue(t)
  PROVE  AInv'
<1> DEFINE s == [refresh |-> tab[t].answer.refresh, at |-> now]
<1>1. /\ UNCHANGED <<now, token, stored, alarm, Excused>> /\ tab[t].pc = "reissuing"
      /\ tab' = [tab EXCEPT ![t].pc = "answered", ![t].answer = s]
  BY DEF Reissue, Answer, api, reuse, Excused
<1>2. AtHome(tab[t].answer, Of[t]) /\ tab[t].answer # NoSession
  BY <1>1 DEF IInv, HeldInv, TabOK, Let, AInv, HomeInv, TabHome
<1>3. AtHome(s, Of[t])
  BY <1>2 DEF AtHome
<1> HIDE DEF s
<1>4. \A u \in Tabs \ {t} : Same(u)
  BY <1>1 DEF Same, Kept, IInv, TypeOK
<1>5. Kept(t) /\ tab'[t].answer = s
  BY <1>1 DEF Kept, IInv, TypeOK, TabType
<1> QED
  BY <1>1, <1>3, <1>4, <1>5, ChecksOnTime

(* Without an excuse, the token a tab presents is in the window.           *)
LEMMA ReusedOnTime ==
  ASSUME IInv, AInv, NEW t \in Tabs, RefreshReused(t)
  PROVE  AInv'
<1> DEFINE x == tab[t].sent.refresh
<1>1. /\ UNCHANGED <<now, token, stored, Excused>> /\ tab[t].pc = "refreshing"
      /\ tab' = [tab EXCEPT ![t].pc = "refused"] /\ Rotated(x) /\ ~InGrace(x)
  BY DEF RefreshReused, Goto, Excused
<1>2. Excused
  <2>1. x \in Tokens /\ tab[t].sent # NoSession
    BY <1>1, HeldTokens DEF IInv, HeldInv, TabOK, Let
  <2>2. token[x].rotated + Grace <= now
    BY <1>1, <2>1, Moments DEF InGrace
  <2>3. now <= tab[t].since + Delay
    BY <1>1 DEF AInv, PaceInv, Paced, Idle
  <2>4. Recent(t) => tab[t].since <= token[x].rotated + Delay
    BY <1>1, <2>1 DEF Recent, Retired, Idle
  <2>5. ~Recent(t)
    BY <2>1, <2>2, <2>3, <2>4, Moments
  <2> QED
    BY <2>5 DEF AInv, WindowInv
<1>3. \A u \in Tabs \ {t} : Same(u)
  BY <1>1 DEF Same, Kept, IInv, TypeOK
<1>4. Kept(t) /\ tab'[t].answer = tab[t].answer
  BY <1>1 DEF Kept, IInv, TypeOK, TabType
<1>5. AtHome(tab'[t].answer, Of[t])
  BY <1>4 DEF AInv, HomeInv, TabHome
<1> QED
  BY <1>1, <1>2, <1>3, <1>4, <1>5, ChecksOnTime

(* The tab that retires a token is the one its browser awaits.              *)
LEMMA RotateOnTime == ASSUME IInv, AInv, NEW t \in Tabs, Rotate(t) PROVE AInv'
<1> DEFINE x == tab[t].sent.refresh
<1>1. tab[t].pc = "rotating" /\ UNCHANGED <<now, stored, alarm, Excused>>
  BY DEF Rotate, reuse, Excused
<1>2. x \in Tokens /\ token[x].iat > 0 /\ token[x].home = Of[t]
  BY <1>1, HeldTokens DEF IInv, HeldInv, TabOK, Let, AInv, HomeInv, TabHome, AtHome
<1>3. PICK y \in Tokens :
        /\ Fresh(y)
        /\ token' = Mint([token EXCEPT ![x].rotated = now, ![x].next = y],
                         t, y, token[x].login, Expiry(x))
        /\ Answer(t, "answered", [refresh |-> y, at |-> now])
  BY DEF Rotate
<1>4. token[y].iat = 0
  BY <1>3 DEF Fresh, Unminted
<1>5. /\ token'[y].home = Of[t] /\ token'[y].next = None
      /\ token'[x].home = token[x].home /\ token'[x].rotated = now /\ token'[x].next = y
      /\ \A z \in Tokens : z # y /\ z # x => token'[z] = token[z]
  <2>1. token \in [Tokens -> TokenType] /\ x # y
    BY <1>2, <1>4 DEF IInv, TypeOK
  <2> HIDE DEF x
  <2> QED
    BY <1>2, <1>3, <2>1 DEF Mint, TokenType
<1>6. TokensMove(t)
  <2> HIDE DEF x
  <2> QED
    BY <1>2, <1>4, <1>5, MintMoves
<1> DEFINE s == [refresh |-> y, at |-> now]
<1>7. /\ tab'[t].mem = tab[t].mem /\ tab'[t].sent = tab[t].sent
      /\ tab'[t].since = tab[t].since /\ tab'[t].answer = s /\ tab'[t].pc = "answered"
      /\ \A u \in Tabs \ {t} : tab'[u] = tab[u]
  BY <1>3 DEF Answer, IInv, TypeOK, TabType
<1>8. Kept(t) /\ \A u \in Tabs \ {t} : Same(u)
  BY <1>1, <1>7 DEF Same, Kept
<1>9. AtHome(tab[t].answer, Of[t])'
  <2>1. s.refresh = y
    OBVIOUS
  <2> HIDE DEF s
  <2> QED
    BY <1>5, <1>7, <2>1 DEF AtHome, NoSession
<1>10. Excused \/ Awaited(Of[t])'
  <2> DEFINE b == Of[t]
  <2>1. b \in Browsers /\ stored'[b] = stored[b]
    BY <1>1, TabsAssumption
  <2>2. CASE stored[b] # NoSession /\ stored[b].refresh = x
    <3>1. tab'[t].since <= token'[x].rotated
      BY <1>1, <1>5, <1>7 DEF AInv, PaceInv, Paced, Idle
    <3> QED
      BY <1>7, <2>1, <2>2, <3>1 DEF Awaited, NoSession
  <2>3. CASE stored[b] # NoSession /\ stored[b].refresh # x
    <3>1. stored[b].refresh \in Tokens /\ token[stored[b].refresh].iat > 0
      BY <2>1, <2>3, HeldTokens
    <3>2. token'[stored[b].refresh] = token[stored[b].refresh]
      BY <1>4, <1>5, <2>3, <3>1
    <3>3. \A u \in Tabs : tab[u].pc = "answered" => tab'[u] = tab[u]
      BY <1>1, <1>7
    <3>4. Awaited(b) => Awaited(b)'
      BY <2>1, <3>2, <3>3 DEF Awaited, Retired, Rotated, NoSession
    <3> QED
      BY <2>1, <3>4 DEF AInv, WindowInv
  <2>4. CASE stored[b] = NoSession
    BY <2>1, <2>4 DEF Awaited, Retired, NoSession
  <2> QED
    BY <2>2, <2>3, <2>4
<1> QED
  BY <1>1, <1>6, <1>8, <1>9, <1>10, GoesOn

LEMMA MovesOnTime == ASSUME IInv, AInv, NEW t \in Tabs, SwitchMints(t) PROVE AInv'
<1>1. tab[t].pc = "moving" /\ UNCHANGED <<now, stored, alarm, Excused>>
  BY DEF SwitchMints, reuse, Excused
<1>2. PICK y \in Tokens :
        /\ Fresh(y)
        /\ \E login, exp : token' = Mint(token, t, y, login, exp)
        /\ Answer(t, "moved", [refresh |-> y, at |-> now])
  BY DEF SwitchMints
<1>3. token[y].iat = 0
  BY <1>2 DEF Fresh, Unminted
<1>4. /\ token'[y].home = Of[t] /\ token'[y].next = None
      /\ \A z \in Tokens : z # y => token'[z] = token[z]
  BY <1>2 DEF Mint, IInv, TypeOK
<1>5. TokensMove(t)
  BY <1>3, <1>4, MintMoves
<1> DEFINE s == [refresh |-> y, at |-> now]
<1>6. /\ Kept(t) /\ tab'[t].answer = s
      /\ \A u \in Tabs \ {t} : tab'[u] = tab[u]
  BY <1>1, <1>2 DEF Answer, Kept, IInv, TypeOK, TabType
<1>7. \A u \in Tabs \ {t} : Same(u)
  BY <1>6 DEF Same, Kept
<1>8. AtHome(tab[t].answer, Of[t])'
  <2>1. s.refresh = y
    OBVIOUS
  <2> HIDE DEF s
  <2> QED
    BY <1>4, <1>6, <2>1 DEF AtHome, NoSession
<1>9. Awaited(Of[t]) => Awaited(Of[t])'
  <2>1. \A u \in Tabs : tab[u].pc = "answered" => tab'[u] = tab[u]
    BY <1>1, <1>6
  <2>2. \A z \in Tokens : token[z].iat > 0 => token'[z].rotated = token[z].rotated
    BY <1>3, <1>4
  <2> QED
    BY <1>1, <2>1, <2>2, TabsAssumption, AwaitedStays DEF AInv, HomeInv
<1>10. Excused \/ Awaited(Of[t])'
  BY <1>9, TabsAssumption DEF AInv, WindowInv
<1> QED
  BY <1>1, <1>5, <1>6, <1>7, <1>8, <1>10, GoesOn

(* What a browser keeps is retired for no longer than a request takes.      *)
LEMMA StoredRecently ==
  ASSUME IInv, AInv, ~Excused, NEW b \in Browsers, Retired(stored[b])
  PROVE  \E u \in Tabs : /\ ~Idle(u) /\ tab[u].since \in Nat
                         /\ tab[u].since <= token[stored[b].refresh].rotated
                         /\ now <= tab[u].since + Delay
<1>1. PICK u \in Tabs : /\ tab[u].pc = "answered"
                        /\ tab[u].since <= token[stored[b].refresh].rotated
  BY DEF AInv, WindowInv, Awaited
<1> QED
  BY <1>1, Moments DEF AInv, PaceInv, Paced, Idle

LEMMA StoredStillRecent ==
  ASSUME IInv, AInv, ~Excused, NEW b \in Browsers, Retired(stored[b])
  PROVE  now <= token[stored[b].refresh].rotated + Delay
<1>1. stored[b].refresh \in Tokens
  BY HeldTokens DEF Retired
<1> QED
  BY <1>1, StoredRecently, Moments

LEMMA SyncOnTime == ASSUME IInv, AInv, NEW t \in Tabs, Sync(t) PROVE AInv'
<1> DEFINE s == stored[Of[t]]
<1>1. UNCHANGED <<now, token, stored, alarm, Excused>>
  BY DEF Sync, api, history, reuse, Excused
<1>2. /\ tab'[t].mem = s /\ tab'[t].sent = tab[t].sent /\ tab'[t].answer = tab[t].answer
      /\ tab'[t].since = tab[t].since /\ tab'[t].pc = tab[t].pc
      /\ \A u \in Tabs \ {t} : tab'[u] = tab[u]
  BY DEF Sync, IInv, TypeOK, TabType
<1>3. \A u \in Tabs \ {t} : Same(u)
  BY <1>2 DEF Same, Kept
<1>4. AtHome(stored[Of[t]], Of[t])' /\ TabHome(t)'
  BY <1>1, <1>2, TabsAssumption DEF AInv, HomeInv, AtHome, TabHome, NoSession
<1>5. Paced(t)'
  BY <1>1, <1>2 DEF AInv, PaceInv, Paced, Idle
<1>6. ~Excused => Recent(t)'
  <2>1. ~Excused /\ Retired(s) => now <= token[s.refresh].rotated + Delay
    BY TabsAssumption, StoredStillRecent
  <2>2. ~Excused => Recent(t)
    BY DEF AInv, WindowInv
  <2> QED
    BY <1>1, <1>2, <2>1, <2>2 DEF Recent, Retired, Rotated, Idle, NoSession
<1>7. Awaited(Of[t]) => Awaited(Of[t])'
  BY <1>1, <1>2, TabsAssumption, AwaitedStays DEF AInv, HomeInv
<1>8. Excused' \/ (Recent(t)' /\ Awaited(Of[t])')
  BY <1>1, <1>6, <1>7, TabsAssumption DEF AInv, WindowInv
<1> QED
  BY <1>1, <1>3, <1>4, <1>5, <1>8, TokensStay, OneTab

(* A page that is left without an excuse was not the one its browser       *)
(* waits for.                                                               *)
LEMMA PageLeftOnTime == ASSUME IInv, AInv, NEW t \in Tabs, PageLeft(t) PROVE AInv'
<1> DEFINE s == stored[Of[t]]
<1>1. /\ UNCHANGED <<now, token, stored, alarm>> /\ tab[t].pc # "idle"
      /\ Excused' <=> Excused \/ (tab[t].pc = "answered" /\ s.refresh = tab[t].sent.refresh)
  BY DEF PageLeft, RefreshPcs, api, Excused
<1>2. /\ tab'[t].mem = s /\ tab'[t].sent = NoSession /\ tab'[t].answer = NoSession
      /\ tab'[t].pc = "idle" /\ \A u \in Tabs \ {t} : tab'[u] = tab[u]
  BY DEF PageLeft, Quiet, IInv, TypeOK
<1>3. \A u \in Tabs \ {t} : Same(u)
  BY <1>2 DEF Same, Kept
<1>4. AtHome(stored[Of[t]], Of[t])' /\ TabHome(t)' /\ Paced(t)'
  BY <1>1, <1>2, TabsAssumption DEF AInv, HomeInv, AtHome, TabHome, Paced, Idle, NoSession
<1>5. ~Excused => Recent(t)'
  <2>1. ~Excused /\ Retired(s) => now <= token[s.refresh].rotated + Delay
    BY TabsAssumption, StoredStillRecent
  <2> QED
    BY <1>1, <1>2, <2>1 DEF Recent, Retired, Rotated, Idle, NoSession
<1>6. ~Excused' => Awaited(Of[t])'
  <2> SUFFICES ASSUME ~Excused', Retired(s)
               PROVE  \E u \in Tabs : /\ Of[u] = Of[t] /\ tab'[u].pc = "answered"
                                      /\ tab'[u].sent.refresh = s.refresh
                                      /\ tab'[u].since <= token[s.refresh].rotated
    BY <1>1 DEF Awaited, Retired, Rotated, NoSession
  <2>1. PICK u \in Tabs : /\ Of[u] = Of[t] /\ tab[u].pc = "answered"
                          /\ tab[u].sent.refresh = s.refresh
                          /\ tab[u].since <= token[s.refresh].rotated
    BY <1>1, TabsAssumption DEF AInv, WindowInv, Awaited
  <2>2. u # t
    BY <1>1, <2>1
  <2> QED
    BY <1>2, <2>1, <2>2
<1>7. Excused' \/ (Recent(t)' /\ Awaited(Of[t])')
  BY <1>1, <1>5, <1>6
<1> QED
  BY <1>1, <1>3, <1>4, <1>7, TokensStay, OneTab

LEMMA LogoutOnTime == ASSUME IInv, AInv, NEW t \in Tabs, Logout(t) PROVE AInv'
<1>1. UNCHANGED <<now, token, alarm, Excused>>
  BY DEF Logout, api, history, reuse, Excused
<1>2. /\ tab'[t].mem = NoSession /\ tab'[t].sent = tab[t].sent
      /\ tab'[t].answer = tab[t].answer
      /\ tab'[t].since = tab[t].since /\ tab'[t].pc = tab[t].pc
      /\ \A u \in Tabs \ {t} : tab'[u] = tab[u]
  BY DEF Logout, IInv, TypeOK, TabType
<1>3. stored'[Of[t]] = NoSession /\ \A b \in Browsers \ {Of[t]} : stored'[b] = stored[b]
  BY TabsAssumption DEF Logout, IInv, TypeOK
<1>4. \A u \in Tabs \ {t} : Same(u)
  BY <1>2 DEF Same, Kept
<1>5. AtHome(stored[Of[t]], Of[t])' /\ TabHome(t)'
  BY <1>1, <1>2, <1>3 DEF AInv, HomeInv, AtHome, TabHome, NoSession
<1>6. Paced(t)'
  BY <1>1, <1>2 DEF AInv, PaceInv, Paced, Idle
<1>7. Excused' \/ Recent(t)'
  BY <1>1, <1>2 DEF AInv, WindowInv, Recent, Retired, Rotated, Idle, NoSession
<1>8. Awaited(Of[t])'
  BY <1>3 DEF Awaited, Retired, NoSession
<1> QED
  BY <1>1, <1>3, <1>4, <1>5, <1>6, <1>7, <1>8, TokensStay, OneTab

LEMMA SwitchFailsOnTime == ASSUME IInv, AInv, NEW t \in Tabs, SwitchFails(t) PROVE AInv'
<1>1. UNCHANGED <<now, token, stored, alarm, Excused>> /\ tab[t].pc # "answered"
  BY DEF SwitchFails, api, history, reuse, Excused
<1>2. /\ tab'[t].mem = tab[t].mem /\ tab'[t].sent = NoSession
      /\ tab'[t].answer = NoSession /\ tab'[t].pc = "idle"
      /\ \A u \in Tabs \ {t} : tab'[u] = tab[u]
  BY DEF SwitchFails, IInv, TypeOK, Quiet
<1>3. \A u \in Tabs \ {t} : Same(u)
  BY <1>2 DEF Same, Kept
<1>4. AtHome(stored[Of[t]], Of[t])' /\ TabHome(t)' /\ Paced(t)'
  BY <1>1, <1>2, TabsAssumption DEF AInv, HomeInv, AtHome, TabHome, Paced, Idle, NoSession
<1>5. Excused' \/ Recent(t)'
  BY <1>1, <1>2 DEF AInv, WindowInv, Recent, Retired, Rotated, Idle, NoSession
<1>6. Awaited(Of[t]) => Awaited(Of[t])'
  BY <1>1, <1>2, TabsAssumption, AwaitedStays DEF AInv, HomeInv
<1>7. Excused' \/ (Recent(t)' /\ Awaited(Of[t])')
  BY <1>1, <1>5, <1>6, TabsAssumption DEF AInv, WindowInv
<1> QED
  BY <1>1, <1>3, <1>4, <1>7, TokensStay, OneTab

LEMMA ReceiveOnTime == ASSUME IInv, AInv, NEW t \in Tabs, Receive(t) PROVE AInv'
<1>1. /\ tab[t].answer \in Session /\ AtHome(tab[t].answer, Of[t])
      /\ tab[t].answer # NoSession
  BY TabFields DEF IInv, HeldInv, TabOK, Let, Receive, AInv, HomeInv, TabHome
<1>2. /\ UNCHANGED <<now, token, alarm>> /\ SetTokens(t, tab[t].answer)
      /\ Excused => Excused'
      /\ Excused' \/ ~Retired(tab[t].answer)
  BY <1>1 DEF Receive, api, Retired, Excused
<1> QED
  BY <1>1, <1>2, Adopts

LEMMA SessionExpiredOnTime ==
  ASSUME IInv, AInv, NEW t \in Tabs, SessionExpired(t) PROVE AInv'
<1>1. UNCHANGED <<now, token, alarm, Excused>> /\ SetTokens(t, NoSession)
  BY DEF SessionExpired, api, history, reuse, Excused
<1>2. AtHome(NoSession, Of[t]) /\ ~Retired(NoSession)
  BY DEF AtHome, Retired
<1> QED
  BY <1>1, <1>2, NoSessionKnown, Adopts

(* Time passes only when no request is overdue and all tabs are in step     *)
(* with their browser.                                                      *)
LEMMA TickOnTime == ASSUME IInv, AInv, Tick PROVE AInv'
<1>1. /\ now' = now + 1
      /\ UNCHANGED <<token, stored, tab, alarm, Excused>>
      /\ \A t \in Tabs : /\ ~Idle(t) => now < tab[t].since + Delay
                         /\ tab[t].mem = stored[Of[t]]
  BY DEF Tick, api, history, reuse, Excused
<1>2. HomeInv'
  BY <1>1 DEF AInv, HomeInv, AtHome, TabHome, NoSession
<1>3. PaceInv'
  BY <1>1, Moments DEF AInv, PaceInv, Paced, Idle
<1>4. ASSUME ~Excused, NEW t \in Tabs PROVE Recent(t)'
  <2> DEFINE s == tab[t].mem
  <2>1. Retired(s) => now + 1 <= token[s.refresh].rotated + Delay
    <3> SUFFICES ASSUME Retired(s) PROVE now + 1 <= token[s.refresh].rotated + Delay
      OBVIOUS
    <3>1. s = stored[Of[t]] /\ s.refresh \in Tokens
      BY <1>1, HeldTokens DEF Retired
    <3>2. PICK u \in Tabs : ~Idle(u) /\ tab[u].since <= token[s.refresh].rotated
      BY <1>4, <3>1, TabsAssumption, StoredRecently
    <3>3. now < tab[u].since + Delay
      BY <1>1, <3>2
    <3> QED
      BY <3>1, <3>2, <3>3, Moments
  <2>2. Recent(t)
    BY <1>4 DEF AInv, WindowInv
  <2> QED
    BY <1>1, <2>1, <2>2 DEF Recent, Retired, Rotated, Idle, NoSession
<1>5. \A b \in Browsers : Awaited(b) => Awaited(b)'
  BY <1>1 DEF Awaited, Retired, Rotated, NoSession
<1>6. WindowInv'
  BY <1>1, <1>4, <1>5 DEF AInv, WindowInv
<1> QED
  BY <1>2, <1>3, <1>6 DEF AInv

LEMMA OnTimeInit == Init => AInv
<1> SUFFICES ASSUME Init PROVE AInv
  OBVIOUS
<1>1. HomeInv
  BY NoneAssumption DEF Init, HomeInv, AtHome, TabHome, Quiet, Unminted
<1>2. PaceInv
  BY DEF Init, PaceInv, Paced, Idle, Quiet
<1>3. WindowInv
  BY DEF Init, Excused, WindowInv, Recent, Awaited, Retired, Idle, Quiet
<1> QED
  BY <1>1, <1>2, <1>3 DEF AInv

LEMMA OnTimeNext == ASSUME IInv, AInv, [Next]_vars PROVE AInv'
<1>1. ASSUME NEW t \in Tabs, Refresh(t) PROVE AInv'
  BY <1>1, SendOnTime, PassesOnTime, InGraceOnTime, ReissueOnTime, ReusedOnTime, RotateOnTime
     DEF Refresh
<1>2. ASSUME NEW t \in Tabs, Switch(t) PROVE AInv'
  BY <1>2, SendOnTime, PassesOnTime, MovesOnTime, SwitchFailsOnTime DEF Switch
<1>3. ASSUME NEW t \in Tabs,
             \/ Login(t) \/ Receive(t) \/ SessionExpired(t) \/ PageLeft(t) \/ Sync(t)
             \/ Logout(t)
      PROVE  AInv'
  BY <1>3, LoginOnTime, ReceiveOnTime, SessionExpiredOnTime, PageLeftOnTime, SyncOnTime,
     LogoutOnTime
<1>4. ASSUME \/ \E s \in leaving : LogoutServed(s)
             \/ LogoutAll
             \/ \E s \in revoking : RevocationEnds(s)
             \/ UNCHANGED vars
      PROVE  AInv'
  BY <1>4, NothingMoves
     DEF LogoutServed, LogoutAll, RevocationEnds, vars, api, history, reuse, Excused, Same, Kept
<1>5. ASSUME NEW s \in revoking, EpochCommits(s) PROVE AInv'
  <2>1. UNCHANGED <<now, token, stored, alarm, Excused>>
    BY <1>5 DEF EpochCommits, reuse, Excused
  <2>2. \A u \in Tabs : Same(u)
    BY <1>5 DEF EpochCommits, Same, Kept, IInv, TypeOK, TabType
  <2> QED
    BY <2>1, <2>2, NothingMoves
<1> QED
  BY <1>1, <1>2, <1>3, <1>4, <1>5, TickOnTime DEF Next

(* Tabs that refresh one session side by side are not taken for a thief,   *)
(* however their requests interleave with sign-outs and switches of the     *)
(* organization: the alarm is raised only after some tab adopted a token    *)
(* that was retired by then, or a page was left between the rotation of the *)
(* token its browser keeps and the answer, in any number of browsers and    *)
(* tabs, with any grace window that outlasts two requests.                  *)
THEOREM NoFalseAlarm == Spec => []AlarmHasACause
<1> DEFINE J == IInv /\ AInv
<1>1. Init => J
  BY Initially, OnTimeInit
<1>2. J /\ [Next]_vars => J'
  BY Stepwise, OnTimeNext
<1>3. J => AlarmHasACause
  BY DEF AInv, WindowInv, Excused, AlarmHasACause
<1> QED
  BY <1>1, <1>2, <1>3, PTL DEF Spec

=============================================================================
