-------------------------- MODULE OAuthFlowProofs --------------------------
(***************************************************************************)
(* Proofs about OAuthFlow for every number of broker instances, daemons    *)
(* and sessions, every pair of ttls, every tolerance, clock skew and       *)
(* length of a second.                                                     *)
(*                                                                         *)
(* The inductive invariant IInv adds to TypeOK                             *)
(*   TokensInv  what is known of every sealed token under way: it belongs  *)
(*              to a signed session, and ends no later than FlowTtl from   *)
(*              now and FlowTtl from the last second its URL is open;      *)
(*   JobsInv    a callback past its checks carries a token of its flow;    *)
(*   SeenInv    how long the SeenSet will hold the session of a token that *)
(*              was used;                                                  *)
(*   ReusedInv  what it takes to use one again.                            *)
(***************************************************************************)
EXTENDS OAuthFlow, TLAPS

Sound(t) ==
  t # NoToken =>
    /\ tab[t.session] # "none"
    /\ t.expiresAt <= now + FlowTtl
    /\ t.expiresAt <= Ticks(signedAt[t.session] + Tolerance + 1) + FlowTtl

TokensInv ==
  /\ Sound(cookie)
  /\ \A r \in requests : Sound(r.token)

JobsInv ==
  \A j \in jobs : j.request.token # NoToken /\ j.request.token.session = j.request.state

\* The entry of a used token is younger than the token.
SeenInv ==
  SeenTtl >= FlowTtl =>
    \A i \in Instances : \A t \in used[i] :
      \/ t.session \in evicted[i]
      \/ seen[i][t.session] # -1 /\ t.expiresAt <= seen[i][t.session] + SeenTtl

\* A token is accepted again only when its session was dropped.
ReusedInv ==
  SeenTtl >= FlowTtl =>
    \A i \in Instances : \A t \in reused[i] : t.session \in evicted[i]

IInv == TypeOK /\ TokensInv /\ JobsInv /\ SeenInv /\ ReusedInv

-----------------------------------------------------------------------------
(* Seconds and ticks *)

LEMMA SecondsInt == \A t \in Int : InSeconds(t) \in Int
BY FlowAssumption DEF InSeconds

LEMMA TicksInt == \A n \in Int : Ticks(n) \in Int
BY FlowAssumption DEF Ticks

LEMMA TicksNat == \A n \in Nat : Ticks(n) \in Nat
BY FlowAssumption DEF Ticks

LEMMA TicksAdd == \A m, n \in Int : Ticks(m + n) = Ticks(m) + Ticks(n)
BY FlowAssumption DEF Ticks

\* A time lies in its second.
LEMMA WithinSecond ==
  ASSUME NEW t \in Int
  PROVE  Ticks(InSeconds(t)) <= t /\ t < Ticks(InSeconds(t) + 1)
<1>1. InSeconds(t) * Second <= t
  BY FlowAssumption DEF InSeconds
<1>2. t < (InSeconds(t) + 1) * Second
  BY FlowAssumption DEF InSeconds
<1> QED
  BY <1>1, <1>2 DEF Ticks

LEMMA TicksInOrder ==
  ASSUME NEW m \in Int, NEW n \in Int, m <= n PROVE Ticks(m) <= Ticks(n)
<1>1. Ticks(m + (n - m)) = Ticks(m) + Ticks(n - m)
  BY TicksAdd
<1>2. Ticks(n - m) \in Nat
  BY TicksNat, n - m \in Nat
<1> QED
  BY <1>1, <1>2, TicksInt, m + (n - m) = n

\* When an /auth URL is fresh: from Tolerance seconds before the one it was
\* signed in to the end of the Tolerance-th after it.
LEMMA FreshTimes ==
  ASSUME TypeOK, NEW s \in Sessions, Fresh(s)
  PROVE  /\ Ticks(signedAt[s]) - Ticks(Tolerance) <= now
         /\ now < Ticks(signedAt[s] + Tolerance + 1)
<1> DEFINE q == InSeconds(now)
           a == signedAt[s]
<1>1. now \in Int /\ a \in Int /\ Tolerance \in Nat
  BY FlowAssumption DEF TypeOK
<1>2. q \in Int /\ Ticks(q) <= now /\ now < Ticks(q + 1)
  BY <1>1, SecondsInt, WithinSecond
<1>3. a - Tolerance <= q /\ q + 1 <= a + Tolerance + 1
  <2> q - a \in -Tolerance .. Tolerance
    BY DEF Fresh
  <2> HIDE DEF q, a
  <2> QED
    BY <1>1, <1>2
<1> HIDE DEF q, a
<1>4. Ticks(a - Tolerance) <= Ticks(q) /\ Ticks(q + 1) <= Ticks(a + Tolerance + 1)
  BY <1>1, <1>2, <1>3, TicksInOrder
<1>5. Ticks(a - Tolerance) + Ticks(Tolerance) = Ticks(a)
  BY <1>1, TicksAdd, (a - Tolerance) + Tolerance = a
<1>6. /\ Ticks(a) - Ticks(Tolerance) <= now
      /\ now < Ticks(a + Tolerance + 1)
  BY <1>1, <1>2, <1>4, <1>5, TicksInt
<1> QED
  BY <1>6 DEF a

-----------------------------------------------------------------------------
(* Initially, and type correctness *)

LEMMA InitIInv == Init => IInv
<1> SUFFICES ASSUME Init PROVE IInv
  OBVIOUS
<1>1. TypeOK
  <2>1. seen \in [Instances -> [Sessions -> -1 .. now]]
    BY DEF Init
  <2> QED
    BY <2>1 DEF Init, TypeOK
<1>2. TokensInv /\ JobsInv /\ SeenInv /\ ReusedInv
  BY DEF Init, TokensInv, Sound, JobsInv, SeenInv, ReusedInv
<1> QED
  BY <1>1, <1>2 DEF IInv

\* What add() does: an entry made now, and at most one dropped.
LEMMA RememberEffect ==
  ASSUME TypeOK, NEW i \in Instances, NEW s \in Sessions, s \notin Remembered(i), Remember(i, s)
  PROVE  /\ seen' \in [Instances -> [Sessions -> -1 .. now]]
         /\ evicted' \in [Instances -> SUBSET Sessions]
         /\ seen'[i][s] = now
         /\ \A k \in Instances : evicted[k] \subseteq evicted'[k]
         /\ \A k \in Instances, r \in Sessions :
              r \in evicted'[k] \/ seen'[k][r] = seen[k][r] \/ (k = i /\ r = s)
<1> USE DEF TypeOK
<1>1. CASE seen' = [seen EXCEPT ![i][s] = now] /\ UNCHANGED evicted
  BY <1>1
<1>2. ASSUME NEW old \in Oldest(i),
             seen' = [seen EXCEPT ![i] = [@ EXCEPT ![old] = -1, ![s] = now]],
             evicted' = [evicted EXCEPT ![i] = @ \cup {old}]
      PROVE  /\ seen' \in [Instances -> [Sessions -> -1 .. now]]
             /\ evicted' \in [Instances -> SUBSET Sessions]
             /\ seen'[i][s] = now
             /\ \A k \in Instances : evicted[k] \subseteq evicted'[k]
             /\ \A k \in Instances, r \in Sessions :
                  r \in evicted'[k] \/ seen'[k][r] = seen[k][r] \/ (k = i /\ r = s)
  <2>1. old \in Sessions /\ old # s
    BY <1>2 DEF Oldest, Remembered
  <2>2. seen' \in [Instances -> [Sessions -> -1 .. now]]
    BY <1>2, <2>1
  <2>3. evicted' \in [Instances -> SUBSET Sessions]
    BY <1>2, <2>1
  <2> QED
    BY <1>2, <2>1, <2>2, <2>3
<1> QED
  BY <1>1, <1>2 DEF Remember

LEMMA NextTypeOK == TypeOK /\ [Next]_vars => TypeOK'
<1> SUFFICES ASSUME TypeOK, [Next]_vars PROVE TypeOK'
  OBVIOUS
<1> USE FlowAssumption DEF TypeOK, browserVars, historyVars
<1>1. ASSUME NEW s \in Sessions, BuildAuthURL(s) \/ Consent(s) \/ ConnectMock(s) PROVE TypeOK'
  BY <1>1, SecondsInt, now + Skew \in Int DEF BuildAuthURL, Consent, ConnectMock
<1>2. ASSUME NEW s \in Sessions, Auth(s) PROVE TypeOK'
  <2>1. cookie' \in Tokens
    BY <1>2 DEF Auth, Tokens
  <2> QED
    BY <1>2, <2>1 DEF Auth
<1>3. ASSUME NEW s \in Sessions, SendCallback(s) PROVE TypeOK'
  BY <1>3 DEF SendCallback, CallbackRequests
<1>4. ASSUME NEW r \in requests, RequestGone(r) PROVE TypeOK'
  BY <1>4 DEF RequestGone
<1>5. CASE CookieGone
  BY <1>5 DEF CookieGone
<1>6. ASSUME NEW r \in requests, NEW i \in Instances, RejectCallback(r, i) PROVE TypeOK'
  BY <1>6 DEF RejectCallback
<1>7. ASSUME NEW r \in requests, NEW i \in Instances, AcceptCallback(r, i) PROVE TypeOK'
  <2>1. r \in CallbackRequests /\ r.token \in Tokens /\ r.token.session \in Sessions
    BY <1>7 DEF AcceptCallback, CallbackRequests, Tokens
  <2>2. seen' \in [Instances -> [Sessions -> -1 .. now]] /\ evicted' \in [Instances -> SUBSET Sessions]
    BY <1>7, <2>1, RememberEffect DEF AcceptCallback
  <2>3. used' \in [Instances -> SUBSET Tokens] /\ reused' \in [Instances -> SUBSET Tokens]
    BY <1>7, <2>1 DEF AcceptCallback
  <2>4. jobs' \subseteq [at : Instances, request : CallbackRequests,
                         phase : {"encrypting", "forwarding"}]
    BY <1>7, <2>1 DEF AcceptCallback
  <2> QED
    BY <1>7, <2>2, <2>3, <2>4 DEF AcceptCallback
<1>8. ASSUME NEW j \in jobs, Deliver(j) \/ Respond(j) PROVE TypeOK'
  BY <1>8 DEF Deliver, Respond
<1>9. CASE Tick
  <2>1. now' \in Nat /\ seen' \in [Instances -> [Sessions -> -1 .. now']]
    <3>1. now' = now + 1 /\ -1 .. now \subseteq -1 .. now'
      BY <1>9 DEF Tick
    <3> QED
      BY <1>9, <3>1 DEF Tick
  <2> QED
    BY <1>9, <2>1 DEF Tick
<1>10. CASE UNCHANGED vars
  BY <1>10 DEF vars
<1> QED
  BY <1>1, <1>2, <1>3, <1>4, <1>5, <1>6, <1>7, <1>8, <1>9, <1>10 DEF Next

-----------------------------------------------------------------------------
(* Tokens under way *)

\* A token stays sound while the clock moves on and its session is kept.
LEMMA SoundStays ==
  ASSUME TypeOK, NEW t \in Tokens \cup {NoToken}, Sound(t),
         now' \in Nat, now' >= now,
         \A s \in Sessions : tab[s] # "none" => tab'[s] # "none" /\ signedAt'[s] = signedAt[s]
  PROVE  Sound(t)'
<1> SUFFICES ASSUME t # NoToken PROVE Sound(t)'
  BY DEF Sound, NoToken
<1>1. t.session \in Sessions /\ t.expiresAt \in Nat
  BY DEF Tokens
<1> QED
  BY <1>1, FlowAssumption DEF Sound, NoToken, TypeOK

LEMMA NextTokensInv == TypeOK /\ TokensInv /\ [Next]_vars => TokensInv'
<1> SUFFICES ASSUME TypeOK, TokensInv, [Next]_vars PROVE TokensInv'
  OBVIOUS
<1> USE DEF browserVars, historyVars
<1>0. cookie \in Tokens \cup {NoToken} /\ \A r \in requests : r.token \in Tokens \cup {NoToken}
  BY DEF TypeOK, CallbackRequests
<1>1. ASSUME /\ now' \in Nat /\ now' >= now
             /\ \A s \in Sessions :
                  tab[s] # "none" => tab'[s] # "none" /\ signedAt'[s] = signedAt[s]
             /\ cookie' \in {cookie, NoToken}
             /\ \A r \in requests' : r \in requests \/ r.token = cookie
      PROVE  TokensInv'
  <2>1. ASSUME NEW t \in Tokens \cup {NoToken}, Sound(t) PROVE Sound(t)'
    BY <1>1, <2>1, SoundStays
  <2>2. Sound(cookie)'
    <3>1. CASE cookie' = cookie
      BY <1>0, <2>1, <3>1 DEF TokensInv, Sound
    <3>2. CASE cookie' = NoToken
      BY <3>2 DEF Sound, NoToken
    <3> QED
      BY <1>1, <3>1, <3>2
  <2>3. ASSUME NEW r \in requests' PROVE Sound(r.token)'
    BY <1>0, <1>1, <2>1, <2>3 DEF TokensInv
  <2> QED
    BY <2>2, <2>3 DEF TokensInv
<1>2. ASSUME NEW s \in Sessions, BuildAuthURL(s) PROVE TokensInv'
  BY <1>1, <1>2 DEF BuildAuthURL, TypeOK
<1>3. ASSUME NEW s \in Sessions, Auth(s) PROVE TokensInv'
  <2>1. \A r \in requests : Sound(r.token)'
    <3>1. ASSUME NEW t \in Tokens \cup {NoToken}, Sound(t) PROVE Sound(t)'
      BY <1>3, <3>1, SoundStays DEF Auth, TypeOK
    <3> QED
      BY <1>0, <3>1 DEF TokensInv
  <2>2. Sound(cookie)'
    <3>1. /\ cookie' = [session |-> s, expiresAt |-> now + FlowTtl]
          /\ tab'[s] = "consent" /\ signedAt' = signedAt /\ now' = now
      BY <1>3 DEF Auth, TypeOK
    <3>2. now < Ticks(signedAt[s] + Tolerance + 1)
      BY <1>3, FreshTimes DEF Auth
    <3>3. now \in Nat /\ FlowTtl \in Nat /\ Ticks(signedAt[s] + Tolerance + 1) \in Int
      BY FlowAssumption, TicksInt DEF TypeOK
    <3>4. cookie'.session = s /\ cookie'.expiresAt = now + FlowTtl
      BY <3>1
    <3> QED
      BY <3>1, <3>2, <3>3, <3>4 DEF Sound, NoToken
  <2> QED
    BY <1>3, <2>1, <2>2 DEF TokensInv, Auth
<1>4. ASSUME NEW s \in Sessions, Consent(s) \/ ConnectMock(s) PROVE TokensInv'
  BY <1>1, <1>4 DEF Consent, ConnectMock, TypeOK
<1>5. ASSUME NEW s \in Sessions, SendCallback(s) PROVE TokensInv'
  BY <1>1, <1>5 DEF SendCallback, TypeOK
<1>6. ASSUME NEW r \in requests, RequestGone(r) PROVE TokensInv'
  BY <1>1, <1>6 DEF RequestGone, TypeOK
<1>7. CASE CookieGone
  BY <1>1, <1>7 DEF CookieGone, TypeOK
<1>8. ASSUME NEW r \in requests, NEW i \in Instances,
             RejectCallback(r, i) \/ AcceptCallback(r, i)
      PROVE  TokensInv'
  BY <1>1, <1>8 DEF RejectCallback, AcceptCallback, TypeOK
<1>9. ASSUME NEW j \in jobs, Deliver(j) \/ Respond(j) PROVE TokensInv'
  BY <1>1, <1>9 DEF Deliver, Respond, TypeOK
<1>10. CASE Tick
  BY <1>1, <1>10 DEF Tick, TypeOK
<1>11. CASE UNCHANGED vars
  BY <1>1, <1>11 DEF vars, TypeOK
<1> QED
  BY <1>2, <1>3, <1>4, <1>5, <1>6, <1>7, <1>8, <1>9, <1>10, <1>11 DEF Next

LEMMA NextJobsInv == TypeOK /\ JobsInv /\ [Next]_vars => JobsInv'
<1> SUFFICES ASSUME TypeOK, JobsInv, [Next]_vars PROVE JobsInv'
  OBVIOUS
<1>1. CASE UNCHANGED jobs
  BY <1>1 DEF JobsInv
<1>2. ASSUME NEW r \in requests, NEW i \in Instances, AcceptCallback(r, i) PROVE JobsInv'
  BY <1>2 DEF AcceptCallback, Matches, JobsInv
<1>3. ASSUME NEW j \in jobs, Deliver(j) \/ Respond(j) PROVE JobsInv'
  BY <1>3 DEF Deliver, Respond, JobsInv, TypeOK
<1>4. ASSUME NEW s \in Sessions, 
             BuildAuthURL(s) \/ Auth(s) \/ Consent(s) \/ ConnectMock(s) \/ SendCallback(s)
      PROVE  UNCHANGED jobs
  BY <1>4 DEF BuildAuthURL, Auth, Consent, ConnectMock, SendCallback
<1>5. ASSUME NEW r \in requests, NEW i \in Instances, RequestGone(r) \/ RejectCallback(r, i)
      PROVE  UNCHANGED jobs
  BY <1>5 DEF RequestGone, RejectCallback
<1>6. ASSUME NEW r \in requests, RequestGone(r) PROVE UNCHANGED jobs
  BY <1>6 DEF RequestGone
<1>7. CookieGone \/ Tick \/ UNCHANGED vars => UNCHANGED jobs
  BY DEF CookieGone, Tick, vars
<1> QED
  BY <1>1, <1>2, <1>3, <1>4, <1>5, <1>6, <1>7 DEF Next

-----------------------------------------------------------------------------
(* The SeenSet *)

\* The steps that leave every SeenSet and what was accepted alone.
SeenUntouched == UNCHANGED <<seen, used, reused, evicted>>

LEMMA OthersKeepSeen ==
  [Next]_vars => \/ SeenUntouched
                 \/ \E r \in requests, i \in Instances : AcceptCallback(r, i)
<1> SUFFICES ASSUME [Next]_vars,
                    ~ \E r \in requests, i \in Instances : AcceptCallback(r, i)
             PROVE  SeenUntouched
  OBVIOUS
<1> USE DEF SeenUntouched, historyVars
<1>1. ASSUME NEW s \in Sessions,
             BuildAuthURL(s) \/ Auth(s) \/ Consent(s) \/ ConnectMock(s) \/ SendCallback(s)
      PROVE  SeenUntouched
  BY <1>1 DEF BuildAuthURL, Auth, Consent, ConnectMock, SendCallback
<1>2. ASSUME NEW r \in requests, RequestGone(r) PROVE SeenUntouched
  BY <1>2 DEF RequestGone
<1>3. ASSUME NEW r \in requests, NEW i \in Instances, RejectCallback(r, i) PROVE SeenUntouched
  BY <1>3 DEF RejectCallback
<1>4. ASSUME NEW j \in jobs, Deliver(j) \/ Respond(j) PROVE SeenUntouched
  BY <1>4 DEF Deliver, Respond
<1>5. CookieGone \/ Tick \/ UNCHANGED vars => SeenUntouched
  BY DEF CookieGone, Tick, vars
<1> QED
  BY <1>1, <1>2, <1>3, <1>4, <1>5 DEF Next

\* An entry that outlives its token is still there while the token is valid.
LEMMA SeenIsRemembered ==
  ASSUME TypeOK, SeenInv, SeenTtl >= FlowTtl,
         NEW i \in Instances, NEW t \in used[i], now < t.expiresAt
  PROVE  t.session \in Remembered(i) \cup evicted[i]
<1>1. t \in Tokens /\ t.session \in Sessions /\ t.expiresAt \in Nat
  BY DEF TypeOK, Tokens
<1>2. CASE t.session \in evicted[i]
  BY <1>2
<1>3. CASE seen[i][t.session] # -1 /\ t.expiresAt <= seen[i][t.session] + SeenTtl
  <2>1. seen[i][t.session] \in Int /\ now \in Nat /\ SeenTtl \in Nat
    BY <1>1, FlowAssumption DEF TypeOK
  <2>2. now - seen[i][t.session] <= SeenTtl
    BY <1>1, <1>3, <2>1
  <2> QED
    BY <1>1, <1>3, <2>2 DEF Remembered
<1> QED
  BY <1>2, <1>3 DEF SeenInv

LEMMA NextSeenInv == TypeOK /\ TokensInv /\ SeenInv /\ [Next]_vars => SeenInv'
<1> SUFFICES ASSUME TypeOK, TokensInv, SeenInv, [Next]_vars, SeenTtl >= FlowTtl,
                    NEW k \in Instances, NEW t \in used'[k]
             PROVE  \/ t.session \in evicted'[k]
                    \/ /\ seen'[k][t.session] # -1
                       /\ t.expiresAt <= seen'[k][t.session] + SeenTtl
  BY DEF SeenInv
<1>1. CASE SeenUntouched
  BY <1>1 DEF SeenUntouched, SeenInv
<1>2. ASSUME NEW r \in requests, NEW i \in Instances, AcceptCallback(r, i)
      PROVE  \/ t.session \in evicted'[k]
             \/ /\ seen'[k][t.session] # -1
                /\ t.expiresAt <= seen'[k][t.session] + SeenTtl
  <2>1. r.token \in Tokens /\ r.token.session \in Sessions
    BY <1>2 DEF AcceptCallback, TypeOK, CallbackRequests, Tokens
  <2>2. /\ seen'[i][r.token.session] = now
        /\ \A m \in Instances : evicted[m] \subseteq evicted'[m]
        /\ \A m \in Instances, q \in Sessions :
             \/ q \in evicted'[m] \/ seen'[m][q] = seen[m][q]
             \/ m = i /\ q = r.token.session
    BY <1>2, <2>1, RememberEffect DEF AcceptCallback
  <2>3. used'[k] \subseteq used[k] \cup (IF k = i THEN {r.token} ELSE {})
    BY <1>2 DEF AcceptCallback, TypeOK
  <2>4. t \in Tokens /\ t.session \in Sessions /\ t.expiresAt \in Nat
    BY <2>1, <2>3 DEF TypeOK, Tokens
  <2>5. now \in Nat /\ FlowTtl \in Nat /\ SeenTtl \in Nat /\ seen[k][t.session] \in -1 .. now
    BY <2>4, FlowAssumption DEF TypeOK
  <2>6. CASE k = i /\ t = r.token
    <3>1. t.expiresAt <= now + FlowTtl
      BY <1>2, <2>6 DEF AcceptCallback, TokensInv, Sound
    <3> QED
      BY <2>2, <2>4, <2>5, <2>6, <3>1
  <2>7. CASE t \in used[k]
    <3>1. CASE k = i /\ t.session = r.token.session
      BY <2>2, <2>4, <2>5, <2>7, <3>1 DEF SeenInv
    <3>2. CASE ~(k = i /\ t.session = r.token.session)
      BY <2>2, <2>4, <2>7, <3>2 DEF SeenInv
    <3> QED
      BY <3>1, <3>2
  <2> QED
    BY <2>3, <2>6, <2>7
<1> QED
  BY <1>1, <1>2, OthersKeepSeen

LEMMA NextReusedInv == TypeOK /\ SeenInv /\ ReusedInv /\ [Next]_vars => ReusedInv'
<1> SUFFICES ASSUME TypeOK, SeenInv, ReusedInv, [Next]_vars, SeenTtl >= FlowTtl,
                    NEW k \in Instances, NEW t \in reused'[k]
             PROVE  t.session \in evicted'[k]
  BY DEF ReusedInv
<1>1. CASE SeenUntouched
  BY <1>1 DEF SeenUntouched, ReusedInv
<1>2. ASSUME NEW r \in requests, NEW i \in Instances, AcceptCallback(r, i)
      PROVE  t.session \in evicted'[k]
  <2>1. r.token \in Tokens /\ r.token.session \in Sessions
    BY <1>2 DEF AcceptCallback, TypeOK, CallbackRequests, Tokens
  <2>2. evicted[k] \subseteq evicted'[k]
    BY <1>2, <2>1, RememberEffect DEF AcceptCallback
  <2>3. CASE t \in reused[k]
    BY <2>2, <2>3 DEF ReusedInv
  <2>4. CASE k = i /\ t = r.token /\ r.token \in used[i]
    <3>1. now < t.expiresAt /\ t.session \notin Remembered(i)
      BY <1>2, <2>4 DEF AcceptCallback, Valid
    <3> QED
      BY <2>2, <2>4, <3>1, SeenIsRemembered
  <2> QED
    BY <1>2, <2>3, <2>4 DEF AcceptCallback, TypeOK
<1> QED
  BY <1>1, <1>2, OthersKeepSeen

-----------------------------------------------------------------------------
(* When a session, and not only a sealed token, is used once *)

\* How long before its timestamp a URL can be opened: it must have been signed,
\* and its timestamp must be within the tolerance.
Lead == IF Skew <= Ticks(Tolerance) THEN Skew ELSE Ticks(Tolerance)

\* Every token of a session is accepted in the FlowTtl and Tolerance + 1 seconds
\* and Lead that begin Lead before the signed second; the SeenSet remembers as
\* long.
SeenOutlivesSession == SeenTtl >= FlowTtl + Ticks(Tolerance + 1) + Lead

Begun(s) == tab[s] # "none" /\ Ticks(signedAt[s]) - Lead <= now

\* A token is sealed once its session's time has begun.
BegunInv ==
  /\ \A s \in Sessions : tab[s] # "none" => Ticks(signedAt[s]) - Skew <= now
  /\ cookie # NoToken => Begun(cookie.session)
  /\ \A r \in requests : r.token # NoToken => Begun(r.token.session)

\* The entry of a used session was made after its time had begun.
UseInv ==
  \A i \in Instances : \A t \in used[i] :
    /\ tab[t.session] # "none"
    /\ \/ t.session \in evicted[i]
       \/ seen[i][t.session] # -1 /\ Ticks(signedAt[t.session]) - Lead <= seen[i][t.session]

\* What finding "a session can be used twice" (SessionUsedOnce) leaves true: an
\* instance whose SeenSet remembers for SeenOutlivesSession, and did not drop
\* the session, accepts one token of it.
SessionUsedOnceOrDropped ==
  SeenOutlivesSession =>
    \A i \in Instances : \A t, u \in used[i] :
      t.session = u.session => t = u \/ t.session \in evicted[i]

LEMMA LeadInt == Lead \in Int /\ Lead <= Skew /\ Lead <= Ticks(Tolerance)
BY FlowAssumption, TicksInt DEF Lead

\* What has begun stays begun while the clock moves on.
LEMMA BegunStays ==
  ASSUME TypeOK, NEW s \in Sessions, Begun(s), now' \in Nat, now' >= now,
         tab'[s] # "none", signedAt'[s] = signedAt[s]
  PROVE  Begun(s)'
<1>1. Ticks(signedAt[s]) \in Int /\ Lead \in Int /\ now \in Nat
  BY TicksInt, LeadInt DEF TypeOK
<1>2. Lead' = Lead /\ (Ticks(signedAt[s]))' = Ticks(signedAt[s])
  BY DEF Lead, Ticks
<1> QED
  BY <1>1, <1>2 DEF Begun

LEMMA NextBegunInv == TypeOK /\ BegunInv /\ [Next]_vars => BegunInv'
<1> SUFFICES ASSUME TypeOK, BegunInv, [Next]_vars PROVE BegunInv'
  OBVIOUS
<1> USE DEF browserVars, historyVars
<1>0. /\ cookie # NoToken => cookie.session \in Sessions
      /\ \A r \in requests : r.token # NoToken => r.token.session \in Sessions
      /\ now \in Nat
  BY DEF TypeOK, CallbackRequests, Tokens
<1>1. ASSUME /\ now' \in Nat /\ now' >= now
             /\ \A s \in Sessions :
                  tab[s] # "none" => tab'[s] # "none" /\ signedAt'[s] = signedAt[s]
             /\ \A s \in Sessions : tab'[s] # "none" => Ticks(signedAt'[s]) - Skew <= now'
             /\ cookie' \in {cookie, NoToken}
             /\ \A r \in requests' : r \in requests \/ r.token = cookie
      PROVE  BegunInv'
  <2>1. ASSUME NEW s \in Sessions, Begun(s) PROVE Begun(s)'
    BY <1>1, <2>1, BegunStays DEF Begun
  <2>2. cookie' # NoToken => Begun(cookie.session)' /\ cookie' = cookie
    BY <1>0, <1>1, <2>1 DEF BegunInv
  <2>3. ASSUME NEW r \in requests', r.token # NoToken PROVE Begun(r.token.session)'
    <3>1. r.token.session \in Sessions /\ Begun(r.token.session)
      BY <1>0, <1>1, <2>3 DEF BegunInv
    <3> QED
      BY <2>1, <3>1
  <2>4. cookie' # NoToken => Begun(cookie.session)'
    BY <2>2
  <2>5. cookie' # NoToken => (cookie # NoToken /\ cookie' = cookie /\ Begun(cookie.session))
    BY <1>1 DEF BegunInv
  <2>6. (cookie # NoToken => Begun(cookie.session))'
    BY <2>4, <2>5
  <2> QED
    BY <1>1, <2>3, <2>6 DEF BegunInv
<1>2. ASSUME tab' = tab, signedAt' = signedAt, now' = now \/ now' = now + 1
      PROVE  /\ now' \in Nat /\ now' >= now
             /\ \A s \in Sessions :
                  tab[s] # "none" => tab'[s] # "none" /\ signedAt'[s] = signedAt[s]
             /\ \A s \in Sessions : tab'[s] # "none" => Ticks(signedAt'[s]) - Skew <= now'
  <2>1. now' \in Nat /\ now' >= now
    BY <1>0, <1>2
  <2>2. \A s \in Sessions : Ticks(signedAt[s]) \in Int
    BY TicksInt DEF TypeOK
  <2> QED
    BY <1>0, <1>2, <2>1, <2>2, FlowAssumption DEF BegunInv
<1>3. ASSUME NEW s \in Sessions, BuildAuthURL(s) PROVE BegunInv'
  <2>1. \A q \in Sessions :
          tab[q] # "none" => tab'[q] # "none" /\ signedAt'[q] = signedAt[q]
    BY <1>3 DEF BuildAuthURL, TypeOK
  <2>2. \A q \in Sessions : tab'[q] # "none" => Ticks(signedAt'[q]) - Skew <= now'
    <3>1. /\ signedAt' = [signedAt EXCEPT ![s] = InSeconds(now + Skew)] /\ now' = now
          /\ tab' = [tab EXCEPT ![s] = "signed"]
      BY <1>3 DEF BuildAuthURL
    <3>2. now + Skew \in Int /\ Skew \in Int
      BY <1>0, FlowAssumption
    <3>3. Ticks(InSeconds(now + Skew)) <= now + Skew /\ Ticks(InSeconds(now + Skew)) \in Int
      BY <3>2, WithinSecond, SecondsInt, TicksInt
    <3>4. Ticks(InSeconds(now + Skew)) - Skew <= now
      BY <1>0, <3>2, <3>3
    <3> QED
      BY <3>1, <3>4 DEF TypeOK, BegunInv
  <2> QED
    BY <1>0, <1>1, <1>3, <2>1, <2>2 DEF BuildAuthURL
<1>4. ASSUME NEW s \in Sessions, Auth(s) PROVE BegunInv'
  <2>1. \A q \in Sessions : tab'[q] # "none" <=> tab[q] # "none"
    BY <1>4 DEF Auth, TypeOK
  <2>2. Begun(s)
    <3>1. /\ Ticks(signedAt[s]) - Skew <= now
          /\ Ticks(signedAt[s]) - Ticks(Tolerance) <= now
          /\ tab[s] # "none"
      BY <1>0, <1>4, FreshTimes DEF Auth, BegunInv
    <3> QED
      BY <3>1 DEF Begun, Lead
  <2>3. \A q \in Sessions : Begun(q) => Begun(q)'
    BY <1>4, <2>1 DEF Begun, Auth, Lead
  <2>4. cookie'.session = s /\ requests' = requests /\ signedAt' = signedAt /\ now' = now
    BY <1>4 DEF Auth
  <2>5. Begun(s)' /\ \A r \in requests : r.token # NoToken => Begun(r.token.session)'
    BY <1>0, <2>2, <2>3 DEF BegunInv
  <2>6. (cookie # NoToken => Begun(cookie.session))'
    BY <2>4, <2>5
  <2>7. (\A r \in requests : r.token # NoToken => Begun(r.token.session))'
    BY <2>4, <2>5
  <2> QED
    BY <2>1, <2>4, <2>6, <2>7 DEF BegunInv
<1>5. ASSUME NEW s \in Sessions, Consent(s) \/ ConnectMock(s) PROVE BegunInv'
  <2>1. \A q \in Sessions : tab'[q] # "none" <=> tab[q] # "none"
    BY <1>5 DEF Consent, ConnectMock, TypeOK
  <2>2. /\ now' = now /\ signedAt' = signedAt /\ requests' = requests
        /\ cookie' \in {cookie, NoToken}
    BY <1>5 DEF Consent, ConnectMock
  <2> QED
    BY <1>0, <1>1, <2>1, <2>2 DEF BegunInv
<1>6. ASSUME NEW s \in Sessions, SendCallback(s) PROVE BegunInv'
  BY <1>1, <1>2, <1>6 DEF SendCallback
<1>7. ASSUME NEW r \in requests, RequestGone(r) PROVE BegunInv'
  BY <1>1, <1>2, <1>7 DEF RequestGone
<1>8. CASE CookieGone
  BY <1>1, <1>2, <1>8 DEF CookieGone
<1>9. ASSUME NEW r \in requests, NEW i \in Instances,
             RejectCallback(r, i) \/ AcceptCallback(r, i)
      PROVE  BegunInv'
  BY <1>1, <1>2, <1>9 DEF RejectCallback, AcceptCallback
<1>10. ASSUME NEW j \in jobs, Deliver(j) \/ Respond(j) PROVE BegunInv'
  BY <1>1, <1>2, <1>10 DEF Deliver, Respond
<1>11. CASE Tick \/ UNCHANGED vars
  BY <1>1, <1>2, <1>11 DEF Tick, vars
<1> QED
  BY <1>3, <1>4, <1>5, <1>6, <1>7, <1>8, <1>9, <1>10, <1>11 DEF Next

\* No step takes a session's timestamp away.
LEMMA SignedStays ==
  ASSUME TypeOK, [Next]_vars, NEW s \in Sessions, tab[s] # "none"
  PROVE  tab'[s] # "none" /\ signedAt'[s] = signedAt[s]
<1> USE DEF browserVars, historyVars, TypeOK
<1>1. ASSUME NEW q \in Sessions, BuildAuthURL(q) \/ Auth(q)
      PROVE  tab'[s] # "none" /\ signedAt'[s] = signedAt[s]
  BY <1>1 DEF BuildAuthURL, Auth
<1>2. ASSUME NEW q \in Sessions, Consent(q) \/ ConnectMock(q) \/ SendCallback(q)
      PROVE  tab'[s] # "none" /\ signedAt'[s] = signedAt[s]
  BY <1>2 DEF Consent, ConnectMock, SendCallback
<1>3. ASSUME NEW r \in requests, RequestGone(r)
      PROVE  tab'[s] # "none" /\ signedAt'[s] = signedAt[s]
  BY <1>3 DEF RequestGone
<1>4. ASSUME NEW r \in requests, NEW i \in Instances,
             RejectCallback(r, i) \/ AcceptCallback(r, i)
      PROVE  tab'[s] # "none" /\ signedAt'[s] = signedAt[s]
  BY <1>4 DEF RejectCallback, AcceptCallback
<1>5. ASSUME NEW j \in jobs, Deliver(j) \/ Respond(j)
      PROVE  tab'[s] # "none" /\ signedAt'[s] = signedAt[s]
  BY <1>5 DEF Deliver, Respond
<1>6. CASE CookieGone \/ Tick \/ UNCHANGED vars
  BY <1>6 DEF CookieGone, Tick, vars
<1> QED
  BY <1>1, <1>2, <1>3, <1>4, <1>5, <1>6 DEF Next

LEMMA NextUseInv == TypeOK /\ BegunInv /\ UseInv /\ [Next]_vars => UseInv'
<1> SUFFICES ASSUME TypeOK, BegunInv, UseInv, [Next]_vars,
                    NEW k \in Instances, NEW t \in used'[k]
             PROVE  /\ tab'[t.session] # "none"
                    /\ \/ t.session \in evicted'[k]
                       \/ /\ seen'[k][t.session] # -1
                          /\ Ticks(signedAt'[t.session]) - Lead <= seen'[k][t.session]
  BY DEF UseInv, Lead
<1> DEFINE Goal == /\ tab'[t.session] # "none"
                   /\ \/ t.session \in evicted'[k]
                      \/ /\ seen'[k][t.session] # -1
                         /\ Ticks(signedAt'[t.session]) - Lead <= seen'[k][t.session]
<1>1. CASE SeenUntouched
  <2>1. t \in used[k] /\ t.session \in Sessions
    BY <1>1 DEF SeenUntouched, TypeOK, Tokens
  <2>2. tab'[t.session] # "none" /\ signedAt'[t.session] = signedAt[t.session]
    BY <2>1, SignedStays DEF UseInv
  <2> QED
    BY <1>1, <2>1, <2>2 DEF SeenUntouched, UseInv
<1>2. ASSUME NEW r \in requests, NEW i \in Instances, AcceptCallback(r, i)
      PROVE  Goal
  <2>1. r.token \in Tokens /\ r.token.session \in Sessions /\ r.token # NoToken
    BY <1>2 DEF AcceptCallback, TypeOK, CallbackRequests, Tokens
  <2>2. /\ seen'[i][r.token.session] = now
        /\ \A m \in Instances : evicted[m] \subseteq evicted'[m]
        /\ \A m \in Instances, q \in Sessions :
             \/ q \in evicted'[m] \/ seen'[m][q] = seen[m][q]
             \/ m = i /\ q = r.token.session
    BY <1>2, <2>1, RememberEffect DEF AcceptCallback
  <2>3. used'[k] \subseteq used[k] \cup (IF k = i THEN {r.token} ELSE {})
    BY <1>2 DEF AcceptCallback, TypeOK
  <2>4. /\ t.session \in Sessions /\ tab' = tab /\ signedAt' = signedAt /\ now \in Nat
    BY <1>2, <2>1, <2>3 DEF TypeOK, Tokens, AcceptCallback, browserVars
  <2>5. Begun(r.token.session)
    BY <2>1 DEF BegunInv
  <2>6. CASE k = i /\ t.session = r.token.session
    BY <2>2, <2>4, <2>5, <2>6 DEF Begun
  <2>7. CASE ~(k = i /\ t.session = r.token.session)
    <3>1. t \in used[k]
      BY <2>3, <2>7
    <3> QED
      BY <2>2, <2>4, <2>7, <3>1 DEF UseInv
  <2> QED
    BY <2>6, <2>7
<1> QED
  BY <1>1, <1>2, OthersKeepSeen

LEMMA NextUsedOnce ==
  TypeOK /\ TokensInv /\ UseInv /\ SessionUsedOnceOrDropped /\ [Next]_vars
    => SessionUsedOnceOrDropped'
<1> SUFFICES ASSUME TypeOK, TokensInv, UseInv, SessionUsedOnceOrDropped, [Next]_vars,
                    SeenOutlivesSession,
                    NEW k \in Instances, NEW t \in used'[k], NEW u \in used'[k],
                    t.session = u.session
             PROVE  t = u \/ t.session \in evicted'[k]
  BY DEF SessionUsedOnceOrDropped, SeenOutlivesSession, Lead
<1>1. CASE SeenUntouched
  BY <1>1 DEF SeenUntouched, SessionUsedOnceOrDropped
<1>2. ASSUME NEW r \in requests, NEW i \in Instances, AcceptCallback(r, i)
      PROVE  t = u \/ t.session \in evicted'[k]
  <2>1. r.token \in Tokens /\ r.token.session \in Sessions /\ r.token # NoToken
    BY <1>2 DEF AcceptCallback, TypeOK, CallbackRequests, Tokens
  <2>2. \A m \in Instances : evicted[m] \subseteq evicted'[m]
    BY <1>2, <2>1, RememberEffect DEF AcceptCallback
  <2>3. used'[k] \subseteq used[k] \cup (IF k = i THEN {r.token} ELSE {})
    BY <1>2 DEF AcceptCallback, TypeOK
  <2>4. ASSUME NEW v \in used[i], v.session = r.token.session
        PROVE  v.session \in evicted[i]
    <3> DEFINE s == v.session
    <3>1. \/ s \in evicted[i]
          \/ seen[i][s] # -1 /\ Ticks(signedAt[s]) - Lead <= seen[i][s]
      BY DEF UseInv
    <3>2. now < r.token.expiresAt /\ r.token.expiresAt <= Ticks(signedAt[s] + Tolerance + 1) + FlowTtl
      BY <1>2, <2>1, <2>4 DEF AcceptCallback, Valid, TokensInv, Sound
    <3>3. s \notin Remembered(i) /\ s \in Sessions
      BY <1>2, <2>1, <2>4 DEF AcceptCallback
    <3>4. /\ now \in Nat /\ r.token.expiresAt \in Nat /\ signedAt[s] \in Int
          /\ seen[i][s] \in Int
          /\ Lead \in Int /\ Tolerance + 1 \in Int /\ FlowTtl \in Nat /\ SeenTtl \in Nat
      BY <2>1, <3>3, LeadInt, FlowAssumption DEF TypeOK, Tokens
    <3>6. /\ Ticks(signedAt[s] + Tolerance + 1) = Ticks(signedAt[s]) + Ticks(Tolerance + 1)
          /\ Ticks(signedAt[s]) \in Int /\ Ticks(Tolerance + 1) \in Int
      <4>1. signedAt[s] + (Tolerance + 1) = signedAt[s] + Tolerance + 1
        BY <3>4, FlowAssumption
      <4> QED
        BY <3>4, <4>1, TicksAdd, TicksInt
    <3>5. ASSUME seen[i][s] # -1, Ticks(signedAt[s]) - Lead <= seen[i][s]
          PROVE  FALSE
      <4>1. now - seen[i][s] <= SeenTtl
        BY <3>2, <3>4, <3>5, <3>6 DEF SeenOutlivesSession
      <4> QED
        BY <3>3, <3>5, <4>1 DEF Remembered
    <3> QED
      BY <3>1, <3>5
  <2>5. CASE t \in used[k] /\ u \in used[k]
    BY <2>2, <2>5 DEF SessionUsedOnceOrDropped
  <2>6. CASE k = i /\ (t = r.token \/ u = r.token)
    BY <2>2, <2>3, <2>4, <2>6
  <2> QED
    BY <2>3, <2>5, <2>6
<1> QED
  BY <1>1, <1>2, OthersKeepSeen

-----------------------------------------------------------------------------
(* The theorems *)

LEMMA NextIInv == IInv /\ [Next]_vars => IInv'
BY NextTypeOK, NextTokensInv, NextJobsInv, NextSeenInv, NextReusedInv DEF IInv

\* Of every sealed token under way, its session was signed and its end lies
\* within FlowTtl from now and from the last second its URL could be opened; a
\* callback past its checks carries a token of its own flow; and the SeenSet
\* holds the session of a used token as long as the token is valid, or dropped
\* it for room, given that it remembers for FlowTtl.
THEOREM IInvHolds == Spec => []IInv
BY InitIInv, NextIInv, PTL DEF Spec

\* The state keeps its types.
THEOREM TypesHold == Spec => []TypeOK
<1>1. IInv => TypeOK
  BY DEF IInv
<1> QED
  BY <1>1, IInvHolds, PTL

\* An instance whose SeenSet does not overflow accepts a sealed token once.
THEOREM ReplayIsRefused == Spec => []TokenUsedOnce
<1>1. IInv => TokenUsedOnce
  BY SeenIsRemembered DEF IInv, ReusedInv, TokenUsedOnce
<1> QED
  BY <1>1, IInvHolds, PTL

\* Callbacks send only to the daemon of the flow they were redirected for.
THEOREM NoTokenGoesAstray == Spec => []TokenReachesItsDaemon
<1>1. IInv => TokenReachesItsDaemon
  BY DEF IInv, JobsInv, TokenReachesItsDaemon
<1> QED
  BY <1>1, IInvHolds, PTL

\* No instance accepts a callback FlowTtl or more after the last second in which
\* its URL could be opened.
THEOREM WindowIsKept == Spec => FlowWindow
<1> DEFINE Window(j) == LET s == j.request.token.session
                        IN  tab[s] # "none" /\ now < Ticks(signedAt[s] + Tolerance + 1) + FlowTtl
<1>1. ASSUME IInv, [Next]_vars, NEW j \in jobs' \ jobs, j.phase = "encrypting"
      PROVE  Window(j)
  <2>1. PICK r \in requests, i \in Instances : AcceptCallback(r, i)
    BY <1>1
       DEF Next, vars, BuildAuthURL, Auth, Consent, ConnectMock, SendCallback, RequestGone,
           CookieGone, RejectCallback, Deliver, Respond, Tick, IInv, TypeOK
  <2>2. j.request = r
    BY <1>1, <2>1 DEF AcceptCallback
  <2>3. r.token \in Tokens /\ r.token.session \in Sessions /\ r.token # NoToken
    BY <1>1, <2>1 DEF AcceptCallback, IInv, TypeOK, CallbackRequests, Tokens
  <2>4. Sound(r.token) /\ now < r.token.expiresAt
    BY <1>1, <2>1 DEF AcceptCallback, Valid, IInv, TokensInv
  <2>5. /\ now \in Nat /\ r.token.expiresAt \in Nat /\ FlowTtl \in Nat
        /\ Ticks(signedAt[r.token.session] + Tolerance + 1) \in Int
    BY <1>1, <2>3, FlowAssumption, TicksInt DEF IInv, TypeOK, Tokens
  <2> QED
    BY <2>2, <2>3, <2>4, <2>5 DEF Sound
<1>2. IInv /\ [Next]_vars =>
        [\A j \in jobs' \ jobs : j.phase = "encrypting" => Window(j)]_vars
  BY <1>1
<1> QED
  BY <1>2, IInvHolds, PTL DEF Spec, FlowWindow

\* A SeenSet that remembers for the flow's lifetime, the tolerance and a second,
\* and the time a URL can be opened before its signed second, closes the gap that
\* SessionUsedOnce shows, whatever is opened again.
THEOREM LongMemoryUsesOnce == Spec => []SessionUsedOnceOrDropped
<1> DEFINE Inv == BegunInv /\ UseInv /\ SessionUsedOnceOrDropped
<1>1. Init => Inv
  BY DEF Init, BegunInv, UseInv, SessionUsedOnceOrDropped
<1>2. IInv /\ Inv /\ [Next]_vars => Inv'
  BY NextBegunInv, NextUseInv, NextUsedOnce DEF IInv
<1>3. Inv => SessionUsedOnceOrDropped
  OBVIOUS
<1> HIDE DEF Inv
<1> QED
  BY <1>1, <1>2, <1>3, IInvHolds, PTL DEF Spec

=============================================================================
