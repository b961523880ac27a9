---------------------------- MODULE FrontProofs ----------------------------
(***************************************************************************)
(* The auth endpoints, for every number of threads, requests and           *)
(* addresses: the limiter implements the sliding window, for every limit,  *)
(* window and tolerance; accounts and sessions are safe however the        *)
(* statements of signup, login, logout and logout-all interleave.          *)
(***************************************************************************)
EXTENDS RateLimiter, Accounts, TLAPS

-----------------------------------------------------------------------------
\* The limiter.


\* A caller between its stamp and the lock is at most Slack late.
StampFresh ==
  \A c \in Callers : asks[c] \in Keys => stamp[c] <= time /\ time <= stamp[c] + Slack

GrantedInPast == \A k \in Keys : \A i \in 1..Len(granted[k]) : granted[k][i] <= time

Inv == LimiterTypeOK /\ DequeIsRecent /\ StampFresh /\ GrantedInPast /\ NoOverrun

-----------------------------------------------------------------------------
\* The deque hits[k] after n stale entries were popped on behalf of stamp now:
\* what is left still shadows the last admissions of k, and every admission that
\* is no longer shadowed is Window - Slack old.
LEMMA AfterPop ==
  ASSUME Inv, NEW k \in Keys, NEW now \in Nat, NEW n \in 0..Len(hits[k]),
         now <= time, Popped(hits[k], now, n)
  PROVE  LET dq == SubSeq(hits[k], n + 1, Len(hits[k]))
             d  == Len(granted[k]) - Len(dq)
         IN  /\ dq \in Seq(Nat) /\ Len(dq) = Len(hits[k]) - n
             /\ d \in Nat
             /\ \A i \in 1..Len(dq) : dq[i] = hits[k][n + i]
             /\ \A i \in 1..Len(dq) :
                  dq[i] <= granted[k][d + i] /\ granted[k][d + i] <= dq[i] + Slack
             /\ \A i \in 1..d : granted[k][i] + (Window - Slack) <= time
<1> DEFINE H  == hits[k]
           G  == granted[k]
           dq == SubSeq(H, n + 1, Len(H))
           e  == Len(G) - Len(H)
           d  == Len(G) - Len(dq)
<1>1. /\ H \in Seq(Nat) /\ G \in Seq(Nat) /\ time \in Nat
      /\ Len(H) \in Nat /\ Len(G) \in Nat /\ n \in Nat /\ n <= Len(H)
  BY DEF Inv, LimiterTypeOK
<1>2. /\ Window \in Nat /\ Slack \in Nat /\ Slack <= Window
  BY WindowAssumption
<1>3. /\ e >= 0
      /\ \A i \in 1..Len(H) : H[i] <= G[e + i] /\ G[e + i] <= H[i] + Slack
      /\ \A i \in 1..e : G[i] + (Window - Slack) <= time
  BY DEF Inv, DequeIsRecent
<1>4. dq \in Seq(Nat) /\ Len(dq) = Len(H) - n /\ \A i \in 1..Len(dq) : dq[i] = H[n + i]
  BY <1>1
<1> HIDE DEF dq, d, e, H, G
<1>5. d \in Nat /\ d = e + n
  <2>1. d = Len(G) - (Len(H) - n) /\ e = Len(G) - Len(H)
    BY <1>4 DEF d, e
  <2>2. QED  BY <2>1, <1>1, <1>3
<1>6. ASSUME NEW i \in 1..Len(dq)
      PROVE  dq[i] <= G[d + i] /\ G[d + i] <= dq[i] + Slack
  <2>1. n + i \in 1..Len(H) /\ d + i = e + (n + i)
    BY <1>1, <1>3, <1>4, <1>5 DEF e
  <2>2. QED  BY <1>3, <1>4, <2>1
<1>7. ASSUME NEW i \in 1..d
      PROVE  G[i] + (Window - Slack) <= time
  <2>1. CASE i <= e
    <3>1. e \in Nat /\ d \in Nat
      <4>1. Len(G) \in Nat /\ Len(H) \in Nat
        BY <1>1
      <4>2. QED  BY <4>1, <1>3, <1>5 DEF e
    <3>2. i \in 1..e
      BY <2>1, <3>1
    <3>3. QED  BY <1>3, <3>2
  <2>2. CASE i > e
    <3>1. e \in Nat /\ i - e \in 1..n /\ i - e \in 1..Len(H) /\ e + (i - e) = i
      <4>1. Len(G) \in Nat /\ Len(H) \in Nat /\ n \in Nat /\ n <= Len(H)
        BY <1>1
      <4>2. e \in Nat
        BY <4>1, <1>3 DEF e
      <4>3. i \in Nat /\ i <= e + n
        BY <4>2, <1>5
      <4>4. QED  BY <4>1, <4>2, <4>3, <2>2
    <3>2. H[i - e] + Window <= now
      BY <3>1 DEF Popped, Stale, H
    <3>3. G[i] <= H[i - e] + Slack
      BY <1>3, <3>1
    <3>4. i \in 1..Len(G)
      BY <1>1, <1>5 DEF e
    <3>5. H[i - e] \in Nat /\ G[i] \in Nat
      <4>1. ASSUME NEW s \in Seq(Nat), NEW j \in 1..Len(s)  PROVE  s[j] \in Nat
        OBVIOUS
      <4>2. QED  BY <4>1, <1>1, <3>1, <3>4
    <3>6. QED
      <4>1. ASSUME NEW a \in Nat, NEW b \in Nat, a + Window <= now, b <= a + Slack
            PROVE  b + (Window - Slack) <= time
        BY <4>1, <1>1, <1>2
      <4>2. QED  BY <4>1, <3>2, <3>3, <3>5
  <2>3. QED  BY <2>1, <2>2, <1>1, <1>5 DEF e
<1>8. QED  BY <1>4, <1>5, <1>6, <1>7 DEF dq, d, H, G

-----------------------------------------------------------------------------
\* The step inside the lock, split by its answer.
LEMMA DecideCases ==
  ASSUME Inv, NEW c \in Callers, Decide(c)
  PROVE  /\ asks[c] \in Keys /\ UNCHANGED <<time, stamp>>
         /\ \E n \in 0..Len(hits[asks[c]]) :
              LET k  == asks[c]
                  dq == SubSeq(hits[k], n + 1, Len(hits[k]))
              IN  /\ Popped(hits[k], stamp[c], n)
                  /\ stamp[c] \in Nat /\ stamp[c] <= time /\ time <= stamp[c] + Slack
                  /\ \/ /\ Len(dq) < Limit
                        /\ hits' = [hits EXCEPT ![k] = Append(dq, stamp[c])]
                        /\ granted' = [granted EXCEPT ![k] = Append(@, time)]
                        /\ asks' = [asks EXCEPT ![c] = Yes]
                     \/ /\ Len(dq) >= Limit
                        /\ hits' = [hits EXCEPT ![k] = dq]
                        /\ asks' = [asks EXCEPT ![c] = No]
                        /\ UNCHANGED granted
<1>1. asks[c] \in Keys /\ UNCHANGED <<time, stamp>>
  BY DEF Decide
<1>2. stamp[c] \in Nat /\ stamp[c] <= time /\ time <= stamp[c] + Slack
  BY <1>1 DEF Inv, LimiterTypeOK, StampFresh
<1>3. ASSUME NEW n \in 0..Len(hits[asks[c]])
      PROVE  LET dq == SubSeq(hits[asks[c]], n + 1, Len(hits[asks[c]]))
             IN  Room(dq) \/ Len(dq) >= Limit
  <2>1. hits[asks[c]] \in Seq(Nat) /\ Limit \in Nat
    BY <1>1, WindowAssumption DEF Inv, LimiterTypeOK
  <2>2. QED  BY <2>1 DEF Room
<1>4. QED  BY <1>1, <1>2, <1>3, Zenon DEF Decide, Room

LEMMA InvInit == LimiterInit => Inv
<1> SUFFICES ASSUME LimiterInit PROVE Inv
  OBVIOUS
<1>1. /\ time = 0 /\ granted = [k \in Keys |-> <<>>] /\ hits = [k \in Keys |-> <<>>]
      /\ asks = [c \in Callers |-> No] /\ stamp = [c \in Callers |-> 0]
  BY DEF LimiterInit, WindowInit
<1>2. LimiterTypeOK
  BY <1>1, WindowAssumption DEF LimiterTypeOK
<1>3. \A k \in Keys : Len(granted[k]) = 0 /\ Len(hits[k]) = 0
  BY <1>1
<1>4. DequeIsRecent /\ GrantedInPast /\ NoOverrun
  <2>1. ASSUME NEW k \in Keys  PROVE 1..Len(granted[k]) = {} /\ 1..Len(hits[k]) = {}
                                     /\ 1..(Len(granted[k]) - Len(hits[k])) = {}
                                     /\ Len(granted[k]) - Len(hits[k]) >= 0
    <3>1. 1..0 = {} /\ 0 - 0 >= 0 /\ 1..(0 - 0) = {}
      OBVIOUS
    <3>2. QED  BY <3>1, <1>3, Zenon
  <2>2. QED  BY <2>1, Zenon DEF DequeIsRecent, GrantedInPast, NoOverrun
<1>5. StampFresh
  BY <1>1, WindowAssumption DEF StampFresh
<1>6. QED  BY <1>2, <1>4, <1>5 DEF Inv

\* Time and stamps move, the deque and the admissions do not.
LEMMA InvOutside ==
  ASSUME Inv, UNCHANGED <<hits, granted>>, LimiterTypeOK', StampFresh', time' >= time
  PROVE  Inv'
<1>1. /\ time \in Nat /\ time' \in Nat /\ Window \in Nat /\ Slack \in Nat /\ Slack <= Window
      /\ \A k \in Keys : granted[k] \in Seq(Nat) /\ hits[k] \in Seq(Nat)
  BY WindowAssumption DEF Inv, LimiterTypeOK
<1>2. GrantedInPast'
  <2>1. ASSUME NEW k \in Keys, NEW i \in 1..Len(granted[k])  PROVE granted[k][i] <= time'
    <3>1. granted[k][i] \in Nat /\ granted[k][i] <= time
      BY <1>1 DEF Inv, GrantedInPast
    <3>2. QED  BY <3>1, <1>1
  <2>2. QED  BY <2>1 DEF GrantedInPast
<1>3. DequeIsRecent'
  <2>1. ASSUME NEW k \in Keys, NEW i \in 1..(Len(granted[k]) - Len(hits[k]))
        PROVE  granted[k][i] + (Window - Slack) <= time'
    <3>1. granted[k] \in Seq(Nat) /\ i \in 1..Len(granted[k])
      <4>1. ASSUME NEW s \in Seq(Nat), NEW t \in Seq(Nat), NEW j \in 1..(Len(s) - Len(t))
            PROVE  j \in 1..Len(s)
        <5>1. Len(s) \in Nat /\ Len(t) \in Nat
          OBVIOUS
        <5>2. QED  BY <5>1
      <4>2. QED  BY <4>1, <1>1
    <3>2. granted[k][i] \in Nat
      BY <3>1
    <3>3. granted[k][i] + (Window - Slack) <= time
      BY DEF Inv, DequeIsRecent
    <3>4. QED  BY <3>2, <3>3, <1>1
  <2>2. ASSUME NEW k \in Keys  PROVE Len(granted[k]) - Len(hits[k]) >= 0
                                 /\ \A i \in 1..Len(hits[k]) :
                                      /\ hits[k][i] <= granted[k][Len(granted[k]) - Len(hits[k]) + i]
                                      /\ granted[k][Len(granted[k]) - Len(hits[k]) + i]
                                           <= hits[k][i] + Slack
    BY Zenon DEF DequeIsRecent, Inv
  <2>3. QED  BY <2>1, <2>2, Zenon DEF DequeIsRecent
<1>4. NoOverrun'
  BY DEF Inv, NoOverrun
<1>5. QED  BY <1>2, <1>3, <1>4 DEF Inv

LEMMA InvReadClock ==
  ASSUME Inv, NEW c \in Callers, NEW k \in Keys, ReadClock(c, k)  PROVE Inv'
<1>1. /\ UNCHANGED <<time, granted, hits>>
      /\ asks' = [asks EXCEPT ![c] = k] /\ stamp' = [stamp EXCEPT ![c] = time]
  BY DEF ReadClock, Ask
<1>2. LimiterTypeOK'
  BY <1>1 DEF Inv, LimiterTypeOK
<1>3. StampFresh'
  <2>1. ASSUME NEW b \in Callers, asks'[b] \in Keys
        PROVE  stamp'[b] <= time' /\ time' <= stamp'[b] + Slack
    BY <2>1, <1>1, WindowAssumption DEF Inv, LimiterTypeOK, StampFresh
  <2>2. QED  BY <2>1 DEF StampFresh
<1>4. QED
  <2>1. time' >= time
    BY <1>1 DEF Inv, LimiterTypeOK
  <2>2. QED  BY <2>1, <1>1, <1>2, <1>3, InvOutside

LEMMA InvTick ==
  ASSUME Inv, Tick  PROVE Inv'
<1>1. /\ time' = time + 1 /\ UNCHANGED <<granted, asks, hits, stamp>>
      /\ \A c \in Callers : asks[c] \in Keys => time < stamp[c] + Slack
  BY DEF Tick, Pass
<1>2. LimiterTypeOK'
  BY <1>1 DEF Inv, LimiterTypeOK
<1>3. StampFresh'
  <2>1. ASSUME NEW b \in Callers, asks'[b] \in Keys
        PROVE  stamp'[b] <= time' /\ time' <= stamp'[b] + Slack
    <3>1. stamp[b] \in Nat /\ time \in Nat /\ Slack \in Nat
      BY WindowAssumption DEF Inv, LimiterTypeOK
    <3>2. stamp[b] <= time /\ time < stamp[b] + Slack
      BY <2>1, <1>1 DEF Inv, StampFresh
    <3>3. QED  BY <3>1, <3>2, <1>1
  <2>2. QED  BY <2>1 DEF StampFresh
<1>4. QED
  <2>1. time' >= time
    BY <1>1 DEF Inv, LimiterTypeOK
  <2>2. QED  BY <2>1, <1>1, <1>2, <1>3, InvOutside

\* A refusal: the deque was popped, and nothing else happened.
LEMMA InvDeny ==
  ASSUME Inv, NEW c \in Callers, asks[c] \in Keys, NEW n \in 0..Len(hits[asks[c]]),
         Popped(hits[asks[c]], stamp[c], n), stamp[c] \in Nat, stamp[c] <= time,
         UNCHANGED <<time, stamp, granted>>, asks' = [asks EXCEPT ![c] = No],
         hits' = [hits EXCEPT ![asks[c]] = SubSeq(hits[asks[c]], n + 1, Len(hits[asks[c]]))]
  PROVE  Inv'
<1> DEFINE k == asks[c]
           dq == SubSeq(hits[k], n + 1, Len(hits[k]))
<1>1. /\ k \in Keys /\ dq \in Seq(Nat) /\ Len(dq) = Len(hits[k]) - n
      /\ Len(granted[k]) - Len(dq) >= 0
      /\ \A i \in 1..Len(dq) :
           /\ dq[i] <= granted[k][(Len(granted[k]) - Len(dq)) + i]
           /\ granted[k][(Len(granted[k]) - Len(dq)) + i] <= dq[i] + Slack
      /\ \A i \in 1..(Len(granted[k]) - Len(dq)) : granted[k][i] + (Window - Slack) <= time
  <2>1. Len(granted[k]) - Len(dq) \in Nat
    BY AfterPop
  <2>2. Len(granted[k]) - Len(dq) >= 0
    BY <2>1
  <2>3. QED  BY <2>2, AfterPop, Zenon
<1>2. hits' = [hits EXCEPT ![k] = dq]
  OBVIOUS
<1> HIDE DEF dq
<1>3. hits'[k] = dq /\ \A j \in Keys \ {k} : hits'[j] = hits[j]
  BY <1>1, <1>2 DEF Inv, LimiterTypeOK
<1>4. LimiterTypeOK'
  <2>1. Len(dq) <= Limit
    BY <1>1, WindowAssumption DEF Inv, LimiterTypeOK
  <2>2. hits' \in [Keys -> Seq(Nat)]
    BY <1>1, <1>2 DEF Inv, LimiterTypeOK
  <2>3. \A j \in Keys : Len(hits'[j]) <= Limit
    BY <2>1, <1>3 DEF Inv, LimiterTypeOK
  <2>4. asks' \in [Callers -> Keys \cup {Yes, No}]
    BY DEF Inv, LimiterTypeOK
  <2>5. QED  BY <2>2, <2>3, <2>4 DEF Inv, LimiterTypeOK
<1>5. DequeIsRecent'
  <2>1. ASSUME NEW j \in Keys  PROVE
          LET d == Len(granted'[j]) - Len(hits'[j])
          IN  /\ d >= 0
              /\ \A i \in 1..Len(hits'[j]) : hits'[j][i] <= granted'[j][d + i]
                                           /\ granted'[j][d + i] <= hits'[j][i] + Slack
              /\ \A i \in 1..d : granted'[j][i] + (Window - Slack) <= time'
    <3>1. CASE j = k
      BY <3>1, <1>1, <1>3, Zenon
    <3>2. CASE j # k
      BY <3>2, <1>3, Zenon DEF Inv, DequeIsRecent
    <3>3. QED  BY <3>1, <3>2
  <2>2. QED  BY <2>1, Zenon DEF DequeIsRecent
<1>6. StampFresh'
  BY <1>1, WindowAssumption DEF Inv, StampFresh, LimiterTypeOK
<1>7. GrantedInPast' /\ NoOverrun'
  BY DEF Inv, GrantedInPast, NoOverrun
<1>8. QED  BY <1>4, <1>5, <1>6, <1>7 DEF Inv

\* An admission: the stamp enters the deque and the admission the history.
LEMMA InvGrant ==
  ASSUME Inv, NEW c \in Callers, asks[c] \in Keys, NEW n \in 0..Len(hits[asks[c]]),
         Popped(hits[asks[c]], stamp[c], n),
         stamp[c] \in Nat, stamp[c] <= time, time <= stamp[c] + Slack,
         Len(SubSeq(hits[asks[c]], n + 1, Len(hits[asks[c]]))) < Limit,
         UNCHANGED <<time, stamp>>, asks' = [asks EXCEPT ![c] = Yes],
         granted' = [granted EXCEPT ![asks[c]] = Append(@, time)],
         hits' = [hits EXCEPT ![asks[c]] =
                    Append(SubSeq(hits[asks[c]], n + 1, Len(hits[asks[c]])), stamp[c])]
  PROVE  Inv'
<1> DEFINE k  == asks[c]
           dq == SubSeq(hits[k], n + 1, Len(hits[k]))
           G  == granted[k]
           d  == Len(G) - Len(dq)
           D2 == Append(dq, stamp[c])
           G2 == Append(G, time)
<1>1. /\ k \in Keys /\ dq \in Seq(Nat) /\ G \in Seq(Nat) /\ d \in Nat /\ time \in Nat
      /\ \A i \in 1..Len(dq) : dq[i] <= G[d + i] /\ G[d + i] <= dq[i] + Slack
      /\ \A i \in 1..d : G[i] + (Window - Slack) <= time
      /\ \A i \in 1..Len(G) : G[i] <= time
      /\ \A i \in 1..Len(G) : i > Limit => G[i] >= G[i - Limit] + (Window - Slack)
  BY AfterPop DEF Inv, LimiterTypeOK, GrantedInPast, NoOverrun
<1>2. hits' = [hits EXCEPT ![k] = D2] /\ granted' = [granted EXCEPT ![k] = G2] /\ Len(dq) < Limit
  OBVIOUS
<1>3. stamp[c] \in Nat /\ stamp[c] <= time /\ time <= stamp[c] + Slack
  OBVIOUS
<1>4. /\ Limit \in Nat /\ Limit > 0 /\ Window \in Nat /\ Slack \in Nat /\ Slack <= Window
  BY WindowAssumption
<1> HIDE DEF k
<1>5. /\ hits'[k] = D2 /\ granted'[k] = G2 /\ time' = time
      /\ \A j \in Keys \ {k} : hits'[j] = hits[j] /\ granted'[j] = granted[j]
  BY <1>1, <1>2 DEF Inv, LimiterTypeOK
<1> HIDE DEF dq
<1>6. Len(dq) \in Nat /\ Len(G) \in Nat
  BY <1>1
<1>7. /\ D2 \in Seq(Nat) /\ Len(D2) = Len(dq) + 1 /\ D2[Len(dq) + 1] = stamp[c]
      /\ \A i \in 1..Len(dq) : D2[i] = dq[i]
  BY <1>1, <1>3
<1>8. /\ G2 \in Seq(Nat) /\ Len(G2) = Len(G) + 1 /\ G2[Len(G) + 1] = time
      /\ \A i \in 1..Len(G) : G2[i] = G[i]
  BY <1>1
<1>9. d + Len(dq) = Len(G) /\ Len(G2) - Len(D2) = d
  <2>1. ASSUME NEW a \in Nat, NEW b \in Nat
        PROVE  (a - b) + b = a /\ (a + 1) - (b + 1) = a - b
    OBVIOUS
  <2>2. QED  BY <2>1, <1>6, <1>7, <1>8
<1> HIDE DEF d, D2, G2, G
<1>10. LimiterTypeOK'
  <2>1. Len(D2) <= Limit
    BY <1>2, <1>4, <1>6, <1>7
  <2>2. hits' \in [Keys -> Seq(Nat)] /\ granted' \in [Keys -> Seq(Nat)]
    <3>1. hits \in [Keys -> Seq(Nat)] /\ granted \in [Keys -> Seq(Nat)]
      BY DEF Inv, LimiterTypeOK
    <3>2. k \in Keys /\ D2 \in Seq(Nat) /\ G2 \in Seq(Nat)
      BY <1>1, <1>7, <1>8
    <3>3. [hits EXCEPT ![k] = D2] \in [Keys -> Seq(Nat)]
      BY <3>1, <3>2
    <3>4. [granted EXCEPT ![k] = G2] \in [Keys -> Seq(Nat)]
      BY <3>1, <3>2
    <3>5. QED  BY <3>3, <3>4, <1>2, Zenon
  <2>3. \A j \in Keys : Len(hits'[j]) <= Limit
    BY <2>1, <1>5 DEF Inv, LimiterTypeOK
  <2>4. asks' \in [Callers -> Keys \cup {Yes, No}]
    BY DEF Inv, LimiterTypeOK
  <2>5. QED  BY <2>2, <2>3, <2>4 DEF Inv, LimiterTypeOK
<1>11. \A i \in 1..Len(D2) : D2[i] <= G2[d + i] /\ G2[d + i] <= D2[i] + Slack
  <2>1. TAKE i \in 1..Len(D2)
  <2>2. CASE i = Len(dq) + 1
    <3>1. d + i = Len(G) + 1
      <4>1. d \in Nat /\ d + Len(dq) = Len(G)
        BY <1>1, <1>9
      <4>2. QED  BY <4>1, <2>2, <1>6
    <3>2. QED  BY <2>2, <3>1, <1>3, <1>7, <1>8
  <2>3. CASE i # Len(dq) + 1
    <3>1. i \in 1..Len(dq) /\ d + i \in 1..Len(G)
      <4>1. i \in 1..Len(dq)
        BY <2>3, <1>6, <1>7
      <4>2. d \in Nat /\ d + Len(dq) = Len(G)
        BY <1>1, <1>9
      <4>3. QED  BY <4>1, <4>2, <1>6
    <3>2. QED  BY <3>1, <1>1, <1>7, <1>8
  <2>4. QED  BY <2>2, <2>3
<1>12. \A i \in 1..d : G2[i] + (Window - Slack) <= time
  <2>1. \A i \in 1..d : i \in 1..Len(G)
    BY <1>1, <1>6, <1>9
  <2>2. QED  BY <2>1, <1>1, <1>8
<1>13. DequeIsRecent'
  <2>1. ASSUME NEW j \in Keys  PROVE
          LET e == Len(granted'[j]) - Len(hits'[j])
          IN  /\ e >= 0
              /\ \A i \in 1..Len(hits'[j]) : hits'[j][i] <= granted'[j][e + i]
                                           /\ granted'[j][e + i] <= hits'[j][i] + Slack
              /\ \A i \in 1..e : granted'[j][i] + (Window - Slack) <= time'
    <3>1. CASE j = k
      <4>1. d >= 0
        BY <1>1
      <4>2. Len(granted'[k]) - Len(hits'[k]) = d
        BY <1>5, <1>9, Zenon
      <4>3. QED  BY <3>1, <4>1, <4>2, <1>5, <1>11, <1>12
    <3>2. CASE j # k
      <4>1. granted'[j] = granted[j] /\ hits'[j] = hits[j] /\ time' = time
        BY <3>2, <1>5
      <4>2. LET e == Len(granted[j]) - Len(hits[j])
            IN  /\ e >= 0
                /\ \A i \in 1..Len(hits[j]) : hits[j][i] <= granted[j][e + i]
                                            /\ granted[j][e + i] <= hits[j][i] + Slack
                /\ \A i \in 1..e : granted[j][i] + (Window - Slack) <= time
        BY DEF Inv, DequeIsRecent
      <4>3. QED  BY <4>1, <4>2, Zenon
    <3>3. QED  BY <3>1, <3>2
  <2>2. QED  BY <2>1, Zenon DEF DequeIsRecent
<1>14. GrantedInPast'
  <2>1. ASSUME NEW i \in 1..Len(G2)  PROVE G2[i] <= time
    <3>1. i \in 1..Len(G) \/ i = Len(G) + 1
      BY <1>6, <1>8
    <3>2. CASE i \in 1..Len(G)
      BY <3>2, <1>1, <1>8
    <3>3. CASE i = Len(G) + 1
      BY <3>3, <1>1, <1>8
    <3>4. QED  BY <3>1, <3>2, <3>3
  <2>2. ASSUME NEW j \in Keys, NEW i \in 1..Len(granted'[j])  PROVE granted'[j][i] <= time'
    <3>1. CASE j = k
      BY <3>1, <2>1, <1>5
    <3>2. CASE j # k
      BY <3>2, <1>5 DEF Inv, GrantedInPast
    <3>3. QED  BY <3>1, <3>2
  <2>3. QED  BY <2>2 DEF GrantedInPast
<1>15. NoOverrun'
  <2>1. ASSUME NEW i \in 1..Len(G2), i > Limit
        PROVE  G2[i] >= G2[i - Limit] + (Window - Slack)
    <3>1. i - Limit \in 1..Len(G)
      BY <2>1, <1>4, <1>6, <1>8
    <3>2. CASE i = Len(G) + 1
      <4>1. i - Limit \in 1..d
        BY <3>1, <3>2, <1>1, <1>2, <1>4, <1>6, <1>9
      <4>2. G2[i - Limit] + (Window - Slack) <= time /\ G2[i] = time
        BY <4>1, <3>2, <1>8, <1>12
      <4>3. G2[i - Limit] \in Nat
        BY <3>1, <1>8
      <4>4. QED  BY <4>2, <4>3, <1>4
    <3>3. CASE i # Len(G) + 1
      <4>1. i \in 1..Len(G)
        BY <3>3, <1>6, <1>8
      <4>2. QED  BY <4>1, <3>1, <2>1, <1>1, <1>8
    <3>4. QED  BY <3>2, <3>3
  <2>2. ASSUME NEW j \in Keys, NEW i \in 1..Len(granted'[j]), i > Limit
        PROVE  granted'[j][i] >= granted'[j][i - Limit] + (Window - Slack)
    <3>1. CASE j = k
      BY <3>1, <2>1, <2>2, <1>5
    <3>2. CASE j # k
      BY <3>2, <2>2, <1>5 DEF Inv, NoOverrun
    <3>3. QED  BY <3>1, <3>2
  <2>3. QED  BY <2>2 DEF NoOverrun
<1>16. StampFresh'
  BY <1>4, WindowAssumption DEF Inv, StampFresh, LimiterTypeOK
<1>17. QED  BY <1>10, <1>13, <1>14, <1>15, <1>16 DEF Inv

LEMMA InvNext == Inv /\ [LimiterNext]_limiterVars => Inv'
<1> SUFFICES ASSUME Inv, [LimiterNext]_limiterVars  PROVE Inv'
  OBVIOUS
<1>1. CASE Tick
  BY <1>1, InvTick
<1>2. CASE \E c \in Callers : \E k \in Keys : ReadClock(c, k)
  BY <1>2, InvReadClock
<1>3. CASE \E c \in Callers : Decide(c)
  <2>1. PICK c \in Callers : Decide(c)
    BY <1>3
  <2>2. QED  BY <2>1, DecideCases, InvGrant, InvDeny
<1>4. CASE UNCHANGED limiterVars
  <2>1. UNCHANGED <<hits, granted, asks, stamp, time>>
    BY <1>4 DEF limiterVars
  <2>2. QED
    BY <2>1 DEF Inv, LimiterTypeOK, DequeIsRecent, StampFresh, GrantedInPast, NoOverrun
<1>5. QED  BY <1>1, <1>2, <1>3, <1>4 DEF LimiterNext

LEMMA InvAlways == LimiterSpec => []Inv
  BY InvInit, InvNext, PTL DEF LimiterSpec

\* The deques stay typed and hold at most Limit stamps.
THEOREM LimiterTypeCorrect == LimiterSpec => []LimiterTypeOK
<1>1. Inv => LimiterTypeOK  BY DEF Inv
<1>2. QED  BY <1>1, InvAlways, PTL

\* The deque shadows exactly the recent admissions, whatever order the stamps
\* reach it in.
THEOREM DequeCorrect == LimiterSpec => []DequeIsRecent
<1>1. Inv => DequeIsRecent  BY DEF Inv
<1>2. QED  BY <1>1, InvAlways, PTL

\* No address is ever admitted more than Limit times within Window - Slack.
THEOREM NeverOverrun == LimiterSpec => []NoOverrun
<1>1. Inv => NoOverrun  BY DEF Inv
<1>2. QED  BY <1>1, InvAlways, PTL

-----------------------------------------------------------------------------
\* Each answer is one the sliding window allows.
LEMMA DecideImplements ==
  ASSUME Inv, NEW c \in Callers, Decide(c)
  PROVE  Grant(c) \/ Deny(c)
<1> DEFINE k == asks[c]
           G == granted[k]
<1>1. PICK n \in 0..Len(hits[k]) :
        LET dq == SubSeq(hits[k], n + 1, Len(hits[k]))
        IN  /\ Popped(hits[k], stamp[c], n)
            /\ stamp[c] \in Nat /\ stamp[c] <= time /\ time <= stamp[c] + Slack
            /\ \/ /\ Len(dq) < Limit
                  /\ granted' = [granted EXCEPT ![k] = Append(@, time)]
                  /\ asks' = [asks EXCEPT ![c] = Yes]
               \/ /\ Len(dq) >= Limit
                  /\ asks' = [asks EXCEPT ![c] = No]
                  /\ UNCHANGED granted
  BY DecideCases, Zenon
<1> DEFINE dq == SubSeq(hits[k], n + 1, Len(hits[k]))
           d  == Len(G) - Len(dq)
<1>2. /\ k \in Keys /\ UNCHANGED <<time, stamp>> /\ time \in Nat /\ G \in Seq(Nat)
      /\ hits[k] \in Seq(Nat)
  BY DecideCases DEF Inv, LimiterTypeOK
<1>3. /\ dq \in Seq(Nat) /\ Len(dq) = Len(hits[k]) - n /\ d \in Nat
      /\ \A i \in 1..Len(dq) : dq[i] = hits[k][n + i]
      /\ \A i \in 1..Len(dq) : dq[i] <= G[d + i] /\ G[d + i] <= dq[i] + Slack
      /\ \A i \in 1..d : G[i] + (Window - Slack) <= time
  <2>1. stamp[c] \in Nat /\ stamp[c] <= time /\ Popped(hits[k], stamp[c], n)
    BY <1>1
  <2>2. QED  BY <2>1, <1>2, AfterPop, Zenon
<1>4. /\ Limit \in Nat /\ Limit > 0 /\ Window \in Nat /\ Slack \in Nat /\ Slack <= Window
  BY WindowAssumption
<1>5. /\ stamp[c] \in Nat /\ stamp[c] <= time /\ time <= stamp[c] + Slack
  BY <1>1
<1>6. n < Len(hits[k]) => ~ (hits[k][n + 1] + Window <= stamp[c])
  BY <1>1 DEF Popped, Stale
<1>7. \/ Len(dq) < Limit /\ granted' = [granted EXCEPT ![k] = Append(@, time)]
                        /\ asks' = [asks EXCEPT ![c] = Yes]
      \/ Len(dq) >= Limit /\ asks' = [asks EXCEPT ![c] = No] /\ UNCHANGED granted
  BY <1>1
<1> HIDE DEF dq, d, G, k
<1>8. Len(dq) \in Nat /\ Len(G) \in Nat /\ d = Len(G) - Len(dq)
  BY <1>2, <1>3 DEF d
<1>9. CASE Len(dq) < Limit
  <2>1. ~ Crowded(k, Window - Slack)
    <3>1. SUFFICES ASSUME Len(G) >= Limit, G[Len(G) - Limit + 1] + (Window - Slack) > time
                   PROVE  FALSE
      BY DEF Crowded, G
    <3>2. Len(G) - Limit + 1 \in 1..d
      <4>1. ASSUME NEW l \in Nat, NEW m \in Nat, m < Limit, l >= Limit
            PROVE  l - Limit + 1 \in 1..(l - m)
        BY <4>1, <1>4
      <4>2. QED  BY <4>1, <3>1, <1>8, <1>9
    <3>3. G[Len(G) - Limit + 1] + (Window - Slack) <= time
      BY <3>2, <1>3
    <3>4. G[Len(G) - Limit + 1] \in Nat
      <4>1. Len(G) - Limit + 1 \in 1..Len(G)
        BY <3>1, <1>4, <1>8
      <4>2. QED  BY <4>1, <1>2
    <3>5. QED  BY <3>1, <3>3, <3>4, <1>2, <1>4
  <2>2. QED  BY <2>1, <1>2, <1>7, <1>8, <1>4, <1>9 DEF Grant, k
<1>10. CASE Len(dq) >= Limit
  <2>1. Len(dq) = Limit /\ n = 0
    <3>1. Len(hits[k]) <= Limit /\ Len(hits[k]) \in Nat /\ n \in Nat
      BY <1>2 DEF Inv, LimiterTypeOK
    <3>2. QED  BY <3>1, <1>3, <1>4, <1>10
  <2>2. Len(G) >= Limit /\ Len(G) - Limit + 1 = d + 1 /\ d + 1 \in 1..Len(G)
    BY <2>1, <1>3, <1>4, <1>8
  <2>3. 1 \in 1..Len(dq) /\ 1 \in 1..Len(hits[k]) /\ n < Len(hits[k])
    BY <2>1, <1>3, <1>4
  <2>4. dq[1] = hits[k][1] /\ hits[k][1] \in Nat /\ dq[1] <= G[d + 1] /\ G[d + 1] \in Nat
    <3>1. n + 1 = 1
      BY <2>1
    <3>2. hits[k][1] \in Nat
      BY <2>3, <1>2
    <3>3. G[d + 1] \in Nat
      BY <2>2, <1>2
    <3>4. QED  BY <3>1, <3>2, <3>3, <2>3, <1>3
  <2>5. ~ (hits[k][1] + Window <= stamp[c])
    <3>1. n + 1 = 1
      BY <2>1
    <3>2. QED  BY <3>1, <2>3, <1>6
  <2>6. G[d + 1] + (Window + Slack) > time
    <3>1. ASSUME NEW x \in Nat, NEW g \in Nat, x <= g, ~ (x + Window <= stamp[c])
          PROVE  g + (Window + Slack) > time
      BY <3>1, <1>2, <1>4, <1>5
    <3>2. QED  BY <3>1, <2>4, <2>5
  <2>7. Crowded(k, Window + Slack)
    BY <2>2, <2>6 DEF Crowded, G
  <2>8. ~ (Len(dq) < Limit)
    BY <2>1, <1>4
  <2>9. asks' = [asks EXCEPT ![c] = No] /\ UNCHANGED <<time, granted>>
    BY <2>8, <1>7, <1>2
  <2>10. QED  BY <2>7, <2>9, <1>2 DEF Deny, k
<1>11. QED  BY <1>4, <1>8, <1>9, <1>10

\* Every call of allow() is, from outside, a call of the sliding window.
THEOREM ImplementsWindow == LimiterSpec => RefinesWindow
<1>1. LimiterInit => WindowInit
  BY DEF LimiterInit
<1>2. Inv /\ [LimiterNext]_limiterVars => [WindowNext]_windowVars
  <2> SUFFICES ASSUME Inv, [LimiterNext]_limiterVars  PROVE [WindowNext]_windowVars
    OBVIOUS
  <2>1. CASE Tick
    BY <2>1 DEF Tick, WindowNext
  <2>2. CASE \E c \in Callers : \E k \in Keys : ReadClock(c, k)
    BY <2>2 DEF ReadClock, WindowNext
  <2>3. CASE \E c \in Callers : Decide(c)
    BY <2>3, DecideImplements, Zenon DEF WindowNext
  <2>4. CASE UNCHANGED limiterVars
    BY <2>4 DEF limiterVars, windowVars
  <2>5. QED  BY <2>1, <2>2, <2>3, <2>4 DEF LimiterNext
<1>3. QED  BY <1>1, <1>2, InvAlways, PTL DEF LimiterSpec, RefinesWindow, WindowSpec

-----------------------------------------------------------------------------
\* Accounts and sessions.
\* Visit r is where its kind has business, and is answered only once it is done.
Placed(r) ==
  /\ visit[r].pc # "done" => visit[r].status = 0
  /\ visit[r].began <= clock /\ visit[r].at <= clock
  /\ visit[r].pc \in {"admit", "lookup", "session"} => visit[r].kind \in {"signup", "login"}
  /\ visit[r].pc = "cleanup" => visit[r].kind = "login"
  /\ visit[r].pc \in {"hash", "user"} => visit[r].kind = "signup"
  /\ visit[r].pc = "end" => visit[r].kind = "logout"
  /\ visit[r].pc = "require" => visit[r].kind \in {"logout_all", "me"}
  /\ visit[r].pc = "end_all" => visit[r].kind = "logout_all"

\* What r asked for: unless it came to get one, its cookie is a token of a request
\* that was answered.
Carries(r) ==
  /\ visit[r].pc # "new" => visit[r].email \in Emails /\ visit[r].password \in Passwords
  /\ \A t \in visit[r].seen : TokenGiven(t)
  /\ visit[r].kind \in {"logout", "logout_all", "me"} /\ visit[r].pc # "new" =>
       visit[r].cookie \in Visits /\ TokenGiven(visit[r].cookie)

\* The account whose password request r has proved.
Proved(r) ==
  [user_id |-> visit[r].user_id, email |-> visit[r].email, password |-> visit[r].password]

\* If r is about to get a session, or has got one, it has an account by its password,
\* and a signup has the one it made.
Entitled(r) ==
  visit[r].pc = "session" \/ TokenGiven(r) =>
    /\ Proved(r) \in users
    /\ visit[r].kind = "signup" => visit[r].user_id = r

\* If r passed require_user it stands for the account its cookie was given to, by a
\* session that had not run out when r came.
LetIn(r) ==
  visit[r].pc = "end_all" \/ (visit[r].kind \in {"me", "logout_all"} /\ visit[r].status = 200) =>
    /\ visit[visit[r].cookie].user_id = visit[r].user_id
    /\ visit[r].began < session_expiry(visit[visit[r].cookie].at)

\* A row of sessions is what its token's request was given.
Given(s) ==
  /\ TokenGiven(s.token)
  /\ s.user_id = visit[s.token].user_id
  /\ s.expires_at = session_expiry(visit[s.token].at)

\* What request r revoked stays revoked (RevokedStaysRevoked says it of all).
Revoked(r) ==
  visit[r].status = 200 => \A s \in sessions :
    /\ visit[r].kind = "logout" => s.token # visit[r].cookie
    /\ visit[r].kind = "logout_all" =>
         ~ (s.token \in visit[r].seen /\ visit[s.token].user_id = visit[r].user_id)

AccountsInv ==
  /\ AccountsTypeOK
  /\ \A r \in Visits : Placed(r) /\ Carries(r) /\ Entitled(r) /\ LetIn(r) /\ Revoked(r)
  /\ \A s \in sessions : Given(s)
  /\ \A u, v \in users : u.email = v.email => u = v

-----------------------------------------------------------------------------
\* The rows of visit, one field at a time.
Places == {"new", "admit", "cleanup", "lookup", "hash", "user", "session",
           "end", "require", "end_all", "done"}

\* q asks for what p asked for.
Kept(p, q) ==
  /\ q.kind = p.kind /\ q.email = p.email /\ q.password = p.password
  /\ q.cookie = p.cookie /\ q.seen = p.seen /\ q.began = p.began

LEMMA WithPc ==
  ASSUME NEW p \in Visit, NEW x \in Places, NEW q, q = [p EXCEPT !.pc = x]
  PROVE  /\ q \in Visit /\ Kept(p, q)
         /\ q.pc = x /\ q.status = p.status /\ q.at = p.at /\ q.user_id = p.user_id
  BY DEF Visit, Kept, Places

LEMMA WithStatus ==
  ASSUME NEW p \in Visit, NEW x \in {0, 200, 400, 401, 409, 429, 500},
         NEW q, q = [p EXCEPT !.status = x]
  PROVE  /\ q \in Visit /\ Kept(p, q)
         /\ q.pc = p.pc /\ q.status = x /\ q.at = p.at /\ q.user_id = p.user_id
  BY DEF Visit, Kept

LEMMA WithAt ==
  ASSUME NEW p \in Visit, NEW x \in Nat, NEW q, q = [p EXCEPT !.at = x]
  PROVE  /\ q \in Visit /\ Kept(p, q)
         /\ q.pc = p.pc /\ q.status = p.status /\ q.at = x /\ q.user_id = p.user_id
  BY DEF Visit, Kept

LEMMA WithUser ==
  ASSUME NEW p \in Visit, NEW x \in Visits, NEW q, q = [p EXCEPT !.user_id = x]
  PROVE  /\ q \in Visit /\ Kept(p, q)
         /\ q.pc = p.pc /\ q.status = p.status /\ q.at = p.at /\ q.user_id = x
  BY DEF Visit, Kept

\* What a step on behalf of request r leaves alone: the other requests, and what r
\* asked for.
Turn(r) ==
  /\ visit' \in [Visits -> Visit]
  /\ \A x \in Visits \ {r} : visit'[x] = visit[x]
  /\ Kept(visit[r], visit'[r])

LEMMA KeptTwice ==
  ASSUME NEW p, NEW q, NEW s, Kept(p, q), Kept(q, s)  PROVE Kept(p, s)
  BY DEF Kept

LEMMA TurnOf ==
  ASSUME AccountsTypeOK, NEW r \in Visits, NEW q \in Visit, Kept(visit[r], q),
         visit' = [visit EXCEPT ![r] = q]
  PROVE  Turn(r) /\ visit'[r] = q
<1>1. visit \in [Visits -> Visit]
  BY DEF AccountsTypeOK
<1>2. visit'[r] = q /\ visit' \in [Visits -> Visit] /\ \A x \in Visits \ {r} : visit'[x] = visit[x]
  BY <1>1
<1>3. QED  BY <1>2 DEF Turn

LEMMA AnswerTurn ==
  ASSUME AccountsTypeOK, NEW r \in Visits, NEW st \in {0, 200, 400, 401, 409, 429, 500},
         Reply(r, st)
  PROVE  /\ Turn(r) /\ visit'[r].pc = "done" /\ visit'[r].status = st
         /\ visit'[r].at = visit[r].at /\ visit'[r].user_id = visit[r].user_id
<1> DEFINE q1 == [visit[r] EXCEPT !.pc = "done"]
           q  == [q1 EXCEPT !.status = st]
<1>1. visit[r] \in Visit /\ "done" \in Places
  BY DEF AccountsTypeOK, Places
<1>2. visit' = [visit EXCEPT ![r] = q]
  BY Zenon DEF Reply
<1>3. /\ q1 \in Visit /\ Kept(visit[r], q1) /\ q1.pc = "done"
      /\ q1.at = visit[r].at /\ q1.user_id = visit[r].user_id
  BY <1>1, WithPc
<1> HIDE DEF q1
<1>4. /\ q \in Visit /\ Kept(q1, q) /\ q.pc = q1.pc /\ q.status = st
      /\ q.at = q1.at /\ q.user_id = q1.user_id
  BY <1>3, WithStatus
<1> HIDE DEF q
<1>5. Kept(visit[r], q)
  BY <1>3, <1>4, KeptTwice
<1>6. q \in Visit
  BY <1>4
<1>7. Turn(r) /\ visit'[r] = q
  <2>1. Turn(r)
    BY <1>2, <1>5, <1>6, TurnOf
  <2>2. visit'[r] = q
    BY <1>2, <1>6 DEF AccountsTypeOK
  <2>3. QED  BY <2>1, <2>2
<1>8. QED  BY <1>3, <1>4, <1>7

LEMMA GoTurn ==
  ASSUME AccountsTypeOK, NEW r \in Visits, NEW p \in Places, GoTo(r, p)
  PROVE  /\ Turn(r) /\ visit'[r].pc = p /\ visit'[r].status = visit[r].status
         /\ visit'[r].at = visit[r].at /\ visit'[r].user_id = visit[r].user_id
<1> DEFINE q == [visit[r] EXCEPT !.pc = p]
<1>1. visit[r] \in Visit
  BY DEF AccountsTypeOK
<1>2. visit' = [visit EXCEPT ![r] = q]
  BY Zenon DEF GoTo
<1>3. /\ q \in Visit /\ Kept(visit[r], q) /\ q.pc = p /\ q.status = visit[r].status
      /\ q.at = visit[r].at /\ q.user_id = visit[r].user_id
  BY <1>1, WithPc
<1> HIDE DEF q
<1>4. Turn(r) /\ visit'[r] = q
  BY <1>2, <1>3, TurnOf
<1>5. QED  BY <1>3, <1>4

LEMMA GoAtTurn ==
  ASSUME AccountsTypeOK, NEW r \in Visits, NEW p \in Places, GoAt(r, p)
  PROVE  /\ Turn(r) /\ visit'[r].pc = p /\ visit'[r].status = visit[r].status
         /\ visit'[r].at = clock /\ visit'[r].user_id = visit[r].user_id
<1> DEFINE q1 == [visit[r] EXCEPT !.pc = p]
           q  == [q1 EXCEPT !.at = clock]
<1>1. visit[r] \in Visit /\ clock \in Nat
  BY DEF AccountsTypeOK
<1>2. visit' = [visit EXCEPT ![r] = q]
  BY Zenon DEF GoAt
<1>3. /\ q1 \in Visit /\ Kept(visit[r], q1) /\ q1.pc = p /\ q1.status = visit[r].status
      /\ q1.user_id = visit[r].user_id
  BY <1>1, WithPc
<1> HIDE DEF q1
<1>4. /\ q \in Visit /\ Kept(q1, q) /\ q.pc = q1.pc /\ q.status = q1.status
      /\ q.at = clock /\ q.user_id = q1.user_id
  BY <1>1, <1>3, WithAt
<1> HIDE DEF q
<1>5. Kept(visit[r], q)
  BY <1>3, <1>4, KeptTwice
<1>6. Turn(r) /\ visit'[r] = q
  BY <1>2, <1>4, <1>5, TurnOf
<1>7. QED  BY <1>3, <1>4, <1>6

LEMMA GoAsTurn ==
  ASSUME AccountsTypeOK, NEW r \in Visits, NEW p \in Places, NEW u \in Visits, GoAs(r, p, u)
  PROVE  /\ Turn(r) /\ visit'[r].pc = p /\ visit'[r].status = visit[r].status
         /\ visit'[r].at = clock /\ visit'[r].user_id = u
<1> DEFINE q1 == [visit[r] EXCEPT !.pc = p]
           q2 == [q1 EXCEPT !.user_id = u]
           q  == [q2 EXCEPT !.at = clock]
<1>1. visit[r] \in Visit /\ clock \in Nat
  BY DEF AccountsTypeOK
<1>2. visit' = [visit EXCEPT ![r] = q]
  BY Zenon DEF GoAs
<1>3. /\ q1 \in Visit /\ Kept(visit[r], q1) /\ q1.pc = p /\ q1.status = visit[r].status
  BY <1>1, WithPc
<1> HIDE DEF q1
<1>4. /\ q2 \in Visit /\ Kept(q1, q2) /\ q2.pc = q1.pc /\ q2.status = q1.status
      /\ q2.user_id = u
  BY <1>3, WithUser
<1> HIDE DEF q2
<1>5. /\ q \in Visit /\ Kept(q2, q) /\ q.pc = q2.pc /\ q.status = q2.status
      /\ q.at = clock /\ q.user_id = q2.user_id
  BY <1>1, <1>4, WithAt
<1> HIDE DEF q
<1>6. Kept(visit[r], q)
  BY <1>3, <1>4, <1>5, KeptTwice
<1>7. Turn(r) /\ visit'[r] = q
  BY <1>2, <1>5, <1>6, TurnOf
<1>8. QED  BY <1>3, <1>4, <1>5, <1>7

-----------------------------------------------------------------------------
\* An answered request never changes again.
LEMMA AnsweredStay ==
  ASSUME AccountsInv, NEW r \in Visits, Turn(r), visit[r].pc # "done"
  PROVE  /\ ~ TokenGiven(r)
         /\ \A t \in Visits : TokenGiven(t) => t # r /\ visit'[t] = visit[t] /\ TokenGiven(t)'
<1>1. visit[r].status = 0
  BY DEF AccountsInv, Placed
<1>2. QED  BY <1>1 DEF Turn, TokenGiven

\* A step of request r keeps the invariant if it keeps it about r: users only grow,
\* and a new session is one that r is answered with.
LEMMA TurnKeeps ==
  ASSUME AccountsInv, NEW r \in Visits, Turn(r), visit[r].pc \notin {"new", "done"},
         UNCHANGED clock, users \subseteq users', (users \subseteq User)',
         (\A u, v \in users : u.email = v.email => u = v)', (sessions \subseteq Session)',
         \A s \in sessions' : s \in sessions \/ (s.token = r /\ Given(s)'),
         (Placed(r) /\ Entitled(r) /\ LetIn(r) /\ Revoked(r))'
  PROVE  AccountsInv'
<1>1. visit[r].pc # "done"
  OBVIOUS
<1>2. /\ ~ TokenGiven(r)
      /\ \A t \in Visits : TokenGiven(t) => t # r /\ visit'[t] = visit[t] /\ TokenGiven(t)'
  BY <1>1, AnsweredStay
<1>3. \A s \in sessions : s.token \in Visits /\ Given(s)
  BY DEF AccountsInv, AccountsTypeOK, Session
<1>4. \A s \in sessions' : Given(s)'
  BY <1>2, <1>3 DEF Given
<1>5. AccountsTypeOK'
  BY DEF AccountsInv, AccountsTypeOK, Turn
<1>6. ASSUME NEW x \in Visits  PROVE (Placed(x) /\ Carries(x) /\ Entitled(x) /\ LetIn(x) /\ Revoked(x))'
  <2>1. CASE x = r
    <3>1. visit[r] \in Visit /\ Carries(r)
      BY DEF AccountsInv, AccountsTypeOK
    <3>2. visit[r].seen \subseteq Visits
      BY <3>1 DEF Visit
    <3>3. Carries(r)'
      BY <3>1, <3>2, <1>2 DEF Carries, Turn, Kept
    <3>4. QED  BY <2>1, <3>3
  <2>2. CASE x # r
    <3>1. visit'[x] = visit[x] /\ visit[x] \in Visit
      BY <2>2 DEF Turn, AccountsInv, AccountsTypeOK
    <3>2. Placed(x) /\ Carries(x) /\ Entitled(x) /\ LetIn(x) /\ Revoked(x)
      BY DEF AccountsInv
    <3>3. visit[x].seen \subseteq Visits
      BY <3>1 DEF Visit
    <3>4. Placed(x)' /\ Carries(x)'
      BY <3>1, <3>2, <3>3, <1>2 DEF Placed, Carries
    <3>5. Entitled(x)'
      BY <3>1, <3>2 DEF Entitled, TokenGiven, Proved
    <3>6. LetIn(x)'
      <4>1. SUFFICES ASSUME visit[x].pc = "end_all" \/ (visit[x].kind \in {"me", "logout_all"} /\ visit[x].status = 200)
                     PROVE  LetIn(x)'
        BY <3>1 DEF LetIn
      <4>2. visit[x].cookie \in Visits /\ TokenGiven(visit[x].cookie)
        BY <4>1, <3>2 DEF Placed, Carries
      <4>3. visit'[visit[x].cookie] = visit[visit[x].cookie]
        BY <4>2, <1>2
      <4>4. QED  BY <4>1, <4>3, <3>1, <3>2 DEF LetIn, session_expiry
    <3>7. Revoked(x)'
      <4>1. SUFFICES ASSUME visit[x].status = 200, NEW s \in sessions'
                     PROVE  /\ visit[x].kind = "logout" => s.token # visit[x].cookie
                            /\ visit[x].kind = "logout_all" =>
                                 ~ (s.token \in visit[x].seen /\ visit'[s.token].user_id = visit[x].user_id)
        BY <3>1 DEF Revoked
      <4>2. CASE s \in sessions
        <5>1. s.token \in Visits /\ visit'[s.token] = visit[s.token]
          BY <4>2, <1>2, <1>3 DEF Given
        <5>2. QED  BY <4>1, <4>2, <5>1, <3>2 DEF Revoked
      <4>3. CASE s.token = r
        <5>1. visit[x].kind = "logout" => visit[x].cookie # r
          BY <4>1, <3>2, <1>2 DEF Placed, Carries
        <5>2. r \notin visit[x].seen
          BY <3>2, <1>2 DEF Carries
        <5>3. QED  BY <4>3, <5>1, <5>2
      <4>4. QED  BY <4>2, <4>3
    <3>8. QED  BY <3>4, <3>5, <3>6, <3>7
  <2>3. QED  BY <2>1, <2>2
<1>7. QED  BY <1>4, <1>5, <1>6 DEF AccountsInv

\* A step of r that only moves it along, or answers it without letting it in.
LEMMA QuietKeeps ==
  ASSUME AccountsInv, NEW r \in Visits, Turn(r), visit[r].pc \notin {"new", "done"},
         UNCHANGED <<users, sessions, clock>>, visit'[r].status # 200,
         (Placed(r) /\ Entitled(r) /\ LetIn(r))'
  PROVE  AccountsInv'
<1>1. Revoked(r)'
  BY DEF Revoked
<1>2. (\A u, v \in users : u.email = v.email => u = v) /\ users \subseteq User /\ sessions \subseteq Session
  BY DEF AccountsInv, AccountsTypeOK
<1>3. users' = users /\ sessions' = sessions /\ clock' = clock
  OBVIOUS
<1>4. QED  BY <1>1, <1>2, <1>3, TurnKeeps

LEMMA FailKeeps ==
  ASSUME AccountsInv, NEW r \in Visits, NEW st \in {400, 401, 409, 429, 500}, Reply(r, st),
         visit[r].pc \notin {"new", "done"}, UNCHANGED <<users, sessions, clock>>
  PROVE  AccountsInv'
<1>1. AccountsTypeOK /\ Placed(r) /\ st \in {0, 200, 400, 401, 409, 429, 500} /\ st # 200
  BY DEF AccountsInv
<1>2. /\ Turn(r) /\ visit'[r].pc = "done" /\ visit'[r].status = st
      /\ visit'[r].at = visit[r].at /\ visit'[r].user_id = visit[r].user_id
  BY <1>1, AnswerTurn
<1>3. Placed(r)'
  BY <1>1, <1>2 DEF Placed, Turn, Kept
<1>4. Entitled(r)' /\ LetIn(r)'
  BY <1>1, <1>2 DEF Entitled, LetIn, TokenGiven
<1>5. QED  BY <1>1, <1>2, <1>3, <1>4, QuietKeeps

\* A request that goes on to a place where nothing is proved about it yet.
LEMMA GoKeeps ==
  ASSUME AccountsInv, NEW r \in Visits, NEW p \in {"cleanup", "lookup", "hash", "user"},
         Turn(r), visit'[r].pc = p, visit'[r].status = visit[r].status, visit'[r].at \in {visit[r].at, clock},
         visit[r].pc \notin {"new", "done"}, UNCHANGED <<users, sessions, clock>>,
         p = "lookup" => visit[r].kind \in {"signup", "login"},
         p = "cleanup" => visit[r].kind = "login",
         p \in {"hash", "user"} => visit[r].kind = "signup"
  PROVE  AccountsInv'
<1>1. Placed(r) /\ clock \in Nat
  BY DEF AccountsInv, AccountsTypeOK
<1>2. visit[r].status = 0
  BY <1>1 DEF Placed
<1>3. Placed(r)'
  BY <1>1, <1>2 DEF Placed, Turn, Kept
<1>4. Entitled(r)' /\ LetIn(r)'
  BY <1>2 DEF Entitled, LetIn, TokenGiven
<1>5. QED  BY <1>2, <1>3, <1>4, QuietKeeps

-----------------------------------------------------------------------------
LEMMA InvAdmit ==
  ASSUME AccountsInv, NEW r \in Visits, Admit(r)  PROVE AccountsInv'
<1>1. AccountsTypeOK /\ Placed(r) /\ visit[r].pc = "admit" /\ visit[r].kind \in {"signup", "login"}
  BY DEF AccountsInv, Admit, StandsAt, Placed
<1>2. CASE \E st \in {429, 400} : Reply(r, st)
  BY <1>1, <1>2, FailKeeps DEF Admit
<1>3. CASE GoTo(r, "lookup")
  <2>1. "lookup" \in Places
    BY DEF Places
  <2>2. QED  BY <2>1, <1>1, <1>3, GoTurn, GoKeeps DEF Admit
<1>4. CASE visit[r].kind = "login" /\ GoAt(r, "cleanup")
  <2>1. "cleanup" \in Places
    BY DEF Places
  <2>2. QED  BY <2>1, <1>1, <1>4, GoAtTurn, GoKeeps DEF Admit
<1>5. QED  BY <1>2, <1>3, <1>4 DEF Admit

LEMMA InvCleanup ==
  ASSUME AccountsInv, NEW r \in Visits, Cleanup(r)  PROVE AccountsInv'
<1>1. AccountsTypeOK /\ Placed(r) /\ visit[r].pc = "cleanup" /\ visit[r].kind = "login" /\ visit[r].status = 0
  BY DEF AccountsInv, Cleanup, StandsAt, Placed
<1>2. "lookup" \in Places
  BY DEF Places
<1>3. /\ Turn(r) /\ visit'[r].pc = "lookup" /\ visit'[r].status = 0 /\ visit'[r].at = visit[r].at
  BY <1>1, <1>2, GoTurn DEF Cleanup
<1>4. UNCHANGED <<users, clock>> /\ sessions' \subseteq sessions
  BY DEF Cleanup, delete_expired_sessions
<1>5. Placed(r)' /\ Entitled(r)' /\ LetIn(r)' /\ Revoked(r)'
  BY <1>1, <1>3, <1>4 DEF Placed, Turn, Kept, Entitled, LetIn, Revoked, TokenGiven
<1>6. (\A u, v \in users : u.email = v.email => u = v) /\ users \subseteq User /\ sessions \subseteq Session
  BY DEF AccountsInv, AccountsTypeOK
<1>7. QED  BY <1>1, <1>3, <1>4, <1>5, <1>6, TurnKeeps

LEMMA InvSignupLookup ==
  ASSUME AccountsInv, NEW r \in Visits, SignupLookup(r)  PROVE AccountsInv'
<1>1. AccountsTypeOK /\ visit[r].pc = "lookup" /\ visit[r].kind = "signup"
  BY DEF AccountsInv, SignupLookup, StandsAt
<1>2. CASE Reply(r, 409)
  BY <1>1, <1>2, FailKeeps DEF SignupLookup
<1>3. CASE GoAt(r, "hash")
  <2>1. "hash" \in Places
    BY DEF Places
  <2>2. QED  BY <2>1, <1>1, <1>3, GoAtTurn, GoKeeps DEF SignupLookup
<1>4. QED  BY <1>2, <1>3 DEF SignupLookup

LEMMA InvHash ==
  ASSUME AccountsInv, NEW r \in Visits, Hash(r)  PROVE AccountsInv'
<1>1. AccountsTypeOK /\ visit[r].pc = "hash" /\ visit[r].kind = "signup"
  BY DEF AccountsInv, Hash, StandsAt, Placed
<1>2. CASE Reply(r, 500)
  BY <1>1, <1>2, FailKeeps DEF Hash
<1>3. CASE GoTo(r, "user")
  <2>1. "user" \in Places
    BY DEF Places
  <2>2. QED  BY <2>1, <1>1, <1>3, GoTurn, GoKeeps DEF Hash
<1>4. QED  BY <1>2, <1>3 DEF Hash

LEMMA InvRaise ==
  ASSUME AccountsInv, NEW r \in Visits, StoreRaises(r)  PROVE AccountsInv'
  BY FailKeeps DEF StoreRaises

LEMMA InvLoginLookup ==
  ASSUME AccountsInv, NEW r \in Visits, LoginLookup(r)  PROVE AccountsInv'
<1>1. /\ AccountsTypeOK /\ Placed(r) /\ visit[r].pc = "lookup" /\ visit[r].kind = "login"
      /\ visit[r].status = 0 /\ clock \in Nat /\ users \subseteq User
      /\ UNCHANGED <<users, sessions, clock>>
  BY DEF AccountsInv, AccountsTypeOK, LoginLookup, StandsAt, Placed
<1>2. CASE Reply(r, 401)
  BY <1>1, <1>2, FailKeeps
<1>3. ASSUME NEW u \in get_user_by_email(visit[r].email), verify_password(visit[r].password, u),
             GoAs(r, "session", u.user_id)
      PROVE  AccountsInv'
  <2>1. u \in users /\ u.email = visit[r].email /\ u.password = visit[r].password
    BY <1>3 DEF get_user_by_email, verify_password
  <2>2. "session" \in Places /\ u \in User /\ u.user_id \in Visits
    BY <1>1, <2>1 DEF Places, User
  <2>3. /\ Turn(r) /\ visit'[r].pc = "session" /\ visit'[r].status = 0
        /\ visit'[r].at = clock /\ visit'[r].user_id = u.user_id
    BY <1>1, <1>3, <2>2, GoAsTurn
  <2>4. Placed(r)' /\ LetIn(r)'
    BY <1>1, <2>3 DEF Placed, Turn, Kept, LetIn
  <2>5. u = [user_id |-> u.user_id, email |-> u.email, password |-> u.password]
    BY <2>2 DEF User
  <2>6. Entitled(r)'
    BY <1>1, <2>1, <2>3, <2>5 DEF Entitled, Proved, Turn, Kept
  <2>7. QED  BY <1>1, <2>3, <2>4, <2>6, QuietKeeps
<1>4. QED  BY <1>2, <1>3 DEF LoginLookup

LEMMA InvCreateUser ==
  ASSUME AccountsInv, NEW r \in Visits, create_user(r)  PROVE AccountsInv'
<1>1. /\ AccountsTypeOK /\ Placed(r) /\ visit[r].pc = "user" /\ visit[r].kind = "signup"
      /\ visit[r].status = 0 /\ visit[r] \in Visit /\ UNCHANGED <<sessions, clock>>
      /\ visit[r].email \in Emails /\ visit[r].password \in Passwords
      /\ users \subseteq User /\ sessions \subseteq Session
  BY DEF AccountsInv, AccountsTypeOK, create_user, StandsAt, Placed, Carries
<1>2. CASE Reply(r, 500) /\ UNCHANGED users
  BY <1>1, <1>2, FailKeeps
<1>3. CASE EmailFree(visit[r].email)
  <2> DEFINE q1 == [visit[r] EXCEPT !.pc = "session"]
             q  == [q1 EXCEPT !.user_id = r]
             u  == [user_id |-> r, email |-> visit[r].email, password |-> visit[r].password]
  <2>1. "session" \in Places
    BY DEF Places
  <2>2. visit' = [visit EXCEPT ![r] = q] /\ users' = users \cup {u}
    BY <1>3, Zenon DEF create_user
  <2>3. u.email = visit[r].email
    OBVIOUS
  <2>4. /\ q1 \in Visit /\ Kept(visit[r], q1) /\ q1.pc = "session"
        /\ q1.status = visit[r].status /\ q1.at = visit[r].at
    BY <1>1, <2>1, WithPc
  <2> HIDE DEF q1
  <2>5. /\ q \in Visit /\ Kept(q1, q) /\ q.pc = q1.pc /\ q.status = q1.status
        /\ q.at = q1.at /\ q.user_id = r
    BY <2>4, WithUser
  <2> HIDE DEF q
  <2>6. Kept(visit[r], q)
    BY <2>4, <2>5, KeptTwice
  <2>7. Turn(r) /\ visit'[r] = q
    BY <1>1, <2>2, <2>5, <2>6, TurnOf
  <2>8. Placed(r)' /\ LetIn(r)' /\ Revoked(r)'
    BY <1>1, <2>4, <2>5, <2>7 DEF Placed, Turn, Kept, LetIn, Revoked
  <2>9. Proved(r)' = u
    BY <2>5, <2>7 DEF Proved, Turn, Kept
  <2> HIDE DEF u
  <2>10. Entitled(r)'
    BY <2>2, <2>5, <2>7, <2>9 DEF Entitled
  <2>11. u \in User
    BY <1>1 DEF User, u
  <2>12. \A a, b \in users' : a.email = b.email => a = b
    <3>1. \A a, b \in users : a.email = b.email => a = b
      BY DEF AccountsInv
    <3>2. \A a \in users : a.email # u.email
      BY <1>3, <2>3 DEF EmailFree, u
    <3>3. QED  BY <3>1, <3>2, <2>2
  <2>13. users \subseteq users' /\ users' \subseteq User
    BY <1>1, <2>2, <2>11
  <2>14. QED  BY <1>1, <2>7, <2>8, <2>10, <2>12, <2>13, TurnKeeps
<1>4. QED  BY <1>2, <1>3 DEF create_user

LEMMA InvCreateSession ==
  ASSUME AccountsInv, NEW r \in Visits, create_session(r)  PROVE AccountsInv'
<1> SUFFICES ASSUME NEW s, s = [token |-> r, user_id |-> visit[r].user_id,
                                expires_at |-> session_expiry(visit[r].at)]
             PROVE  AccountsInv'
  OBVIOUS
<1>1. /\ AccountsTypeOK /\ Placed(r) /\ Entitled(r) /\ visit[r].pc = "session"
      /\ visit[r].kind \in {"signup", "login"}
      /\ UNCHANGED <<users, clock>> /\ users \subseteq User /\ sessions \subseteq Session
      /\ \A u, v \in users : u.email = v.email => u = v
  BY DEF AccountsInv, AccountsTypeOK, create_session, StandsAt, Placed
<1>2. /\ Turn(r) /\ visit'[r].pc = "done" /\ visit'[r].status = 200
      /\ visit'[r].at = visit[r].at /\ visit'[r].user_id = visit[r].user_id
  BY <1>1, AnswerTurn DEF create_session
<1>3. sessions' = sessions \cup {s}
  BY DEF create_session
<1>4. Placed(r)' /\ LetIn(r)' /\ Revoked(r)' /\ TokenGiven(r)'
  BY <1>1, <1>2 DEF Placed, Turn, Kept, LetIn, Revoked, TokenGiven
<1>5. Proved(r)' = Proved(r)
  BY <1>2 DEF Proved, Turn, Kept
<1>6. Entitled(r)'
  BY <1>1, <1>2, <1>5 DEF Entitled, Turn, Kept
<1>7. Proved(r) \in User
  BY <1>1 DEF Entitled
<1>8. s \in Session
  <2>1. visit[r].user_id \in Visits
    <3>1. Proved(r).user_id \in Visits
      BY <1>7 DEF User
    <3>2. QED  BY <3>1 DEF Proved
  <2>2. session_expiry(visit[r].at) \in Nat
    BY AccountsAssumption, <1>1 DEF AccountsTypeOK, Visit, session_expiry
  <2>3. QED  BY <2>1, <2>2 DEF Session
<1>9. s.token = r /\ Given(s)'
  BY <1>2, <1>4 DEF Given, session_expiry
<1>10. sessions' \subseteq Session
  BY <1>1, <1>3, <1>8
<1>11. \A x \in sessions' : x \in sessions \/ (x.token = r /\ Given(x)')
  BY <1>3, <1>9
<1>12. QED  BY <1>1, <1>2, <1>4, <1>6, <1>10, <1>11, TurnKeeps

LEMMA InvDeleteSession ==
  ASSUME AccountsInv, NEW r \in Visits, delete_session(r)  PROVE AccountsInv'
<1>1. /\ AccountsTypeOK /\ Placed(r) /\ visit[r].pc = "end" /\ visit[r].kind = "logout"
      /\ UNCHANGED <<users, clock>> /\ users \subseteq User /\ sessions \subseteq Session
      /\ \A u, v \in users : u.email = v.email => u = v
  BY DEF AccountsInv, AccountsTypeOK, delete_session, StandsAt, Placed
<1>2. /\ Turn(r) /\ visit'[r].pc = "done" /\ visit'[r].status = 200
      /\ visit'[r].at = visit[r].at /\ visit'[r].user_id = visit[r].user_id
  BY <1>1, AnswerTurn DEF delete_session
<1>3. sessions' = {s \in sessions : s.token # visit[r].cookie}
  BY DEF delete_session
<1>4. Placed(r)' /\ LetIn(r)' /\ Entitled(r)'
  BY <1>1, <1>2 DEF Placed, Turn, Kept, LetIn, Entitled, TokenGiven
<1>5. Revoked(r)'
  BY <1>1, <1>2, <1>3 DEF Revoked, Turn, Kept
<1>6. QED  BY <1>1, <1>2, <1>3, <1>4, <1>5, TurnKeeps

LEMMA InvDeleteUserSessions ==
  ASSUME AccountsInv, NEW r \in Visits, delete_user_sessions(r)  PROVE AccountsInv'
<1>1. /\ AccountsTypeOK /\ Placed(r) /\ Carries(r) /\ LetIn(r)
      /\ visit[r].pc = "end_all" /\ visit[r].kind = "logout_all"
      /\ UNCHANGED <<users, clock>> /\ users \subseteq User /\ sessions \subseteq Session
      /\ \A u, v \in users : u.email = v.email => u = v
      /\ \A s \in sessions : Given(s) /\ s.token \in Visits
  BY DEF AccountsInv, AccountsTypeOK, delete_user_sessions, StandsAt, Placed, Session
<1>2. /\ Turn(r) /\ visit'[r].pc = "done" /\ visit'[r].status = 200
      /\ visit'[r].at = visit[r].at /\ visit'[r].user_id = visit[r].user_id
  BY <1>1, AnswerTurn DEF delete_user_sessions
<1>3. \A s \in sessions' : s \in sessions /\ s.user_id # visit[r].user_id
  BY DEF delete_user_sessions, UserSessions
<1>4. Placed(r)' /\ Entitled(r)'
  BY <1>1, <1>2 DEF Placed, Turn, Kept, Entitled, TokenGiven
<1>5. \A t \in Visits : TokenGiven(t) => visit'[t] = visit[t]
  BY <1>1, <1>2, AnsweredStay
<1>6. LetIn(r)'
  <2>1. visit[r].cookie \in Visits /\ visit'[visit[r].cookie] = visit[visit[r].cookie]
    BY <1>1, <1>5 DEF Carries
  <2>2. QED  BY <1>1, <1>2, <2>1 DEF LetIn, Turn, Kept, session_expiry
<1>7. Revoked(r)'
  <2>1. \A s \in sessions' : visit'[s.token].user_id # visit[r].user_id
    BY <1>1, <1>3, <1>5 DEF Given
  <2>2. QED  BY <1>1, <1>2, <2>1 DEF Revoked, Turn, Kept
<1>8. QED  BY <1>1, <1>2, <1>3, <1>4, <1>6, <1>7, TurnKeeps

LEMMA InvRequireUser ==
  ASSUME AccountsInv, NEW r \in Visits, require_user(r)  PROVE AccountsInv'
<1>1. /\ AccountsTypeOK /\ Placed(r) /\ Carries(r) /\ visit[r].pc = "require"
      /\ visit[r].kind \in {"logout_all", "me"} /\ visit[r].status = 0 /\ visit[r] \in Visit
      /\ UNCHANGED <<users, sessions, clock>> /\ clock \in Nat /\ visit[r].began <= clock
      /\ visit[r].cookie \in Visits /\ TokenGiven(visit[r].cookie)
  BY DEF AccountsInv, AccountsTypeOK, require_user, StandsAt, Placed, Carries
<1>2. CASE Reply(r, 401)
  BY <1>1, <1>2, FailKeeps
<1>3. ASSUME NEW u \in SessionUser(visit[r].cookie)
      PROVE  /\ u \in Visits /\ u = visit[visit[r].cookie].user_id
             /\ visit[r].began < session_expiry(visit[visit[r].cookie].at)
  <2>1. PICK s \in sessions : s.token = visit[r].cookie /\ ~ expired(clock, s) /\ u = s.user_id
    BY DEF SessionUser
  <2>2. Given(s) /\ s \in Session
    BY <2>1 DEF AccountsInv, AccountsTypeOK
  <2>3. s.user_id \in Visits /\ s.expires_at \in Nat /\ visit[r].began \in Nat
    BY <1>1, <2>2 DEF Session, Visit
  <2>4. clock < s.expires_at
    BY <1>1, <2>1, <2>3 DEF expired
  <2>5. visit[r].began < s.expires_at
    BY <1>1, <2>3, <2>4
  <2>6. QED  BY <2>1, <2>2, <2>3, <2>5 DEF Given
<1>4. ASSUME Turn(r), NEW u \in SessionUser(visit[r].cookie), visit'[r].user_id = u
      PROVE  LetIn(r)'
  <2>1. visit'[visit[r].cookie] = visit[visit[r].cookie]
    BY <1>1, <1>4, AnsweredStay
  <2>2. QED  BY <1>3, <1>4, <2>1 DEF LetIn, Turn, Kept, session_expiry
<1>5. ASSUME NEW u \in SessionUser(visit[r].cookie), visit[r].kind # "me", GoAs(r, "end_all", u)
      PROVE  AccountsInv'
  <2>1. "end_all" \in Places /\ u \in Visits
    BY <1>3 DEF Places
  <2>2. /\ Turn(r) /\ visit'[r].pc = "end_all" /\ visit'[r].status = 0
        /\ visit'[r].at = clock /\ visit'[r].user_id = u
    BY <1>1, <1>5, <2>1, GoAsTurn
  <2>3. Placed(r)' /\ Entitled(r)'
    BY <1>1, <1>5, <2>2 DEF Placed, Turn, Kept, Entitled, TokenGiven
  <2>4. LetIn(r)'
    BY <1>4, <2>2
  <2>5. QED  BY <1>1, <2>2, <2>3, <2>4, QuietKeeps
<1>6. ASSUME NEW u \in SessionUser(visit[r].cookie), visit[r].kind = "me",
             visit' = [visit EXCEPT ![r] = [@ EXCEPT !.pc = "done", !.status = 200, !.user_id = u]]
      PROVE  AccountsInv'
  <2> DEFINE q1 == [visit[r] EXCEPT !.pc = "done"]
             q2 == [q1 EXCEPT !.status = 200]
             q  == [q2 EXCEPT !.user_id = u]
  <2>1. "done" \in Places /\ u \in Visits
    BY <1>3 DEF Places
  <2>2. visit' = [visit EXCEPT ![r] = q]
    BY <1>6, Zenon
  <2>3. /\ q1 \in Visit /\ Kept(visit[r], q1) /\ q1.pc = "done" /\ q1.at = visit[r].at
    BY <1>1, <2>1, WithPc
  <2> HIDE DEF q1
  <2>4. /\ q2 \in Visit /\ Kept(q1, q2) /\ q2.pc = q1.pc /\ q2.at = q1.at /\ q2.status = 200
    BY <2>3, WithStatus
  <2> HIDE DEF q2
  <2>5. /\ q \in Visit /\ Kept(q2, q) /\ q.pc = q2.pc /\ q.at = q2.at
        /\ q.status = q2.status /\ q.user_id = u
    BY <2>1, <2>4, WithUser
  <2> HIDE DEF q
  <2>6. Kept(visit[r], q)
    BY <2>3, <2>4, <2>5, KeptTwice
  <2>7. Turn(r) /\ visit'[r] = q
    BY <1>1, <2>2, <2>5, <2>6, TurnOf
  <2>8. Placed(r)' /\ Entitled(r)' /\ Revoked(r)'
    BY <1>1, <1>6, <2>3, <2>4, <2>5, <2>7 DEF Placed, Turn, Kept, Entitled, TokenGiven, Revoked
  <2>9. LetIn(r)'
    BY <1>4, <2>5, <2>7
  <2>10. /\ \A a, b \in users : a.email = b.email => a = b
         /\ users \subseteq User /\ sessions \subseteq Session
    BY DEF AccountsInv, AccountsTypeOK
  <2>11. QED  BY <1>1, <2>7, <2>8, <2>9, <2>10, TurnKeeps
<1>7. QED  BY <1>2, <1>5, <1>6 DEF require_user

\* A request begins: it is not yet anybody.
LEMMA InvBegin ==
  ASSUME AccountsInv, NEW r \in Visits, Submit(r)  PROVE AccountsInv'
<1>1. /\ AccountsTypeOK /\ Placed(r) /\ visit[r].pc = "new" /\ visit[r].status = 0
      /\ visit \in [Visits -> Visit] /\ visit[r] \in Visit /\ clock \in Nat
      /\ UNCHANGED <<users, sessions, clock>>
  BY DEF AccountsInv, AccountsTypeOK, Submit, StandsAt, Placed
<1>2. PICK k \in {"signup", "login", "logout", "logout_all", "me"}, e \in Emails, p \in Passwords,
           t \in {None} \cup {x \in Visits : TokenGiven(x)} :
        /\ k \in {"signup", "login"} <=> t = None
        /\ visit' = [visit EXCEPT ![r] =
                    [pc |-> CASE k \in {"signup", "login"} -> "admit"
                              [] k = "logout" -> "end"
                              [] OTHER -> "require",
                     kind |-> k, email |-> e, password |-> p, cookie |-> t, user_id |-> None,
                     at |-> 0, began |-> clock, seen |-> {x \in Visits : TokenGiven(x)},
                     status |-> 0]]
  BY Zenon DEF Submit
<1> DEFINE place == CASE k \in {"signup", "login"} -> "admit" [] k = "logout" -> "end" [] OTHER -> "require"
<1>3. /\ place \in {"admit", "end", "require"}
      /\ place = "admit" => k \in {"signup", "login"}
      /\ place = "end" => k = "logout"
      /\ place = "require" => k \in {"logout_all", "me"}
  OBVIOUS
<1> DEFINE told == {x \in Visits : TokenGiven(x)}
           row  == [pc |-> place, kind |-> k, email |-> e, password |-> p, cookie |-> t,
                    user_id |-> None, at |-> 0, began |-> clock, seen |-> told, status |-> 0]
<1>4. visit' = [visit EXCEPT ![r] = row]
  BY <1>2, Zenon
<1>5. SUFFICES ASSUME NEW pc, pc = place, NEW seen, seen = told, NEW q, q = row
             PROVE  AccountsInv'
  OBVIOUS
<1>6. /\ q = [pc |-> pc, kind |-> k, email |-> e, password |-> p, cookie |-> t, user_id |-> None,
              at |-> 0, began |-> clock, seen |-> seen, status |-> 0]
      /\ seen = {x \in Visits : TokenGiven(x)}
      /\ visit' = [visit EXCEPT ![r] = q]
  BY <1>4, <1>5, Zenon
<1>7. /\ pc \in {"admit", "end", "require"}
      /\ pc = "admit" => k \in {"signup", "login"}
      /\ pc = "end" => k = "logout"
      /\ pc = "require" => k \in {"logout_all", "me"}
  BY <1>3, <1>5, Zenon
<1> HIDE DEF place, told, row
<1>8. seen \subseteq Visits
  BY <1>6
<1>9. /\ q.pc = pc /\ q.kind = k /\ q.email = e /\ q.password = p /\ q.cookie = t
      /\ q.user_id = None /\ q.at = 0 /\ q.began = clock /\ q.seen = seen /\ q.status = 0
  BY <1>6
<1>10. q \in Visit
  BY <1>1, <1>2, <1>6, <1>7, <1>8 DEF Visit
<1>11. visit' \in [Visits -> Visit] /\ visit'[r] = q /\ \A x \in Visits \ {r} : visit'[x] = visit[x]
  BY <1>1, <1>6, <1>10
<1>12. ~ TokenGiven(r) /\ \A x \in Visits : TokenGiven(x) => x # r /\ visit'[x] = visit[x] /\ TokenGiven(x)'
  BY <1>1, <1>11 DEF TokenGiven
<1>13. AccountsTypeOK'
  BY <1>1, <1>11 DEF AccountsTypeOK
<1>14. \A s \in sessions' : Given(s)'
  <2>1. \A s \in sessions : s.token \in Visits /\ Given(s)
    BY DEF AccountsInv, AccountsTypeOK, Session
  <2>2. QED  BY <1>1, <1>12, <2>1 DEF Given
<1>15. Placed(r)' /\ Entitled(r)' /\ LetIn(r)' /\ Revoked(r)'
  BY <1>1, <1>2, <1>7, <1>9, <1>11 DEF Placed, Entitled, TokenGiven, LetIn, Revoked
<1>16. Carries(r)'
  <2>1. \A x \in seen : TokenGiven(x)'
    BY <1>6, <1>12
  <2>2. k \in {"logout", "logout_all", "me"} => t \in Visits /\ TokenGiven(t)'
    BY <1>2, <1>12
  <2>3. QED  BY <1>2, <1>9, <1>11, <2>1, <2>2 DEF Carries
<1>17. ASSUME NEW x \in Visits, x # r
       PROVE  (Placed(x) /\ Carries(x) /\ Entitled(x) /\ LetIn(x) /\ Revoked(x))'
  <2>1. Placed(x) /\ Carries(x) /\ Entitled(x) /\ LetIn(x) /\ Revoked(x)
    BY DEF AccountsInv
  <2>2. visit'[x] = visit[x] /\ visit[x].seen \subseteq Visits
    BY <1>11, <1>17, <1>1 DEF Visit
  <2>3. Placed(x)' /\ Carries(x)' /\ Entitled(x)'
    BY <1>1, <1>12, <2>1, <2>2 DEF Placed, Carries, Entitled, TokenGiven, Proved
  <2>4. LetIn(x)'
    <3>1. SUFFICES ASSUME visit[x].pc = "end_all" \/ (visit[x].kind \in {"me", "logout_all"} /\ visit[x].status = 200)
                   PROVE  LetIn(x)'
      BY <2>2 DEF LetIn
    <3>2. visit[x].cookie \in Visits /\ TokenGiven(visit[x].cookie)
      BY <3>1, <2>1 DEF Placed, Carries
    <3>3. visit'[visit[x].cookie] = visit[visit[x].cookie]
      BY <3>2, <1>12
    <3>4. QED  BY <3>1, <3>3, <1>1, <2>1, <2>2 DEF LetIn, session_expiry
  <2>5. Revoked(x)'
    <3>1. \A s \in sessions : s.token \in Visits /\ visit'[s.token] = visit[s.token]
      BY <1>12 DEF AccountsInv, AccountsTypeOK, Session, Given
    <3>2. QED  BY <1>1, <2>1, <2>2, <3>1 DEF Revoked
  <2>6. QED  BY <2>3, <2>4, <2>5
<1>18. (\A u, v \in users : u.email = v.email => u = v)'
  BY <1>1 DEF AccountsInv
<1>19. \A x \in Visits : (Placed(x) /\ Carries(x) /\ Entitled(x) /\ LetIn(x) /\ Revoked(x))'
  BY <1>15, <1>16, <1>17
<1>20. QED  BY <1>13, <1>14, <1>18, <1>19 DEF AccountsInv

\* The process dies: whoever was not answered never is, and nothing is lost.
LEMMA InvRestart == AccountsInv /\ ServerDies => AccountsInv'
<1> SUFFICES ASSUME AccountsInv, ServerDies  PROVE AccountsInv'
  OBVIOUS
<1>1. /\ visit \in [Visits -> Visit] /\ UNCHANGED <<users, sessions, clock>>
      /\ AccountsTypeOK
      /\ visit' = [r \in Visits |-> IF visit[r].pc = "new" THEN visit[r] ELSE [visit[r] EXCEPT !.pc = "done"]]
  BY DEF AccountsInv, AccountsTypeOK, ServerDies, StandsAt
<1>2. ASSUME NEW r \in Visits
      PROVE  /\ visit'[r] \in Visit /\ Kept(visit[r], visit'[r])
             /\ visit'[r].pc \in {visit[r].pc, "done"} /\ (visit'[r].pc = "new" <=> visit[r].pc = "new")
             /\ visit'[r].status = visit[r].status
             /\ visit'[r].at = visit[r].at /\ visit'[r].user_id = visit[r].user_id
  <2>1. CASE visit[r].pc = "new"
    <3>1. visit'[r] = visit[r]
      BY <1>1, <2>1
    <3>2. QED  BY <1>1, <3>1 DEF Kept
  <2>2. CASE visit[r].pc # "new"
    <3> DEFINE q == [visit[r] EXCEPT !.pc = "done"]
    <3>1. visit'[r] = q
      BY <1>1, <2>2
    <3>2. visit[r] \in Visit /\ "done" \in Places
      BY <1>1 DEF Places
    <3>3. /\ q \in Visit /\ Kept(visit[r], q) /\ q.pc = "done" /\ q.status = visit[r].status
          /\ q.at = visit[r].at /\ q.user_id = visit[r].user_id
      BY <3>2, WithPc
    <3> HIDE DEF q
    <3>4. QED  BY <2>2, <3>1, <3>3
  <2>3. QED  BY <2>1, <2>2
<1>3. visit' \in [Visits -> Visit]
  BY <1>1, <1>2
<1>4. \A x \in Visits : TokenGiven(x) <=> TokenGiven(x)'
  BY <1>2 DEF TokenGiven, Kept
<1>5. AccountsTypeOK'
  BY <1>1, <1>3 DEF AccountsTypeOK
<1>6. \A s \in sessions' : Given(s)'
  <2>1. \A s \in sessions : s.token \in Visits /\ Given(s)
    BY DEF AccountsInv, AccountsTypeOK, Session
  <2>2. QED  BY <1>1, <1>2, <1>4, <2>1 DEF Given, session_expiry
<1>7. ASSUME NEW x \in Visits
      PROVE  (Placed(x) /\ Carries(x) /\ Entitled(x) /\ LetIn(x) /\ Revoked(x))'
  <2>1. Placed(x) /\ Carries(x) /\ Entitled(x) /\ LetIn(x) /\ Revoked(x)
    BY DEF AccountsInv
  <2>2. /\ Kept(visit[x], visit'[x]) /\ visit[x].seen \subseteq Visits
        /\ visit'[x].pc \in {visit[x].pc, "done"} /\ (visit'[x].pc = "new" <=> visit[x].pc = "new")
        /\ visit'[x].status = visit[x].status
        /\ visit'[x].at = visit[x].at /\ visit'[x].user_id = visit[x].user_id
    BY <1>1, <1>2 DEF Visit
  <2>3. Placed(x)'
    BY <1>1, <2>1, <2>2 DEF Placed, Kept
  <2>4. Carries(x)'
    BY <1>4, <2>1, <2>2 DEF Carries, Kept
  <2>5. Entitled(x)'
    BY <1>1, <1>4, <2>1, <2>2 DEF Entitled, Proved, Kept
  <2>6. LetIn(x)'
    <3>1. SUFFICES ASSUME visit[x].pc = "end_all" \/ (visit[x].kind \in {"me", "logout_all"} /\ visit[x].status = 200)
                   PROVE  LetIn(x)'
      BY <2>2 DEF LetIn, Kept
    <3>2. visit[x].cookie \in Visits
      BY <3>1, <2>1 DEF Placed, Carries
    <3>3. /\ visit'[visit[x].cookie].user_id = visit[visit[x].cookie].user_id
          /\ visit'[visit[x].cookie].at = visit[visit[x].cookie].at
      BY <1>2, <3>2
    <3>4. QED  BY <1>1, <2>1, <2>2, <3>1, <3>3 DEF LetIn, Kept, session_expiry
  <2>7. Revoked(x)'
    <3>1. \A s \in sessions : visit'[s.token].user_id = visit[s.token].user_id
      BY <1>2 DEF AccountsInv, AccountsTypeOK, Session
    <3>2. QED  BY <1>1, <2>1, <2>2, <3>1 DEF Revoked, Kept
  <2>8. QED  BY <2>3, <2>4, <2>5, <2>6, <2>7
<1>8. (\A u, v \in users : u.email = v.email => u = v)'
  BY <1>1 DEF AccountsInv
<1>9. QED  BY <1>5, <1>6, <1>7, <1>8 DEF AccountsInv

LEMMA InvClockTick == AccountsInv /\ ClockTick => AccountsInv'
<1> SUFFICES ASSUME AccountsInv, ClockTick  PROVE AccountsInv'
  OBVIOUS
<1>1. /\ UNCHANGED <<users, sessions, visit>> /\ clock \in Nat /\ clock' = clock + 1
      /\ AccountsTypeOK
  BY DEF AccountsInv, AccountsTypeOK, ClockTick
<1>2. AccountsTypeOK'
  BY <1>1 DEF AccountsTypeOK
<1>3. \A s \in sessions' : Given(s)'
  BY <1>1 DEF AccountsInv, Given, TokenGiven
<1>4. ASSUME NEW x \in Visits
      PROVE  (Placed(x) /\ Carries(x) /\ Entitled(x) /\ LetIn(x) /\ Revoked(x))'
  <2>1. Placed(x) /\ Carries(x) /\ Entitled(x) /\ LetIn(x) /\ Revoked(x)
    BY DEF AccountsInv
  <2>2. visit[x].began \in Nat /\ visit[x].at \in Nat
    BY <1>1 DEF AccountsTypeOK, Visit
  <2>3. Placed(x)'
    BY <1>1, <2>1, <2>2 DEF Placed
  <2>4. Carries(x)' /\ Entitled(x)' /\ LetIn(x)' /\ Revoked(x)'
    BY <1>1, <2>1 DEF Carries, Entitled, LetIn, Revoked, TokenGiven, Proved, session_expiry
  <2>5. QED  BY <2>3, <2>4
<1>5. (\A u, v \in users : u.email = v.email => u = v)'
  BY <1>1 DEF AccountsInv
<1>6. QED  BY <1>2, <1>3, <1>4, <1>5 DEF AccountsInv

LEMMA AccountsInvInit == AccountsInit => AccountsInv
<1> SUFFICES ASSUME AccountsInit  PROVE AccountsInv
  OBVIOUS
<1>1. users = {} /\ sessions = {} /\ clock = 0
  BY DEF AccountsInit
<1>2. ASSUME NEW r \in Visits
      PROVE  /\ visit[r] = [pc |-> "new", kind |-> "me", email |-> None, password |-> None,
                          cookie |-> None, user_id |-> None, at |-> 0, began |-> 0, seen |-> {},
                          status |-> 0]
             /\ visit[r] \in Visit
  BY DEF AccountsInit, Visit
<1>3. visit \in [Visits -> Visit]
  BY <1>2 DEF AccountsInit
<1>4. \A r \in Visits : Placed(r) /\ Carries(r) /\ Entitled(r) /\ LetIn(r) /\ Revoked(r)
  BY <1>1, <1>2 DEF Placed, Carries, Entitled, LetIn, Revoked, TokenGiven
<1>5. QED  BY <1>1, <1>3, <1>4 DEF AccountsInv, AccountsTypeOK

LEMMA AccountsInvNext == AccountsInv /\ [AccountsNext]_accountVars => AccountsInv'
<1> SUFFICES ASSUME AccountsInv, [AccountsNext]_accountVars  PROVE AccountsInv'
  OBVIOUS
<1>1. CASE ClockTick
  BY <1>1, InvClockTick
<1>2. CASE ServerDies
  BY <1>2, InvRestart
<1>3. ASSUME NEW r \in Visits, VisitStep(r)  PROVE AccountsInv'
  BY <1>3, InvBegin, InvAdmit, InvCleanup, InvSignupLookup, InvLoginLookup, InvHash,
     InvCreateUser, InvCreateSession, InvRequireUser, InvDeleteSession, InvDeleteUserSessions,
     InvRaise DEF VisitStep
<1>4. CASE UNCHANGED accountVars
  <2>1. UNCHANGED <<users, sessions, visit, clock>>
    BY <1>4 DEF accountVars
  <2>2. QED
    BY <2>1 DEF AccountsInv, AccountsTypeOK, Placed, Carries, Entitled, LetIn, Revoked, Given,
                TokenGiven, Proved, session_expiry
<1>5. QED  BY <1>1, <1>2, <1>3, <1>4 DEF AccountsNext

LEMMA AccountsInvAlways == AccountsSpec => []AccountsInv
  BY AccountsInvInit, AccountsInvNext, PTL DEF AccountsSpec

-----------------------------------------------------------------------------
\* However signups, logins, logouts and restarts interleave between their statements
\* (app.py:232-281): an address has one account, nobody is let in but by the password
\* and a session that had not run out, and what a logout revoked stays revoked.
THEOREM AccountsAreSafe == AccountsSpec => []AccountsSafe
<1>1. AccountsInv => AccountsSafe
  <2> SUFFICES ASSUME AccountsInv  PROVE AccountsSafe
    OBVIOUS
  <2>1. AccountsTypeOK
    BY DEF AccountsInv
  <2>2. OneAccountPerEmail
    <3>1. \A u, v \in users : u.email = v.email => u = v
      BY DEF AccountsInv
    <3>2. ASSUME NEW r \in Visits, NEW s \in Visits,
                 visit[r].kind = "signup", visit[s].kind = "signup", visit[r].email = visit[s].email,
                 visit[r].status = 200, visit[s].status = 200
          PROVE  r = s
      <4>1. Proved(r) \in users /\ Proved(s) \in users /\ visit[r].user_id = r /\ visit[s].user_id = s
        BY <3>2 DEF AccountsInv, Entitled, TokenGiven
      <4>2. Proved(r).email = Proved(s).email
        BY <3>2 DEF Proved
      <4>3. Proved(r) = Proved(s)
        BY <3>1, <4>1, <4>2
      <4>4. Proved(r).user_id = r /\ Proved(s).user_id = s
        BY <4>1 DEF Proved
      <4>5. QED  BY <4>3, <4>4
    <3>3. QED  BY <3>1, <3>2 DEF OneAccountPerEmail
  <2>3. AuthenticatedByPassword
    <3>1. SUFFICES ASSUME NEW r \in Visits, visit[r].kind \in {"me", "logout_all"}, visit[r].status = 200
                   PROVE  LET t == visit[r].cookie
                          IN  /\ TokenGiven(t) /\ visit[t].user_id = visit[r].user_id
                              /\ [user_id |-> visit[r].user_id, email |-> visit[t].email,
                                  password |-> visit[t].password] \in users
                              /\ visit[r].began < visit[t].at + TTL
      BY DEF AuthenticatedByPassword
    <3>2. Placed(r) /\ Carries(r) /\ LetIn(r)
      BY DEF AccountsInv
    <3>3. visit[r].cookie \in Visits /\ TokenGiven(visit[r].cookie)
      BY <3>1, <3>2 DEF Placed, Carries
    <3>4. Proved(visit[r].cookie) \in users
      BY <3>3 DEF AccountsInv, Entitled
    <3>5. QED  BY <3>1, <3>2, <3>3, <3>4 DEF LetIn, Proved, session_expiry
  <2>4. RevokedStaysRevoked
    BY DEF AccountsInv, RevokedStaysRevoked, Revoked
  <2>5. QED  BY <2>1, <2>2, <2>3, <2>4 DEF AccountsSafe
<1>2. QED  BY <1>1, AccountsInvAlways, PTL

\* No statement takes a session away (sqlite_data_store.py: delete_session,
\* delete_user_sessions, delete_expired_sessions) but for its age, its own logout or its
\* account's.
THEOREM SessionsEnd == AccountsSpec => SessionsEndByRight
<1> DEFINE ByRight ==
      \A s \in sessions \ sessions' :
        \/ s.expires_at <= clock
        \/ \E r \in Visits :
             /\ visit[r].pc # "done" /\ visit'[r].pc = "done"
             /\ \/ visit[r].kind = "logout" /\ visit[r].cookie = s.token
                \/ visit[r].kind = "logout_all" /\ visit[r].user_id = s.user_id
<1>1. AccountsInv /\ [AccountsNext]_accountVars => [ByRight]_accountVars
  <2> SUFFICES ASSUME AccountsInv, AccountsNext, NEW s \in sessions, s \notin sessions'
               PROVE  \/ s.expires_at <= clock
                      \/ \E r \in Visits :
                           /\ visit[r].pc # "done" /\ visit'[r].pc = "done"
                           /\ \/ visit[r].kind = "logout" /\ visit[r].cookie = s.token
                              \/ visit[r].kind = "logout_all" /\ visit[r].user_id = s.user_id
    OBVIOUS
  <2>1. PICK r \in Visits : Cleanup(r) \/ delete_session(r) \/ delete_user_sessions(r)
    BY DEF AccountsNext, ClockTick, ServerDies, VisitStep, Submit, Admit, SignupLookup, LoginLookup, Hash,
           create_user, create_session, require_user, StoreRaises
  <2>2. AccountsTypeOK /\ Placed(r)
    BY DEF AccountsInv
  <2>3. CASE Cleanup(r)
    <3>1. expired(visit[r].at, s) /\ visit[r].at <= clock
      BY <2>2, <2>3 DEF Cleanup, delete_expired_sessions, Placed
    <3>2. s.expires_at \in Nat /\ visit[r].at \in Nat /\ clock \in Nat
      BY <2>2 DEF AccountsTypeOK, Session, Visit
    <3>3. QED  BY <3>1, <3>2 DEF expired
  <2>4. CASE delete_session(r)
    <3>1. visit'[r].pc = "done"
      BY <2>2, <2>4, AnswerTurn DEF delete_session
    <3>2. visit[r].pc = "end" /\ visit[r].kind = "logout" /\ visit[r].cookie = s.token
      BY <2>2, <2>4 DEF delete_session, StandsAt, Placed
    <3>3. QED  BY <3>1, <3>2
  <2>5. CASE delete_user_sessions(r)
    <3>1. visit'[r].pc = "done"
      BY <2>2, <2>5, AnswerTurn DEF delete_user_sessions
    <3>2. visit[r].pc = "end_all" /\ visit[r].kind = "logout_all" /\ visit[r].user_id = s.user_id
      BY <2>2, <2>5 DEF delete_user_sessions, UserSessions, StandsAt, Placed
    <3>3. QED  BY <3>1, <3>2
  <2>6. QED  BY <2>1, <2>3, <2>4, <2>5
<1>2. QED  BY <1>1, AccountsInvAlways, PTL DEF AccountsSpec, SessionsEndByRight
=============================================================================
