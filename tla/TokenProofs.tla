------------------------------ MODULE TokenProofs ------------------------------
(***************************************************************************)
(* Proofs about a user's tokens, for all values of the constants: how a    *)
(* user gets a connection (OAuthConnect) and how its tokens are leased     *)
(* afterwards (TokenLease).  The two write the same users document, and    *)
(* share no variable of the model: each has an inductive invariant of its  *)
(* own.                                                                    *)
(***************************************************************************)
EXTENDS TokenLease, OAuthConnect, FiniteSetTheorems, TLAPS

(***************************************************************************)
(* Part I.  OAuthConnect: its states are well typed, a link brings one     *)
(* grant, a grant ends in one place, and the site on the button is the one *)
(* connected.                                                              *)
(***************************************************************************)

USE NullAssumption, NoValueAssumption, BoundsAssumption

(* ---------------------------------------------------------------------- *)
(* The inductive invariant                                                 *)

\* What a job rests on: somebody asked for its link, an account whose sites
\* are staged has several, and a pressed keyboard is one that was sent and has
\* the button.
Founded ==
  /\ \A w \in Workers : job[w] # NoJob =>
       /\ job[w].pc # "consume" => owner[job[w].link] # NoUser
       /\ job[w] \in Callbacks => visits > 0
       /\ job[w].pc = "stage" => Len(SitesOf[job[w].acct]) > 1
       /\ job[w].pc = "consume" =>
            job[w].key \in keyboards /\ job[w].button \in DOMAIN SitesOf[job[w].key.acct]
  /\ \A k \in keyboards : owner[k.link] # NoUser

\* The job has taken the link's state, or has its grant; a grant waits for its
\* user's choice.
Carries(w, l) == job[w] # NoJob /\ job[w].pc \in {"exchange", "sites", "stage", "finalize"} /\ job[w].link = l
Bears(w, l) == Carries(w, l) /\ job[w].pc # "exchange"
Waits(u, l) == pending[u] # NoPending /\ pending[u].link = l

\* A link's grant has one bearer, from the moment its state is taken.
OneBearer ==
  \A l \in Links :
    /\ \A v, w \in Workers : Carries(v, l) /\ Carries(w, l) => v = w
    /\ \A w \in Workers : Carries(w, l) =>
         /\ states[l] = "none" /\ l \notin used \union dropped
         /\ \A u \in Users : ~Waits(u, l)
    /\ \A u \in Users : Waits(u, l) => l \notin used \union dropped
    /\ l \in used => l \notin dropped

\* A link was granted when its grant is with somebody or gone.
Granted(l) ==
  \/ \E w \in Workers : Bears(w, l)
  \/ \E u \in Users : Waits(u, l)
  \/ l \in used \union dropped

Counted == \A l \in Links : grants[l] = IF Granted(l) THEN 1 ELSE 0

\* The keyboard of a link is sent with the selection it belongs to, and shows
\* the sites of the account that selection is of.
SameAccount ==
  \A k \in keyboards :
    /\ grants[k.link] = 1
    /\ \A w \in Workers : Carries(w, k.link) => job[w].pc = "finalize"
    /\ \A u \in Users : Waits(u, k.link) => pending[u].acct = k.acct

\* Where a site is about to be connected that is not the one on the button,
\* and where one was, keyboard and grant are of two links.
Picked ==
  /\ SiteIsPicked
  /\ \A w \in Workers : At(w, "finalize") /\ job[w].site # job[w].label => job[w].key # job[w].link

IInv == TypeOK /\ Founded /\ OneBearer /\ Counted /\ SameAccount /\ Picked

Works == Callbacks \union Presses \union Finals

\* What a worker's record says by its place in the code.
LEMMA JobKinds ==
  ASSUME IInv, NEW w \in Workers, job[w] # NoJob
  PROVE  /\ job[w].pc \in {"validate", "exchange", "sites", "stage", "consume", "finalize"}
         /\ job[w].pc \in {"validate", "exchange", "sites", "stage"} <=> job[w] \in Callbacks
         /\ job[w].pc = "consume" <=> job[w] \in Presses
         /\ job[w].pc = "finalize" <=> job[w] \in Finals
         /\ job[w] \in Callbacks => job[w].link \in Links /\ job[w].acct \in Accounts
         /\ job[w] \in Finals => job[w].link \in Links /\ job[w].site \in Sites
BY DEF IInv, TypeOK, Callbacks, Presses, Finals

\* One worker goes on, the others stay.
LEMMA Put ==
  ASSUME IInv, NEW w \in Workers, NEW j, j \in Works \union {NoJob}, Goes(w, j)
  PROVE  /\ job' \in [Workers -> Works \union {NoJob}]
         /\ job'[w] = j /\ \A v \in Workers \ {w} : job'[v] = job[v]
BY DEF IInv, TypeOK, Goes, Works

LEMMA ConnectKeeps ==
  ASSUME IInv, NEW u \in Users, NEW l \in Links, Connect(u, l)
  PROVE  IInv'
<1>1. /\ UNCHANGED <<pending, site, keyboards, job, grants, used, dropped, wrong, visits, presses, discs>>
      /\ troubles' \in 0 .. MaxTroubles
      /\ owner[l] = NoUser /\ owner' = [owner EXCEPT ![l] = u]
      /\ states' \in [Links -> Ages \union {"none"}] /\ \A m \in Links \ {l} : states'[m] = states[m]
  <2>1. /\ UNCHANGED <<pending, site, keyboards, job, grants, used, dropped, wrong, visits, presses, discs>>
        /\ owner[l] = NoUser /\ owner' = [owner EXCEPT ![l] = u]
    BY DEF Connect, histVars
  <2>2. troubles' \in 0 .. MaxTroubles
    BY DEF Connect, GenerateAuthURL, Trouble, IInv, TypeOK
  <2>3. states' \in [Links -> Ages \union {"none"}] /\ \A m \in Links \ {l} : states'[m] = states[m]
    BY DEF Connect, GenerateAuthURL, IInv, TypeOK, Ages
  <2> QED
    BY <2>1, <2>2, <2>3
<1>2. grants[l] = 0 /\ ~Granted(l)
  BY <1>1 DEF IInv, TypeOK, Counted
<1>3. \A w \in Workers : ~Carries(w, l)
  BY <1>1 DEF IInv, Founded, Carries
<1>4. TypeOK'
  BY <1>1, <1>2 DEF IInv, TypeOK
<1>5. Founded'
  BY <1>1 DEF IInv, TypeOK, Founded, Keyboards, Works, Callbacks, Finals, Presses
<1>6. /\ \A w \in Workers, m \in Links : (Carries(w, m)' <=> Carries(w, m)) /\ (Bears(w, m)' <=> Bears(w, m))
      /\ \A t \in Users, m \in Links : Waits(t, m)' <=> Waits(t, m)
  BY <1>1 DEF Carries, Bears, Waits
<1>7. OneBearer'
  BY <1>1, <1>3, <1>6 DEF IInv, OneBearer
<1>8. Counted'
  BY <1>1, <1>6 DEF IInv, Counted, Granted
<1>9. SameAccount'
  BY <1>1, <1>6 DEF IInv, TypeOK, SameAccount, Keyboards
<1>10. Picked'
  BY <1>1 DEF IInv, Picked, SiteIsPicked, At
<1> QED
  BY <1>4, <1>5, <1>7, <1>8, <1>9, <1>10 DEF IInv

LEMMA DisconnectKeeps ==
  ASSUME IInv, NEW u \in Users, Disconnect(u)
  PROVE  IInv'
<1>1. TypeOK'
  BY SMTT(30) DEF Disconnect, ClearJiraCredentials, histVars, IInv, TypeOK, Callbacks, Presses, Finals, Selections, Keyboards, Ages
<1>2. Founded'
  BY DEF Disconnect, ClearJiraCredentials, histVars, IInv, TypeOK, Founded, Callbacks, Presses, Finals, Keyboards
<1>3. OneBearer'
  BY DEF Disconnect, ClearJiraCredentials, histVars, IInv, TypeOK, OneBearer, Carries, Waits, Counted, Granted, Bears
<1>4. Counted'
  BY SMTT(30) DEF Disconnect, ClearJiraCredentials, histVars, IInv, TypeOK, Counted, OneBearer, Granted, Bears, Carries, Waits
<1>5. SameAccount'
  BY DEF Disconnect, ClearJiraCredentials, histVars, IInv, TypeOK, SameAccount, Carries, Waits, Counted, Granted, Bears, Keyboards
<1>6. Picked'
  BY DEF Disconnect, ClearJiraCredentials, histVars, IInv, TypeOK, Picked, SiteIsPicked, At
<1> QED
  BY <1>1, <1>2, <1>3, <1>4, <1>5, <1>6 DEF IInv

LEMMA CleanKeeps ==
  ASSUME IInv, CleanExpiredStates
  PROVE  IInv'
<1>1. TypeOK'
  BY DEF CleanExpiredStates, histVars, boundVars, IInv, TypeOK, Callbacks, Presses, Finals, Selections, Keyboards, Ages
<1>2. Founded'
  BY DEF CleanExpiredStates, histVars, boundVars, IInv, TypeOK, Founded, Callbacks, Presses, Finals, Keyboards
<1>3. OneBearer'
  BY DEF CleanExpiredStates, histVars, boundVars, IInv, TypeOK, OneBearer, Carries, Waits, Counted, Granted, Bears
<1>4. Counted'
  BY DEF CleanExpiredStates, histVars, boundVars, IInv, TypeOK, Counted, OneBearer, Granted, Bears, Carries, Waits
<1>5. SameAccount'
  BY DEF CleanExpiredStates, histVars, boundVars, IInv, TypeOK, SameAccount, Carries, Waits, Counted, Granted, Bears, Keyboards
<1>6. Picked'
  BY DEF CleanExpiredStates, histVars, boundVars, IInv, TypeOK, Picked, SiteIsPicked, At
<1> QED
  BY <1>1, <1>2, <1>3, <1>4, <1>5, <1>6 DEF IInv

LEMMA ExpireKeeps ==
  ASSUME IInv, NEW u \in Users, ExpirePending(u)
  PROVE  IInv'
<1>1. PICK l \in Links : pending[u] # NoPending /\ l = pending[u].link
  BY DEF ExpirePending, IInv, TypeOK, Selections
<1>2. /\ UNCHANGED <<owner, states, site, keyboards, job, grants, used, wrong, visits, presses, discs, troubles>>
      /\ pending' = [pending EXCEPT ![u] = NoPending] /\ dropped' = dropped \union {l}
  BY <1>1 DEF ExpirePending, boundVars
<1>3. /\ \A w \in Workers, m \in Links : (Carries(w, m)' <=> Carries(w, m)) /\ (Bears(w, m)' <=> Bears(w, m))
      /\ \A t \in Users, m \in Links : Waits(t, m)' <=> t # u /\ Waits(t, m)
  BY <1>2 DEF Carries, Bears, Waits, IInv, TypeOK
<1>4. /\ \A m \in Links : Waits(u, m) <=> m = l
      /\ \A t \in Users : Waits(t, l) => t = u
  BY <1>1 DEF Waits, IInv, TypeOK
<1>5. TypeOK'
  BY <1>1, <1>2 DEF IInv, TypeOK
<1>6. Founded'
  BY <1>2 DEF IInv, Founded
<1>7. OneBearer'
  BY <1>2, <1>3, <1>4 DEF IInv, OneBearer
<1>8. \A m \in Links : Granted(m)' <=> Granted(m)
  BY <1>2, <1>3, <1>4 DEF Granted
<1>9. Counted'
  BY <1>2, <1>8 DEF IInv, Counted
<1>10. SameAccount'
  BY <1>2, <1>3 DEF IInv, TypeOK, SameAccount, Keyboards
<1>11. Picked'
  BY <1>2 DEF IInv, Picked, SiteIsPicked, At
<1> QED
  BY <1>5, <1>6, <1>7, <1>9, <1>10, <1>11 DEF IInv

LEMMA AgeKeeps ==
  ASSUME IInv, Age
  PROVE  IInv'
<1>1. UNCHANGED <<owner, site, keyboards, job, grants, used, dropped, wrong, visits, presses, discs, troubles>>
  BY DEF Age, histVars, boundVars
<1>2. /\ states' \in [Links -> Ages \union {"none"}]
      /\ \A l \in Links : states'[l] = "none" <=> states[l] = "none"
  BY DEF Age, IInv, TypeOK, Ages
<1>3. /\ pending' \in [Users -> Selections \union {NoPending}]
      /\ \A u \in Users : /\ pending'[u] = NoPending <=> pending[u] = NoPending
                          /\ pending[u] # NoPending => /\ pending'[u].link = pending[u].link
                                                       /\ pending'[u].acct = pending[u].acct
  <2>1. CASE UNCHANGED pending
    BY <2>1 DEF IInv, TypeOK
  <2>2. ASSUME NEW u \in Users, pending[u] # NoPending, pending' = [pending EXCEPT ![u].age = "stale"]
        PROVE  /\ pending' \in [Users -> Selections \union {NoPending}]
               /\ \A t \in Users : /\ pending'[t] = NoPending <=> pending[t] = NoPending
                                   /\ pending[t] # NoPending => /\ pending'[t].link = pending[t].link
                                                                /\ pending'[t].acct = pending[t].acct
    <3>1. pending[u] \in Selections
      BY <2>2 DEF IInv, TypeOK
    <3> DEFINE q == [pending[u] EXCEPT !.age = "stale"]
    <3>2. q \in Selections
      BY <3>1 DEF Selections, Ages
    <3>3. q.link = pending[u].link /\ q.acct = pending[u].acct
      BY <3>1 DEF Selections
    <3>4. pending' = [pending EXCEPT ![u] = q]
      BY <2>2
    <3> HIDE DEF q
    <3>5. pending \in [Users -> Selections \union {NoPending}]
      BY DEF IInv, TypeOK
    <3>6. pending'[u] = q /\ \A t \in Users \ {u} : pending'[t] = pending[t]
      BY <3>4, <3>5
    <3>7. pending' \in [Users -> Selections \union {NoPending}]
      BY <3>2, <3>4, <3>5
    <3>8. q # NoPending /\ pending[u] # NoPending
      BY <2>2, <3>2
    <3> QED
      BY <3>3, <3>6, <3>7, <3>8
  <2> QED
    BY <2>1, <2>2 DEF Age
<1>4. TypeOK'
  BY <1>1, <1>2, <1>3 DEF IInv, TypeOK
<1>5. Founded'
  BY <1>1 DEF IInv, Founded
<1>6. /\ \A w \in Workers, l \in Links : (Carries(w, l)' <=> Carries(w, l)) /\ (Bears(w, l)' <=> Bears(w, l))
      /\ \A u \in Users, l \in Links : Waits(u, l)' <=> Waits(u, l)
  BY <1>1, <1>3 DEF Carries, Bears, Waits
<1>7. OneBearer'
  BY <1>1, <1>2, <1>6 DEF IInv, OneBearer
<1>8. Counted'
  BY <1>1, <1>6 DEF IInv, Counted, Granted
<1>9. SameAccount'
  BY <1>1, <1>3, <1>6 DEF IInv, TypeOK, SameAccount, Keyboards, Waits
<1>10. Picked'
  BY <1>1 DEF IInv, Picked, SiteIsPicked, At
<1> QED
  BY <1>4, <1>5, <1>7, <1>8, <1>9, <1>10 DEF IInv

LEMMA VisitKeeps ==
  ASSUME IInv, NEW w \in Workers, NEW l \in Links, NEW a \in Accounts, Visit(w, l, a)
  PROVE  IInv'
<1> DEFINE j == [pc |-> "validate", link |-> l, acct |-> a]
<1>1. /\ j \in Callbacks /\ j \in Works /\ j.pc = "validate" /\ j.link = l
      /\ Goes(w, j) /\ job[w] = NoJob /\ owner[l] # NoUser
  BY DEF Visit, Free, Callbacks, Works
<1> HIDE DEF j
<1>2. UNCHANGED <<owner, states, pending, site, keyboards, grants, used, dropped, wrong>>
  BY DEF Visit, storeVars, histVars
<1>3. /\ j # NoJob /\ visits' \in 0 .. MaxVisits /\ visits' > 0
      /\ UNCHANGED <<presses, discs, troubles>>
  BY <1>1 DEF Visit, IInv, TypeOK, Works
<1>4. /\ job' \in [Workers -> Works \union {NoJob}]
      /\ job'[w] = j /\ \A v \in Workers \ {w} : job'[v] = job[v]
  BY <1>1, Put
<1>5. TypeOK'
  BY <1>2, <1>3, <1>4 DEF IInv, TypeOK, Works
<1>6. Founded'
  BY <1>1, <1>2, <1>3, <1>4 DEF IInv, Founded
<1>7. \A v \in Workers, m \in Links : Carries(v, m)' <=> Carries(v, m)
  BY <1>1, <1>3, <1>4 DEF Carries
<1>8. \A u \in Users, m \in Links : Waits(u, m)' <=> Waits(u, m)
  BY <1>2 DEF Waits
<1>9. \A v \in Workers, m \in Links : Bears(v, m)' <=> Bears(v, m)
  BY <1>1, <1>3, <1>4 DEF Bears, Carries
<1>10. OneBearer'
  BY <1>2, <1>7, <1>8 DEF IInv, OneBearer
<1>11. Counted'
  BY <1>2, <1>8, <1>9 DEF IInv, Counted, Granted
<1>12. SameAccount'
  BY <1>1, <1>2, <1>4 DEF IInv, SameAccount, Carries, Waits
<1>13. Picked'
  BY <1>1, <1>2, <1>4 DEF IInv, Picked, SiteIsPicked, At
<1> QED
  BY <1>5, <1>6, <1>10, <1>11, <1>12, <1>13 DEF IInv

LEMMA ValidateKeeps ==
  ASSUME IInv, NEW w \in Workers, ValidateState(w)
  PROVE  IInv'
<1> DEFINE l == job[w].link
<1>1. job[w] # NoJob /\ job[w].pc = "validate" /\ job[w] \in Callbacks /\ l \in Links
      /\ visits > 0 /\ owner[l] # NoUser
  BY JobKinds DEF ValidateState, At, IInv, Founded
<1>2. /\ UNCHANGED <<owner, pending, site, keyboards, grants, used, dropped, wrong, visits, presses, discs>>
      /\ states' = states \/ states' = [states EXCEPT ![l] = "none"]
      /\ troubles' \in 0 .. MaxTroubles
  BY DEF ValidateState, Consume, Trouble, histVars, IInv, TypeOK
<1>3. [job[w] EXCEPT !.pc = "exchange"] \in Callbacks
      /\ [job[w] EXCEPT !.pc = "exchange"].pc = "exchange"
      /\ [job[w] EXCEPT !.pc = "exchange"].link = l
  BY <1>1 DEF Callbacks
<1>4. PICK j \in Works \union {NoJob} :
        /\ Goes(w, j)
        /\ j # NoJob => /\ j \in Callbacks /\ j.pc = "exchange" /\ j.link = l
                        /\ states[l] = "fresh" /\ states' = [states EXCEPT ![l] = "none"]
  BY <1>3 DEF ValidateState, Consume, Ends, Works
<1> HIDE DEF l
<1>5. /\ job' \in [Workers -> Works \union {NoJob}]
      /\ job'[w] = j /\ \A v \in Workers \ {w} : job'[v] = job[v]
  BY <1>4, Put
<1>6. TypeOK'
  BY SMTT(30), <1>1, <1>2, <1>5 DEF IInv, TypeOK, Works
<1>7. Founded'
  BY <1>1, <1>2, <1>4, <1>5 DEF IInv, Founded
<1>8. \A v \in Workers, m \in Links : Carries(v, m)' <=>
        IF v = w THEN j # NoJob /\ m = l ELSE Carries(v, m)
  BY <1>4, <1>5 DEF Carries
<1>9. \A u \in Users, m \in Links : Waits(u, m)' <=> Waits(u, m)
  BY <1>2 DEF Waits
<1>10. \A v \in Workers, m \in Links : Bears(v, m)' <=> Bears(v, m)
  BY <1>1, <1>4, <1>5 DEF Bears, Carries
<1>11. j # NoJob => ~Granted(l) /\ \A v \in Workers : ~Carries(v, l)
  BY <1>1, <1>4 DEF IInv, TypeOK, Counted, OneBearer
<1>12. OneBearer'
  BY <1>1, <1>2, <1>4, <1>8, <1>9, <1>11 DEF IInv, TypeOK, OneBearer, Granted
<1>13. Counted'
  BY <1>2, <1>9, <1>10 DEF IInv, Counted, Granted
<1>14. SameAccount'
  <2>1. \A k \in keyboards : k.link \in Links
    BY DEF IInv, TypeOK, Keyboards
  <2>2. \A k \in keyboards : Granted(k.link)
    BY <2>1 DEF IInv, SameAccount, Counted
  <2>3. \A k \in keyboards, v \in Workers : Carries(v, k.link)' => Carries(v, k.link) /\ v # w
    BY <1>8, <1>11, <2>1, <2>2
  <2> QED
    BY <1>2, <1>5, <1>9, <2>1, <2>3 DEF IInv, SameAccount
<1>15. Picked'
  BY <1>1, <1>2, <1>4, <1>5 DEF IInv, Picked, SiteIsPicked, At
<1> QED
  BY <1>6, <1>7, <1>12, <1>13, <1>14, <1>15 DEF IInv

LEMMA ExchangeKeeps ==
  ASSUME IInv, NEW w \in Workers, ExchangeCode(w)
  PROVE  IInv'
<1> DEFINE l == job[w].link
<1>1. job[w] # NoJob /\ job[w].pc = "exchange" /\ job[w] \in Callbacks /\ l \in Links
      /\ visits > 0 /\ owner[l] # NoUser
  BY JobKinds DEF ExchangeCode, At, IInv, Founded
<1>2. /\ UNCHANGED <<owner, states, pending, site, keyboards, used, dropped, wrong, visits, presses, discs>>
      /\ troubles' \in 0 .. MaxTroubles
  BY DEF ExchangeCode, Trouble, storeVars, IInv, TypeOK
<1>3. [job[w] EXCEPT !.pc = "sites"] \in Callbacks
      /\ [job[w] EXCEPT !.pc = "sites"].pc = "sites"
      /\ [job[w] EXCEPT !.pc = "sites"].link = l
  BY <1>1 DEF Callbacks
<1>4. PICK j \in Works \union {NoJob} :
        /\ Goes(w, j)
        /\ j # NoJob => /\ j \in Callbacks /\ j.pc = "sites" /\ j.link = l
                        /\ grants' = [grants EXCEPT ![l] = @ + 1]
        /\ j = NoJob => grants' = grants
  BY <1>3 DEF ExchangeCode, RequestToken, Ends, Works
<1>5. Carries(w, l)
  BY <1>1 DEF Carries
<1> HIDE DEF l
<1>6. /\ job' \in [Workers -> Works \union {NoJob}]
      /\ job'[w] = j /\ \A v \in Workers \ {w} : job'[v] = job[v]
  BY <1>4, Put
<1>7. \A m \in Links : ~Bears(w, m)
  BY <1>1 DEF Bears
<1>8. ~Granted(l) /\ states[l] = "none" /\ grants[l] = 0
  BY <1>1, <1>5, <1>7 DEF IInv, OneBearer, Counted, Granted, Bears
<1>9. TypeOK'
  BY SMTT(30), <1>1, <1>2, <1>4, <1>6, <1>8 DEF IInv, TypeOK, Works
<1>10. Founded'
  BY <1>1, <1>2, <1>4, <1>6 DEF IInv, Founded
<1>11. \A v \in Workers, m \in Links : Carries(v, m)' <=>
         IF v = w THEN j # NoJob /\ m = l ELSE Carries(v, m)
  BY <1>4, <1>6 DEF Carries
<1>12. \A u \in Users, m \in Links : Waits(u, m)' <=> Waits(u, m)
  BY <1>2 DEF Waits
<1>13. \A v \in Workers, m \in Links : Bears(v, m)' <=>
         IF v = w THEN j # NoJob /\ m = l ELSE Bears(v, m)
  BY <1>4, <1>6, <1>11 DEF Bears
<1>14. OneBearer'
  BY <1>2, <1>5, <1>11, <1>12 DEF IInv, OneBearer
<1>15. \A m \in Links : Granted(m)' <=> Granted(m) \/ (m = l /\ j # NoJob)
  BY <1>2, <1>7, <1>12, <1>13 DEF Granted
<1>16. Counted'
  BY <1>1, <1>4, <1>8, <1>15 DEF IInv, TypeOK, Counted
<1>17. SameAccount'
  <2>1. \A k \in keyboards : k.link \in Links /\ k.link # l
    BY <1>8 DEF IInv, TypeOK, Keyboards, SameAccount
  <2> QED
    BY <1>2, <1>4, <1>6, <1>11, <1>12, <2>1 DEF IInv, TypeOK, SameAccount
<1>18. Picked'
  BY <1>1, <1>2, <1>4, <1>6 DEF IInv, Picked, SiteIsPicked, At
<1> QED
  BY <1>9, <1>10, <1>14, <1>16, <1>17, <1>18 DEF IInv

\* The answer of the token endpoint is used up by an account without a site,
\* connects its only site, or waits to be staged.
LEMMA ResourcesKeeps ==
  ASSUME IInv, NEW w \in Workers, GetAccessibleResources(w)
  PROVE  IInv'
<1> DEFINE l == job[w].link
<1> DEFINE s == SitesOf[job[w].acct]
<1> DEFINE c == [job[w] EXCEPT !.pc = "stage"]
<1> DEFINE f == [pc |-> "finalize", link |-> l, site |-> s[1], key |-> l, label |-> s[1]]
<1>1. job[w] # NoJob /\ job[w].pc = "sites" /\ job[w] \in Callbacks /\ l \in Links
      /\ job[w].acct \in Accounts /\ visits > 0 /\ owner[l] # NoUser
  BY JobKinds DEF GetAccessibleResources, At, IInv, Founded
<1>2. /\ UNCHANGED <<owner, states, pending, site, keyboards, grants, used, wrong, visits, presses, discs>>
      /\ troubles' \in 0 .. MaxTroubles
  BY DEF GetAccessibleResources, WithSites, Trouble, storeVars, IInv, TypeOK
<1>3. c \in Callbacks /\ c.pc = "stage" /\ c.link = l /\ c.acct = job[w].acct
  BY <1>1 DEF Callbacks
<1>4. ASSUME Len(s) = 1
      PROVE  f \in Finals /\ f.pc = "finalize" /\ f.link = l /\ f.site = f.label
  BY <1>1, <1>4, SitesAssumption DEF Finals
<1>5. PICK j \in Works \union {NoJob} :
        /\ Goes(w, j)
        /\ \/ j = NoJob /\ dropped' = dropped \union {l}
           \/ /\ j \in Callbacks /\ j.pc = "stage" /\ Len(SitesOf[j.acct]) > 1
              /\ j.link = l /\ dropped' = dropped
           \/ /\ j \in Finals /\ j.pc = "finalize" /\ j.site = j.label
              /\ j.link = l /\ dropped' = dropped
  BY <1>3, <1>4 DEF GetAccessibleResources, WithSites, Drops, Ends, Works
<1>6. Carries(w, l)
  BY <1>1 DEF Carries
<1> HIDE DEF l, s, c, f
<1>7. /\ job' \in [Workers -> Works \union {NoJob}]
      /\ job'[w] = j /\ \A v \in Workers \ {w} : job'[v] = job[v]
  BY <1>5, Put
<1>8. Bears(w, l) /\ l \in Links
  BY <1>1, <1>6 DEF Bears, l
<1>9. grants[l] = 1 /\ l \notin used /\ \A u \in Users : ~Waits(u, l)
  BY <1>6, <1>8 DEF IInv, OneBearer, Counted, Granted
<1>10. j # NoJob => /\ j.pc \in {"stage", "finalize"} /\ j.link = l /\ dropped' = dropped
                    /\ j.pc = "stage" => Len(SitesOf[j.acct]) > 1
                    /\ j.pc = "finalize" => j.site = j.label
  BY <1>5 DEF Works, Callbacks, Finals
<1>11. j = NoJob => dropped' = dropped \union {l}
  BY <1>5
<1>12. TypeOK'
  BY <1>1, <1>2, <1>7, <1>10, <1>11 DEF IInv, TypeOK, Works
<1>13. Founded'
  BY <1>1, <1>2, <1>7, <1>10 DEF IInv, Founded
<1>14. \A v \in Workers, m \in Links : Carries(v, m)' <=>
         IF v = w THEN j # NoJob /\ m = l ELSE Carries(v, m)
  BY <1>7, <1>10 DEF Carries
<1>15. \A u \in Users, m \in Links : Waits(u, m)' <=> Waits(u, m)
  BY <1>2 DEF Waits
<1>16. \A v \in Workers, m \in Links : Bears(v, m)' <=>
         IF v = w THEN j # NoJob /\ m = l ELSE Bears(v, m)
  BY <1>7, <1>10, <1>14 DEF Bears
<1>17. OneBearer'
  BY <1>2, <1>6, <1>9, <1>10, <1>11, <1>14, <1>15 DEF IInv, OneBearer
<1>18. \A m \in Links : Bears(w, m) <=> m = l
  BY <1>8 DEF Bears, Carries
<1>19. \A m \in Links : Granted(m)' <=> Granted(m)
  BY <1>2, <1>8, <1>10, <1>11, <1>15, <1>16, <1>18 DEF Granted
<1>20. Counted'
  BY <1>2, <1>19 DEF IInv, Counted
<1>21. SameAccount'
  <2>1. \A k \in keyboards : k.link \in Links /\ k.link # l
    BY SMTT(30), <1>1, <1>6 DEF IInv, TypeOK, Keyboards, SameAccount
  <2> QED
    BY <1>2, <1>7, <1>14, <1>15, <2>1 DEF IInv, SameAccount
<1>22. Picked'
  BY <1>1, <1>2, <1>7, <1>10 DEF IInv, Picked, SiteIsPicked, At
<1> QED
  BY <1>12, <1>13, <1>17, <1>20, <1>21, <1>22 DEF IInv

\* The selection that waited is replaced and its grant dropped, or nothing is
\* staged and this grant dropped.
LEMMA StoreKeeps ==
  ASSUME IInv, NEW w \in Workers, StorePending(w)
  PROVE  IInv'
<1>1. PICK l \in Links, u \in Users :
        /\ l = job[w].link /\ u = owner[l] /\ u # NoUser
        /\ job[w] # NoJob /\ job[w].pc = "stage" /\ job[w] \in Callbacks
        /\ job[w].acct \in Accounts /\ Len(SitesOf[job[w].acct]) > 1
  <2>1. /\ job[w] # NoJob /\ job[w].pc = "stage" /\ job[w] \in Callbacks /\ job[w].link \in Links
        /\ job[w].acct \in Accounts /\ owner[job[w].link] # NoUser /\ Len(SitesOf[job[w].acct]) > 1
    BY JobKinds DEF StorePending, At, IInv, Founded
  <2> QED
    BY <2>1 DEF IInv, TypeOK
<1>2. PICK q \in Selections, k \in Keyboards :
        /\ q = [link |-> l, acct |-> job[w].acct, age |-> "fresh"]
        /\ k = [link |-> l, acct |-> job[w].acct]
  BY <1>1 DEF Selections, Keyboards, Ages
<1>3. /\ UNCHANGED <<owner, states, site, grants, used, wrong, visits, presses, discs>>
      /\ troubles' \in 0 .. MaxTroubles
  BY DEF StorePending, Trouble, IInv, TypeOK
<1>4. /\ q # NoPending /\ q.link = l /\ q.acct = job[w].acct
      /\ k.link = l /\ k.acct = q.acct
  BY <1>1, <1>2
<1>5. \/ /\ pending' = [pending EXCEPT ![u] = q]
         /\ dropped' = dropped \union Replaced(u)
         /\ keyboards' = keyboards \/ keyboards' = keyboards \union {k}
      \/ /\ dropped' = dropped \union {l}
         /\ UNCHANGED <<pending, keyboards>>
  BY <1>1, <1>2 DEF StorePending, Staged, Drops
<1>6. Carries(w, l) /\ Bears(w, l)
  BY <1>1 DEF Carries, Bears
<1>7. Len(SitesOf[q.acct]) > 1
  BY <1>1, <1>4
<1>8. \A m \in Links : Bears(w, m) \/ Carries(w, m) => m = l
  BY <1>1 DEF Carries, Bears
<1>9. owner[l] = u
  BY <1>1
<1>10. /\ job' \in [Workers -> Works \union {NoJob}]
       /\ job'[w] = NoJob /\ \A v \in Workers \ {w} : job'[v] = job[v]
  BY Put DEF StorePending, Ends
<1>11. \A v \in Workers, m \in Links :
         /\ Carries(v, m)' <=> v # w /\ Carries(v, m)
         /\ Bears(v, m)' <=> v # w /\ Bears(v, m)
  BY <1>10 DEF Carries, Bears
<1>12. /\ \A m \in Links : m \in Replaced(u) <=> Waits(u, m)
       /\ Replaced(u) \subseteq Links
  BY <1>1 DEF Replaced, Waits, IInv, TypeOK, Selections
<1>13. ~Granted(l) \/ grants[l] = 1
  BY <1>1 DEF IInv, Counted
<1>14. l \notin used \union dropped /\ \A t \in Users : ~Waits(t, l)
  BY <1>1, <1>6 DEF IInv, OneBearer
<1>15. \A t \in Users, m \in Links : Waits(t, m) => owner[m] = t
  BY DEF IInv, TypeOK, Waits
<1>16. grants[l] = 1
  BY <1>1, <1>6, <1>13 DEF Granted
<1>17. states[l] = "none"
  BY <1>1, <1>6 DEF IInv, OneBearer
<1>18. Founded'
  BY <1>1, <1>3, <1>4, <1>5, <1>10 DEF IInv, Founded
<1>19. Picked'
  BY <1>3, <1>10 DEF IInv, Picked, SiteIsPicked, At
<1>20. CASE /\ pending' = [pending EXCEPT ![u] = q]
            /\ dropped' = dropped \union Replaced(u)
            /\ keyboards' = keyboards \/ keyboards' = keyboards \union {k}
  <2>1. /\ pending' \in [Users -> Selections \union {NoPending}]
        /\ pending'[u] = q /\ \A t \in Users \ {u} : pending'[t] = pending[t]
    BY <1>1, <1>4, <1>20 DEF IInv, TypeOK
  <2>2. TypeOK'
    BY SMTT(30), <1>1, <1>3, <1>4, <1>7, <1>9, <1>10, <1>12, <1>20, <2>1 DEF IInv, TypeOK, Works
  <2>3. \A t \in Users, m \in Links : Waits(t, m)' <=> IF t = u THEN m = l ELSE Waits(t, m)
    BY <1>4, <2>1 DEF Waits
  <2>4. OneBearer'
    <3>1. ASSUME NEW m \in Links, NEW v \in Workers, Carries(v, m)'
          PROVE  m # l /\ Carries(v, m)
      BY <1>1, <1>6, <1>11, <3>1 DEF IInv, OneBearer
    <3>2. ASSUME NEW m \in Links, m \in dropped'
          PROVE  m \in dropped \/ Waits(u, m)
      BY <1>12, <1>20, <3>2
    <3>3. ASSUME NEW m \in Links, NEW v \in Workers, NEW x \in Workers, Carries(v, m)', Carries(x, m)'
          PROVE  v = x
      BY <3>1, <3>3 DEF IInv, OneBearer
    <3>4. ASSUME NEW m \in Links, NEW v \in Workers, Carries(v, m)'
          PROVE  states'[m] = "none" /\ m \notin used' \union dropped' /\ \A t \in Users : ~Waits(t, m)'
      BY <1>1, <1>3, <2>3, <3>1, <3>2, <3>4 DEF IInv, OneBearer
    <3>5. ASSUME NEW m \in Links, NEW t \in Users, Waits(t, m)'
          PROVE  m \notin used' \union dropped'
      BY <1>1, <1>3, <1>14, <1>15, <2>3, <3>2, <3>5 DEF IInv, OneBearer
    <3>6. ASSUME NEW m \in Links, m \in used'
          PROVE  m \notin dropped'
      BY <1>1, <1>3, <3>2, <3>6 DEF IInv, OneBearer
    <3> QED
      BY <3>3, <3>4, <3>5, <3>6 DEF OneBearer
  <2>5. \A m \in Links : Granted(m)' <=> Granted(m)
    <3>1. Granted(l) /\ Granted(l)'
      BY <1>1, <1>6, <2>3 DEF Granted
    <3>2. ASSUME NEW m \in Links, m # l
          PROVE  Granted(m)' <=> Granted(m)
      BY <1>1, <1>3, <1>8, <1>11, <1>12, <1>20, <2>3, <3>2 DEF Granted
    <3> QED
      BY <3>1, <3>2
  <2>6. Counted'
    BY <1>3, <2>5 DEF IInv, Counted
  <2>7. SameAccount'
    <3>1. \A x \in keyboards : x.link \in Links /\ x.link # l
      BY <1>1, <1>6 DEF IInv, TypeOK, Keyboards, SameAccount
    <3>2. ASSUME NEW v \in Workers, Carries(v, l)'
          PROVE  FALSE
      BY <1>1, <1>6, <1>11, <3>2 DEF IInv, OneBearer
    <3>3. ASSUME NEW x \in keyboards', x # k
          PROVE  x \in keyboards /\ x.link \in Links /\ x.link # l
      BY <1>20, <3>1, <3>3
    <3>4. ASSUME NEW x \in keyboards', x # k
          PROVE  /\ grants'[x.link] = 1
                 /\ \A v \in Workers : Carries(v, x.link)' => job'[v].pc = "finalize"
                 /\ \A t \in Users : Waits(t, x.link)' => pending'[t].acct = x.acct
      BY <1>3, <1>10, <1>11, <2>1, <2>3, <3>3, <3>4 DEF IInv, SameAccount
    <3>5. /\ grants'[k.link] = 1
          /\ \A v \in Workers : Carries(v, k.link)' => job'[v].pc = "finalize"
          /\ \A t \in Users : Waits(t, k.link)' => pending'[t].acct = k.acct
      BY <1>1, <1>3, <1>4, <1>14, <1>16, <2>1, <2>3, <3>2
    <3> QED
      BY <3>4, <3>5 DEF SameAccount
  <2> QED
    BY <1>18, <1>19, <2>2, <2>4, <2>6, <2>7 DEF IInv
<1>21. CASE dropped' = dropped \union {l} /\ UNCHANGED <<pending, keyboards>>
  <2>1. TypeOK'
    BY <1>1, <1>3, <1>10, <1>21 DEF IInv, TypeOK, Works
  <2>2. \A t \in Users, m \in Links : Waits(t, m)' <=> Waits(t, m)
    BY <1>21 DEF Waits
  <2>3. OneBearer'
    BY <1>1, <1>3, <1>6, <1>11, <1>14, <1>21, <2>2 DEF IInv, OneBearer
  <2>4. \A m \in Links : Granted(m)' <=> Granted(m)
    BY <1>1, <1>3, <1>6, <1>8, <1>11, <1>21, <2>2 DEF Granted
  <2>5. Counted'
    BY <1>3, <2>4 DEF IInv, Counted
  <2>6. SameAccount'
    BY <1>3, <1>10, <1>11, <1>21, <2>2 DEF IInv, TypeOK, SameAccount, Keyboards
  <2> QED
    BY <1>18, <1>19, <2>1, <2>3, <2>5, <2>6 DEF IInv
<1> QED
  BY <1>5, <1>20, <1>21

LEMMA PressKeeps ==
  ASSUME IInv, NEW w \in Workers, NEW k \in keyboards, NEW b \in Buttons, Press(w, k, b)
  PROVE  IInv'
<1>1. k \in Keyboards /\ owner[k.link] \in Users /\ b \in DOMAIN SitesOf[k.acct]
  BY DEF IInv, TypeOK, Founded, Keyboards, Press
<1>2. PICK j \in Works : /\ j \in Presses /\ j.pc = "consume" /\ j.key = k /\ j.button = b
                         /\ Goes(w, j)
  BY <1>1 DEF Press, Presses, Works
<1>3. j # NoJob /\ job[w] = NoJob /\ j.pc # "finalize" /\ j \notin Callbacks
  BY <1>2 DEF Press, Free, Works, Callbacks
<1>4. UNCHANGED <<owner, states, pending, site, keyboards, grants, used, dropped, wrong, visits, discs, troubles>>
  BY DEF Press, storeVars, histVars
<1>5. presses' \in 0 .. MaxPresses
  BY DEF Press, IInv, TypeOK
<1>6. /\ job' \in [Workers -> Works \union {NoJob}]
      /\ job'[w] = j /\ \A v \in Workers \ {w} : job'[v] = job[v]
  BY <1>2, Put
<1>7. TypeOK'
  BY <1>4, <1>5, <1>6 DEF IInv, TypeOK, Works
<1>8. Founded'
  BY <1>1, <1>2, <1>3, <1>4, <1>6 DEF IInv, Founded
<1>9. /\ \A v \in Workers, m \in Links : (Carries(v, m)' <=> Carries(v, m)) /\ (Bears(v, m)' <=> Bears(v, m))
      /\ \A t \in Users, m \in Links : Waits(t, m)' <=> Waits(t, m)
  BY <1>2, <1>3, <1>4, <1>6 DEF Carries, Bears, Waits
<1>10. OneBearer'
  BY <1>4, <1>9 DEF IInv, OneBearer
<1>11. Counted'
  BY <1>4, <1>9 DEF IInv, Counted, Granted
<1>12. SameAccount'
  BY <1>2, <1>4, <1>6 DEF IInv, SameAccount, Carries, Waits
<1>13. Picked'
  BY <1>2, <1>4, <1>6 DEF IInv, Picked, SiteIsPicked, At
<1> QED
  BY <1>7, <1>8, <1>10, <1>11, <1>12, <1>13 DEF IInv

\* The selection is there and taken, or the press comes to nothing.
LEMMA ChooseKeeps ==
  ASSUME IInv, NEW w \in Workers, ConsumePending(w)
  PROVE  IInv'
<1>1. PICK u \in Users, k \in keyboards, b \in Buttons :
        /\ job[w] # NoJob /\ job[w].pc = "consume" /\ job[w] \in Presses
        /\ job[w].user = u /\ job[w].key = k /\ job[w].button = b
        /\ b \in DOMAIN SitesOf[k.acct]
  BY JobKinds DEF ConsumePending, At, IInv, Founded, Presses
<1>2. k.link \in Links /\ k.acct \in Accounts
  BY DEF IInv, TypeOK, Keyboards
<1>3. /\ UNCHANGED <<owner, states, site, keyboards, grants, used, wrong, visits, presses, discs>>
      /\ troubles' \in 0 .. MaxTroubles
  BY DEF ConsumePending, Trouble, IInv, TypeOK
<1>4. \A v \in Workers, m \in Links : v = w => ~Carries(v, m) /\ ~Bears(v, m)
  BY <1>1 DEF Carries, Bears
<1>5. CASE Ends(w) /\ UNCHANGED <<pending, dropped>>
  <2>1. /\ job' \in [Workers -> Works \union {NoJob}]
        /\ job'[w] = NoJob /\ \A v \in Workers \ {w} : job'[v] = job[v]
    BY <1>5, Put DEF Ends
  <2>2. TypeOK'
    BY <1>3, <1>5, <2>1 DEF IInv, TypeOK, Works
  <2>3. Founded'
    BY <1>3, <2>1 DEF IInv, Founded
  <2>4. /\ \A v \in Workers, m \in Links : (Carries(v, m)' <=> Carries(v, m)) /\ (Bears(v, m)' <=> Bears(v, m))
        /\ \A t \in Users, m \in Links : Waits(t, m)' <=> Waits(t, m)
    BY <1>4, <1>5, <2>1 DEF Carries, Bears, Waits
  <2>5. OneBearer'
    BY <1>3, <1>5, <2>4 DEF IInv, OneBearer
  <2>6. Counted'
    BY <1>3, <1>5, <2>4 DEF IInv, Counted, Granted
  <2>7. SameAccount'
    BY <1>3, <1>5, <2>1 DEF IInv, SameAccount, Carries, Waits
  <2>8. Picked'
    BY <1>3, <2>1 DEF IInv, Picked, SiteIsPicked, At
  <2> QED
    BY <2>2, <2>3, <2>5, <2>6, <2>7, <2>8 DEF IInv
<1>6. ASSUME pending[u] # NoPending, Taken(u),
             NEW l \in Links, l = pending[u].link,
             NEW j \in Finals \union {NoJob}, Goes(w, j),
             j = NoJob => dropped' = dropped \union {l},
             j # NoJob => /\ dropped' = dropped /\ j.pc = "finalize" /\ j.link = l /\ j.key = k.link
                          /\ pending[u].acct = k.acct => j.site = j.label
      PROVE  IInv'
  <2>1. /\ job' \in [Workers -> Works \union {NoJob}]
        /\ job'[w] = j /\ \A v \in Workers \ {w} : job'[v] = job[v]
    BY <1>6, Put DEF Works
  <2>2. /\ pending' \in [Users -> Selections \union {NoPending}]
        /\ pending'[u] = NoPending /\ \A t \in Users \ {u} : pending'[t] = pending[t]
    BY <1>6 DEF Taken, IInv, TypeOK
  <2>3. /\ \A t \in Users, m \in Links : Waits(t, m)' <=> t # u /\ Waits(t, m)
        /\ \A t \in Users, m \in Links : Waits(t, m) => owner[m] = t
        /\ Waits(u, l) /\ owner[l] = u
    BY <1>6, <2>2 DEF Waits, IInv, TypeOK
  <2>4. \A m \in Links : Waits(u, m) <=> m = l
    BY <1>6 DEF Waits
  <2>5. \A v \in Workers, m \in Links :
          /\ Carries(v, m)' <=> IF v = w THEN j # NoJob /\ m = l ELSE Carries(v, m)
          /\ Bears(v, m)' <=> IF v = w THEN j # NoJob /\ m = l ELSE Bears(v, m)
    BY <1>6, <2>1 DEF Carries, Bears
  <2>6. grants[l] = 1 /\ states[l] = "none"
    BY <2>3 DEF IInv, TypeOK, Counted, Granted
  <2>7. TypeOK'
    BY SMTT(30), <1>3, <1>6, <2>1, <2>2 DEF IInv, TypeOK, Works
  <2>8. Founded'
    BY <1>3, <1>6, <2>1, <2>3 DEF IInv, Founded, Callbacks, Finals
  <2>9. OneBearer'
    BY <1>3, <1>4, <1>6, <2>3, <2>4, <2>5, <2>6 DEF IInv, OneBearer
  <2>10. \A m \in Links : Granted(m)' <=> Granted(m)
    <3>1. Granted(l) /\ Granted(l)'
      BY <1>6, <2>3, <2>5 DEF Granted
    <3>2. ASSUME NEW m \in Links, m # l
          PROVE  Granted(m)' <=> Granted(m)
      BY <1>3, <1>4, <1>6, <2>3, <2>4, <2>5, <3>2 DEF Granted
    <3> QED
      BY <3>1, <3>2
  <2>11. Counted'
    BY <1>3, <2>10 DEF IInv, Counted
  <2>12. SameAccount'
    BY <1>3, <1>6, <2>1, <2>2, <2>3, <2>5 DEF IInv, TypeOK, SameAccount, Keyboards
  <2>13. k.link = l => pending[u].acct = k.acct
    BY <2>3 DEF IInv, SameAccount
  <2>14. Picked'
    BY <1>3, <1>6, <2>1, <2>13 DEF IInv, Picked, SiteIsPicked, At
  <2> QED
    BY <2>7, <2>8, <2>9, <2>11, <2>12, <2>14 DEF IInv
<1>7. CASE pending[u] # NoPending
  <2>1. PICK l \in Links, a \in Accounts : l = pending[u].link /\ a = pending[u].acct
    BY <1>7 DEF IInv, TypeOK, Selections
  <2> DEFINE f == [pc |-> "finalize", link |-> l, site |-> Resource(a, b),
                   key |-> k.link, label |-> SitesOf[k.acct][b]]
  <2>2. ASSUME b \in DOMAIN SitesOf[a]
        PROVE  /\ f \in Finals /\ f.pc = "finalize" /\ f.link = l /\ f.key = k.link
               /\ a = k.acct => f.site = f.label
    BY <1>1, <1>2, <2>1, <2>2, SitesAssumption DEF Finals, Resource
  <2>3. \/ Ends(w) /\ UNCHANGED <<pending, dropped>>
        \/ Taken(u) /\ Ends(w) /\ dropped' = dropped \union {l}
        \/ Taken(u) /\ b \in DOMAIN SitesOf[a] /\ Goes(w, f) /\ UNCHANGED dropped
    BY <1>1, <1>7, <2>1 DEF ConsumePending, Drops
  <2> HIDE DEF f
  <2>4. CASE Taken(u) /\ Ends(w) /\ dropped' = dropped \union {l}
    BY <1>6, <1>7, <2>1, <2>4 DEF Ends
  <2>5. CASE Taken(u) /\ b \in DOMAIN SitesOf[a] /\ Goes(w, f) /\ UNCHANGED dropped
    <3>1. f # NoJob
      BY <2>2, <2>5
    <3> QED
      BY <1>6, <1>7, <2>1, <2>2, <2>5, <3>1
  <2> QED
    BY <1>5, <2>3, <2>4, <2>5
<1>8. CASE pending[u] = NoPending
  BY <1>1, <1>5, <1>8 DEF ConsumePending
<1> QED
  BY <1>7, <1>8

LEMMA FinalizeKeeps ==
  ASSUME IInv, NEW w \in Workers, Finalize(w)
  PROVE  IInv'
<1>1. PICK l \in Links :
        /\ job[w] # NoJob /\ job[w].pc = "finalize" /\ job[w] \in Finals
        /\ l = job[w].link /\ owner[l] # NoUser /\ job[w].key \in Links /\ job[w].site \in Sites
  BY JobKinds DEF Finalize, At, IInv, Founded, Finals
<1>2. /\ UNCHANGED <<owner, states, pending, keyboards, grants, visits, presses, discs>>
      /\ troubles' \in 0 .. MaxTroubles /\ site' \in [Users -> Sites \union {NoSite}]
  BY SMTT(30), <1>1 DEF Finalize, Upsert, Trouble, IInv, TypeOK
<1>3. \/ /\ used' = used \union {l} /\ dropped' = dropped
         /\ \/ wrong' = wrong
            \/ job[w].site # job[w].label /\ wrong' = wrong \union {<<job[w].key, l>>}
      \/ used' = used /\ dropped' = dropped \union {l} /\ wrong' = wrong
  BY <1>1 DEF Finalize, Drops
<1>4. /\ job' \in [Workers -> Works \union {NoJob}]
      /\ job'[w] = NoJob /\ \A v \in Workers \ {w} : job'[v] = job[v]
  BY Put DEF Finalize, Ends
<1>5. TypeOK'
  BY SMTT(30), <1>1, <1>2, <1>3, <1>4 DEF IInv, TypeOK, Works
<1>6. Founded'
  BY <1>2, <1>4 DEF IInv, Founded
<1>7. Carries(w, l) /\ Bears(w, l) /\ \A m \in Links : Carries(w, m) \/ Bears(w, m) => m = l
  BY <1>1 DEF Carries, Bears
<1>8. /\ \A v \in Workers, m \in Links : /\ Carries(v, m)' <=> v # w /\ Carries(v, m)
                                         /\ Bears(v, m)' <=> v # w /\ Bears(v, m)
      /\ \A t \in Users, m \in Links : Waits(t, m)' <=> Waits(t, m)
  BY <1>2, <1>4 DEF Carries, Bears, Waits
<1>9. OneBearer'
  BY <1>2, <1>3, <1>7, <1>8 DEF IInv, OneBearer
<1>10. \A m \in Links : Granted(m)' <=> Granted(m)
  BY <1>2, <1>3, <1>7, <1>8 DEF Granted
<1>11. Counted'
  BY <1>2, <1>10 DEF IInv, Counted
<1>12. SameAccount'
  BY <1>2, <1>4, <1>8 DEF IInv, TypeOK, SameAccount, Keyboards
<1>13. job[w].site # job[w].label => job[w].key # l
  BY <1>1 DEF IInv, Picked, At
<1>14. Picked'
  BY <1>3, <1>4, <1>13 DEF IInv, Picked, SiteIsPicked, At
<1> QED
  BY <1>5, <1>6, <1>9, <1>11, <1>12, <1>14 DEF IInv

\* What the workers bore is dropped.
LEMMA CrashKeeps ==
  ASSUME IInv, Crash
  PROVE  IInv'
<1>1. /\ UNCHANGED <<owner, states, pending, site, keyboards, grants, used, wrong, visits, presses, discs>>
      /\ troubles' \in 0 .. MaxTroubles /\ job' = [w \in Workers |-> NoJob]
  BY DEF Crash, Trouble, storeVars, IInv, TypeOK
<1>2. ASSUME NEW w \in Holders
      PROVE  w \in Workers /\ job[w].link \in Links /\ Bears(w, job[w].link)
  BY <1>2, JobKinds DEF Holders, At, Bears, Carries
<1>3. ASSUME NEW w \in Workers, NEW m \in Links, Bears(w, m)
      PROVE  w \in Holders /\ job[w].link = m
  BY <1>3, JobKinds DEF Holders, At, Bears, Carries
<1>4. /\ dropped' \subseteq Links
      /\ \A m \in Links : m \in dropped' <=> m \in dropped \/ \E w \in Workers : Bears(w, m)
  BY <1>2, <1>3 DEF Crash, IInv, TypeOK
<1>5. TypeOK'
  BY <1>1, <1>4 DEF IInv, TypeOK
<1>6. Founded'
  BY <1>1 DEF IInv, Founded
<1>7. /\ \A v \in Workers, m \in Links : ~Carries(v, m)' /\ ~Bears(v, m)'
      /\ \A t \in Users, m \in Links : Waits(t, m)' <=> Waits(t, m)
  BY <1>1 DEF Carries, Bears, Waits
<1>8. OneBearer'
  BY <1>1, <1>4, <1>7 DEF IInv, OneBearer, Bears
<1>9. Counted'
  BY <1>1, <1>4, <1>7 DEF IInv, Counted, Granted
<1>10. SameAccount'
  BY <1>1, <1>7 DEF IInv, TypeOK, SameAccount, Keyboards
<1>11. Picked'
  BY <1>1 DEF IInv, Picked, SiteIsPicked, At
<1> QED
  BY <1>5, <1>6, <1>8, <1>9, <1>10, <1>11 DEF IInv

LEMMA InvInit == Init => IInv
<1> SUFFICES ASSUME Init PROVE IInv
  OBVIOUS
<1>1. TypeOK
  BY DEF Init, TypeOK, Ages
<1>2. Founded /\ OneBearer /\ SameAccount /\ Picked
  BY DEF Init, Founded, OneBearer, SameAccount, Picked, SiteIsPicked, Carries, Waits, At
<1>3. Counted
  BY DEF Init, Counted, Granted, Bears, Carries, Waits
<1> QED
  BY <1>1, <1>2, <1>3 DEF IInv

LEMMA InvNext == IInv /\ [Next]_vars => IInv'
<1> SUFFICES ASSUME IInv, [Next]_vars PROVE IInv'
  OBVIOUS
<1>1. CASE UNCHANGED vars
  BY <1>1 DEF vars, IInv, TypeOK, Founded, OneBearer, Counted, Granted, SameAccount, Picked,
            SiteIsPicked, Carries, Bears, Waits, At
<1>2. CASE Next
  BY <1>2, ConnectKeeps, DisconnectKeeps, ExpireKeeps, AgeKeeps, CleanKeeps, VisitKeeps, ValidateKeeps,
     ExchangeKeeps, ResourcesKeeps, StoreKeeps, PressKeeps, ChooseKeeps, FinalizeKeeps, CrashKeeps
     DEF Next
<1> QED
  BY <1>1, <1>2

LEMMA Invariance == Spec => []IInv
BY InvInit, InvNext, PTL DEF Spec

(* ---------------------------------------------------------------------- *)
(* The theorems                                                            *)

\* The documents, the jobs and the histories keep their shapes: a state is
\* stored for links somebody asked for and no grant was made on, and a
\* selection belongs to the user of its link and has several sites.
THEOREM ConnectTypes == Spec => []TypeOK
<1>1. IInv => TypeOK
  BY DEF IInv
<1> QED
  BY <1>1, Invariance, PTL

\* Counting: a set with one element, or none.
LEMMA AtMostOne ==
  ASSUME NEW S, \A x, y \in S : x = y
  PROVE  Cardinality(S) = IF S = {} THEN 0 ELSE 1
<1>1. CASE S = {}
  BY <1>1, FS_EmptySet
<1>2. ASSUME NEW x \in S
      PROVE  Cardinality(S) = 1
  <2>1. S = {x}
    OBVIOUS
  <2> QED
    BY <2>1, FS_Singleton
<1> QED
  BY <1>1, <1>2

LEMMA OnePlace == IInv => GrantIsUsedOnce
<1> SUFFICES ASSUME IInv, NEW l \in Links
             PROVE  /\ grants[l] <= 1
                    /\ grants[l] = Cardinality({w \in Holders : job[w].link = l})
                         + Cardinality({u \in Users : pending[u] # NoPending /\ pending[u].link = l})
                         + (IF l \in used THEN 1 ELSE 0) + (IF l \in dropped THEN 1 ELSE 0)
  BY DEF GrantIsUsedOnce
<1> DEFINE B == {w \in Holders : job[w].link = l}
<1> DEFINE W == {u \in Users : pending[u] # NoPending /\ pending[u].link = l}
<1>1. \A w \in Workers : w \in B <=> Bears(w, l)
  BY JobKinds DEF Holders, At, Bears, Carries
<1>2. \A u \in Users : u \in W <=> Waits(u, l)
  BY DEF Waits
<1>3. B \subseteq Workers /\ W \subseteq Users
  BY DEF Holders
<1>4. \A v, w \in B : v = w
  BY <1>1, <1>3 DEF IInv, OneBearer, Bears
<1>5. \A t, u \in W : t = u
  BY DEF IInv, TypeOK
<1> HIDE DEF B, W
<1>6. Cardinality(B) = IF B = {} THEN 0 ELSE 1
  BY <1>4, AtMostOne
<1>7. Cardinality(W) = IF W = {} THEN 0 ELSE 1
  BY <1>5, AtMostOne
<1>8. B # {} => W = {} /\ l \notin used \union dropped
  BY <1>1, <1>2, <1>3 DEF IInv, OneBearer, Bears
<1>9. W # {} => l \notin used \union dropped
  BY <1>2, <1>3 DEF IInv, OneBearer
<1>10. l \in used => l \notin dropped
  BY DEF IInv, OneBearer
<1>11. Granted(l) <=> B # {} \/ W # {} \/ l \in used \union dropped
  BY <1>1, <1>2, <1>3 DEF Granted
<1>12. grants[l] = IF Granted(l) THEN 1 ELSE 0
  BY DEF IInv, Counted
<1>13. /\ grants[l] <= 1
       /\ grants[l] = Cardinality(B) + Cardinality(W)
                      + (IF l \in used THEN 1 ELSE 0) + (IF l \in dropped THEN 1 ELSE 0)
  BY <1>6, <1>7, <1>8, <1>9, <1>10, <1>11, <1>12
<1> QED
  BY <1>13 DEF B, W

\* Of every link: its state is good for one exchange, what the exchange grants
\* is at any time in one place, and the site that is connected with it is the
\* one on the button, or the keyboard was another link's.
THEOREM OneGrantOneSite == Spec => []GrantIsUsedAsPicked
<1>1. IInv => GrantIsUsedAsPicked
  BY OnePlace DEF IInv, Picked, GrantIsUsedAsPicked
<1> QED
  BY <1>1, Invariance, PTL

(***************************************************************************)
(* Part II. TokenLease: the per-user mutex excludes, tokens presented to   *)
(* Atlassian are current, leases are of stored tokens, and a disconnect    *)
(* sticks when no exchange is in flight.                                   *)
(***************************************************************************)

USE ServiceOfAssumption, NoCallerAssumption, NoOwnerAssumption, MaxSerialAssumption

(* ---------------------------------------------------------------------- *)
(* Parts of the inductive invariant                                        *)

Locked(c) == stage[c] \in {"reread", "refresh", "save"}

\* A handler past Lock() holds the mutex of its user.
LockHeld == \A c \in Callers : Locked(c) => lock[req[c]] = c

\* The document's refresh token is the current one, or its grant was lost, or
\* the one handler that holds the mutex carries the newer one.
StoredTokenIsCurrent ==
  \A u \in Owners : doc[u].acc # 0 =>
    \/ doc[u].ref = current[u][doc[u].grant]
    \/ doc[u].grant \in lost[u]
    \/ \E c \in Callers : /\ req[c] = u /\ stage[c] = "save"
                          /\ Rotated(c) /\ snap[c].grant = doc[u].grant

\* So is the token of a handler between its second read and its save.
CarriedTokenIsCurrent ==
  \A c \in Callers : stage[c] \in {"refresh", "save"} =>
    \/ snap[c].ref = current[req[c]][snap[c].grant]
    \/ snap[c].grant \in lost[req[c]]

\* Grants in use were issued: a new grant is not one of them.
GrantsWereIssued ==
  /\ \A u \in Owners : doc[u].grant <= issued[u]
  /\ \A c \in Callers : stage[c] \in {"refresh", "save"} => snap[c].grant <= issued[req[c]]

DocWasStored == \A u \in Owners : doc[u].acc # 0 => doc[u].acc \in stored[u]

\* While the user stays disconnected and no exchange was in flight then, none
\* starts: the second read finds no access token.
QuietStaysQuiet ==
  \A u \in Owners : ~wanted[u] /\ ~exposed[u] => doc[u].acc = 0 /\ ~Exchanging(u)

(* ---------------------------------------------------------------------- *)
(* Type correctness                                                        *)

\* Ending a request keeps the types of the request's variables: the deferred
\* Unlock of LocalProvider.Lease only ever frees the mutex.
LEMMA ReturnTypes ==
  ASSUME LeaseTypeOK, NEW c \in Callers, stage[c] # "idle", Return(c)
  PROVE  /\ stage' \in [Callers -> Stages]
         /\ req' \in [Callers -> Owners \union {NoOwner}]
         /\ \A d \in Callers : req'[d] = NoOwner <=> stage'[d] = "idle"
         /\ snap' \in [Callers -> Credentials]
         /\ lock' \in [Owners -> Callers \union {NoCaller}]
<1>1. NoCredentials \in Credentials
  BY DEF NoCredentials, Credentials, Serial
<1>2. stage' \in [Callers -> Stages] /\ req' \in [Callers -> Owners \union {NoOwner}]
  BY DEF LeaseTypeOK, Return, Stages
<1>3. \A d \in Callers : req'[d] = NoOwner <=> stage'[d] = "idle"
  BY DEF LeaseTypeOK, Return
<1>4. snap' \in [Callers -> Credentials]
  BY <1>1 DEF LeaseTypeOK, Return
<1>5. lock' \in [Owners -> Callers \union {NoCaller}]
  BY DEF LeaseTypeOK, Return
<1> QED
  BY <1>2, <1>3, <1>4, <1>5

LEMMA ReturnLeaseTypes ==
  ASSUME LeaseTypeOK, NEW c \in Callers, stage[c] # "idle",
         NEW l \in Credentials, ReturnLease(c, l)
  PROVE  /\ stage' \in [Callers -> Stages]
         /\ req' \in [Callers -> Owners \union {NoOwner}]
         /\ \A d \in Callers : req'[d] = NoOwner <=> stage'[d] = "idle"
         /\ snap' \in [Callers -> Credentials]
         /\ lock' \in [Owners -> Callers \union {NoCaller}]
BY DEF LeaseTypeOK, ReturnLease, Stages

\* A request under way has a user.
LEMMA ActiveHasUser ==
  ASSUME LeaseTypeOK, NEW c \in Callers, stage[c] # "idle"
  PROVE  req[c] \in Owners
BY DEF LeaseTypeOK

LEMMA TypeInit == LeaseInit => LeaseTypeOK
BY DEF LeaseInit, LeaseTypeOK, Credentials, NoCredentials, Serial, Stages

LEMMA TypeNext == LeaseTypeOK /\ [LeaseNext]_leaseVars => LeaseTypeOK'
<1> SUFFICES ASSUME LeaseTypeOK, [LeaseNext]_leaseVars PROVE LeaseTypeOK'
  OBVIOUS
<1> USE DEF jiraVars, history
<1>1. ASSUME NEW u \in Owners, Expire(u) PROVE LeaseTypeOK'
  <2>1. PICK a \in 1 .. issued[u] : expired' = [expired EXCEPT ![u] = @ \union {a}]
    BY <1>1 DEF Expire
  <2>2. a \in Serial
    BY <2>1 DEF LeaseTypeOK, Serial
  <2> QED
    BY <1>1, <2>1, <2>2 DEF Expire, LeaseTypeOK
<1>2. ASSUME NEW u \in Owners, UpsertTokens(u) PROVE LeaseTypeOK'
  <2>1. issued[u] + 1 \in Serial
    BY SMTT(30), <1>2 DEF UpsertTokens, LeaseTypeOK, Serial
  <2>2. /\ issued' \in [Owners -> Serial]
        /\ current' \in [Owners -> [Serial -> Serial]]
        /\ stored' \in [Owners -> SUBSET Serial]
        /\ wanted' \in [Owners -> BOOLEAN]
    BY <1>2, <2>1 DEF UpsertTokens, LeaseTypeOK
  <2>3. doc' \in [Owners -> Credentials]
    BY <1>2, <2>1 DEF UpsertTokens, LeaseTypeOK, Credentials
  <2> QED
    BY <1>2, <2>2, <2>3 DEF UpsertTokens, LeaseTypeOK
<1>3. ASSUME NEW u \in Owners, ClearCredentials(u) PROVE LeaseTypeOK'
  <2>1. NoCredentials \in Credentials
    BY DEF NoCredentials, Credentials, Serial
  <2>2. Exchanging(u) \in BOOLEAN
    BY DEF Exchanging
  <2> QED
    BY <1>3, <2>1, <2>2 DEF ClearCredentials, LeaseTypeOK
<1>4. ASSUME NEW u \in Owners, Revoke(u) PROVE LeaseTypeOK'
  <2>1. PICK g \in 1 .. issued[u] : revoked' = [revoked EXCEPT ![u] = @ \union {g}]
    BY <1>4 DEF Revoke
  <2>2. g \in Serial
    BY <2>1 DEF LeaseTypeOK, Serial
  <2> QED
    BY <1>4, <2>1, <2>2 DEF Revoke, LeaseTypeOK
<1>5. ASSUME NEW c \in Callers, NEW u \in Owners, SendRequest(c, u) PROVE LeaseTypeOK'
  BY <1>5 DEF SendRequest, LeaseTypeOK, Stages
<1>6. ASSUME NEW c \in Callers, Handler(c) PROVE LeaseTypeOK'
  <2>1. CASE ReadRejects(c) \/ RereadRejects(c) \/ ExchangeFails(c) \/ DropAnswer(c)
    BY <2>1, ReturnTypes DEF ReadRejects, RereadRejects, ExchangeFails, DropAnswer, LeaseTypeOK
  <2>2. CASE ReadFresh(c) \/ RereadFresh(c)
    <3>1. req[c] \in Owners /\ doc[req[c]] \in Credentials
      BY <2>2, ActiveHasUser DEF ReadFresh, RereadFresh, LeaseTypeOK
    <3> QED
      BY <2>2, <3>1, ReturnLeaseTypes DEF ReadFresh, RereadFresh, LeaseTypeOK
  <2>3. CASE ReadStale(c)
    BY <2>3 DEF ReadStale, LeaseTypeOK, Stages
  <2>4. CASE Acquire(c)
    BY <2>4, ActiveHasUser DEF Acquire, LeaseTypeOK, Stages
  <2>5. CASE RereadStale(c)
    BY <2>5, ActiveHasUser DEF RereadStale, LeaseTypeOK, Stages
  <2>6. CASE ExchangeOk(c)
    <3>1. req[c] \in Owners /\ snap[c] \in Credentials /\ issued[req[c]] + 1 \in Serial
      <4>1. req[c] \in Owners /\ snap[c] \in Credentials
        BY <2>6, ActiveHasUser DEF ExchangeOk, LeaseTypeOK
      <4>2. issued[req[c]] \in Serial /\ issued[req[c]] < MaxSerial
        BY <2>6, <4>1 DEF ExchangeOk, Issue, LeaseTypeOK
      <4> QED
        BY <4>1, <4>2 DEF Serial
    <3>2. PICK rotate \in BOOLEAN :
            /\ Issue(req[c], snap[c].grant, rotate)
            /\ snap' = [snap EXCEPT ![c] =
                 [grant |-> snap[c].grant, acc |-> issued[req[c]] + 1, site |-> snap[c].site,
                  ref |-> IF rotate THEN issued[req[c]] + 1 ELSE snap[c].ref]]
      BY <2>6 DEF ExchangeOk
    <3>3. snap[c].grant \in Serial /\ snap[c].site \in Serial /\ snap[c].ref \in Serial
      BY <3>1 DEF Credentials
    <3>4. /\ issued' \in [Owners -> Serial]
          /\ current' \in [Owners -> [Serial -> Serial]]
          /\ UNCHANGED <<revoked, expired>>
      BY <3>1, <3>2, <3>3 DEF Issue, LeaseTypeOK
    <3>5. snap' \in [Callers -> Credentials]
      BY <3>1, <3>2, <3>3 DEF LeaseTypeOK, Credentials
    <3> QED
      BY <2>6, <3>4, <3>5 DEF ExchangeOk, LeaseTypeOK, Stages
  <2>7. CASE ExchangeLost(c)
    <3>1. req[c] \in Owners /\ snap[c] \in Credentials /\ issued[req[c]] + 1 \in Serial
      <4>1. req[c] \in Owners /\ snap[c] \in Credentials
        BY <2>7, ActiveHasUser DEF ExchangeLost, LeaseTypeOK
      <4>2. issued[req[c]] \in Serial /\ issued[req[c]] < MaxSerial
        BY <2>7, <4>1 DEF ExchangeLost, Issue, LeaseTypeOK
      <4> QED
        BY <4>1, <4>2 DEF Serial
    <3>2. /\ issued' \in [Owners -> Serial]
          /\ current' \in [Owners -> [Serial -> Serial]]
          /\ lost' \in [Owners -> SUBSET Serial]
      BY <2>7, <3>1 DEF ExchangeLost, Issue, LeaseTypeOK, Credentials
    <3> QED
      BY <2>7, <3>2, ReturnTypes DEF ExchangeLost, Issue, LeaseTypeOK
  <2>8. CASE SaveOk(c) \/ SaveFails(c)
    <3>1. req[c] \in Owners /\ snap[c] \in Credentials
      BY <2>8, ActiveHasUser DEF SaveOk, SaveFails, LeaseTypeOK
    <3>2. WriteTokens(req[c], snap[c]) =>
            doc' \in [Owners -> Credentials] /\ stored' \in [Owners -> SUBSET Serial]
      BY <3>1 DEF WriteTokens, LeaseTypeOK, Credentials
    <3>3. SaveFails(c) => lost' \in [Owners -> SUBSET Serial]
      <4>1. snap[c].grant \in Serial
        BY <3>1 DEF Credentials
      <4> QED
        <5>1. CASE UNCHANGED lost
          BY <5>1 DEF LeaseTypeOK
        <5>2. CASE Lose(c)
          BY <3>1, <4>1, <5>2 DEF Lose, LeaseTypeOK
        <5> QED
          BY <5>1, <5>2 DEF SaveFails
    <3> QED
      BY <2>8, <3>1, <3>2, <3>3, ReturnTypes, ReturnLeaseTypes DEF SaveOk, SaveFails, LeaseTypeOK
  <2>9. CASE Deliver(c)
    <3>1. req[c] \in Owners /\ snap[c] \in Credentials
      BY <2>9, ActiveHasUser DEF Deliver, LeaseTypeOK
    <3>2. cache' \in [Services -> [Owners -> Credentials]]
      BY <2>9, <3>1 DEF Deliver, LeaseTypeOK
    <3> QED
      BY <2>9, <3>2, ReturnTypes DEF Deliver, LeaseTypeOK
  <2> QED
    BY <1>6, <2>1, <2>2, <2>3, <2>4, <2>5, <2>6, <2>7, <2>8, <2>9
    DEF Handler, Reads, Rereads, Exchange, Save, Answer
<1>7. ASSUME LeaseCrash PROVE LeaseTypeOK'
  <2>1. \A c \in Callers : snap[c].grant \in Serial
    BY DEF LeaseTypeOK, Credentials
  <2>2. lost' \in [Owners -> SUBSET Serial]
    BY <1>7, <2>1 DEF LeaseCrash, LeaseTypeOK
  <2>3. NoCredentials \in Credentials
    BY DEF Credentials, NoCredentials, Serial
  <2> QED
    BY <1>7, <2>2, <2>3 DEF LeaseCrash, LeaseTypeOK, Stages
<1>8. CASE UNCHANGED leaseVars
  BY <1>8 DEF leaseVars, LeaseTypeOK
<1> QED
  BY <1>1, <1>2, <1>3, <1>4, <1>5, <1>6, <1>7, <1>8 DEF LeaseNext, Environment

\* Every reachable state of the lease protocol is well typed.
THEOREM LeaseTypes == LeaseSpec => []LeaseTypeOK
BY TypeInit, TypeNext, PTL DEF LeaseSpec

(* ---------------------------------------------------------------------- *)
(* The mutex                                                               *)

\* Ending a handler, with or without a lease, takes the mutex from no other.
LEMMA LockHeldReturn ==
  ASSUME LeaseTypeOK, LockHeld, NEW c \in Callers, stage[c] # "idle", NEW l,
         Return(c) \/ ReturnLease(c, l)
  PROVE  LockHeld'
<1>1. req[c] \in Owners
  BY ActiveHasUser
<1>2. SUFFICES ASSUME NEW d \in Callers, Locked(d)' PROVE lock'[req'[d]] = d
  BY DEF LockHeld
<1>3. d # c
  BY <1>2 DEF Locked, Return, ReturnLease, LeaseTypeOK
<1>4. req'[d] = req[d] /\ Locked(d)
  BY <1>2, <1>3 DEF Locked, Return, ReturnLease, LeaseTypeOK
<1>5. lock[req[d]] = d /\ req[d] \in Owners
  BY <1>4, ActiveHasUser DEF LockHeld, Locked
<1> QED
  BY <1>1, <1>3, <1>4, <1>5 DEF Return, ReturnLease, LeaseTypeOK

LEMMA LockHeldInit == LeaseInit => LockHeld
BY DEF LeaseInit, LockHeld, Locked

LEMMA LockHeldNext == LeaseTypeOK /\ LockHeld /\ [LeaseNext]_leaseVars => LockHeld'
<1> SUFFICES ASSUME LeaseTypeOK, LockHeld, [LeaseNext]_leaseVars PROVE LockHeld'
  OBVIOUS
<1>1. ASSUME NEW u \in Owners, Environment(u) PROVE LockHeld'
  BY <1>1 DEF Environment, Expire, UpsertTokens, ClearCredentials, Revoke, LockHeld, Locked
<1>2. ASSUME NEW c \in Callers, NEW u \in Owners, SendRequest(c, u) PROVE LockHeld'
  BY <1>2 DEF SendRequest, LockHeld, Locked, LeaseTypeOK
<1>3. ASSUME NEW c \in Callers, Handler(c) PROVE LockHeld'
  <2>1. CASE \/ ReadRejects(c) \/ ReadFresh(c) \/ RereadRejects(c) \/ RereadFresh(c)
             \/ ExchangeFails(c) \/ ExchangeLost(c) \/ SaveOk(c) \/ SaveFails(c)
             \/ Deliver(c) \/ DropAnswer(c)
    <3>1. stage[c] # "idle" /\ \E l : Return(c) \/ ReturnLease(c, l)
      BY <2>1 DEF ReadRejects, ReadFresh, RereadRejects, RereadFresh, ExchangeFails,
                  ExchangeLost, SaveOk, SaveFails, Deliver, DropAnswer
    <3> QED
      BY <3>1, LockHeldReturn
  <2>2. CASE ReadStale(c)
    BY <2>2 DEF ReadStale, LockHeld, Locked, LeaseTypeOK
  <2>3. CASE Acquire(c)
    BY <2>3, ActiveHasUser DEF Acquire, LockHeld, Locked, LeaseTypeOK
  <2>4. CASE RereadStale(c)
    BY <2>4 DEF RereadStale, LockHeld, Locked, LeaseTypeOK
  <2>5. CASE ExchangeOk(c)
    BY <2>5 DEF ExchangeOk, LockHeld, Locked, LeaseTypeOK
  <2> QED
    BY <1>3, <2>1, <2>2, <2>3, <2>4, <2>5
    DEF Handler, Reads, Rereads, Exchange, Save, Answer
<1>4. CASE LeaseCrash
  BY <1>4 DEF LeaseCrash, LockHeld, Locked
<1>5. CASE UNCHANGED leaseVars
  BY <1>5 DEF leaseVars, LockHeld, Locked
<1> QED
  BY <1>1, <1>2, <1>3, <1>4, <1>5 DEF LeaseNext

\* At most one handler per user is between the second read and the save,
\* for any number of callers.
THEOREM MutualExclusion == LeaseSpec => []SingleRefreshPerUser
<1>1. LeaseTypeOK /\ LockHeld => SingleRefreshPerUser
  BY DEF LockHeld, Locked, SingleRefreshPerUser
<1> QED
  BY <1>1, TypeInit, TypeNext, LockHeldInit, LockHeldNext, PTL DEF LeaseSpec

(* ---------------------------------------------------------------------- *)
(* Refresh tokens                                                          *)

Current == StoredTokenIsCurrent /\ CarriedTokenIsCurrent /\ GrantsWereIssued

\* While one handler is past the second read, no other of its user is.
LEMMA Alone ==
  ASSUME LeaseTypeOK, LockHeld, NEW c \in Callers, NEW d \in Callers,
         Locked(c), Locked(d), req[c] = req[d]
  PROVE  c = d
BY DEF LockHeld

LEMMA CurrentInit == LeaseInit => Current
BY DEF LeaseInit, Current, StoredTokenIsCurrent, CarriedTokenIsCurrent, GrantsWereIssued,
       NoCredentials

\* Steps that write neither the document, the grants nor a carried token, and
\* end no save, keep the refresh tokens current.
LEMMA CurrentFrame ==
  ASSUME LeaseTypeOK, Current, UNCHANGED <<doc, current, issued>>,
         \A u \in Owners : lost[u] \subseteq lost'[u],
         \A c \in Callers : stage'[c] \in {"refresh", "save"} =>
           stage[c] = stage'[c] /\ req[c] = req'[c] /\ snap[c] = snap'[c],
         \A c \in Callers : stage[c] = "save" =>
           \/ stage'[c] = "save"
           \/ Rotated(c) => snap[c].grant \in lost'[req[c]]
  PROVE  Current'
<1>1. StoredTokenIsCurrent'
  <2>1. SUFFICES ASSUME NEW u \in Owners, doc[u].acc # 0
                 PROVE  \/ doc[u].ref = current[u][doc[u].grant]
                        \/ doc[u].grant \in lost'[u]
                        \/ \E c \in Callers : /\ req'[c] = u /\ stage'[c] = "save"
                                              /\ Rotated(c)' /\ snap'[c].grant = doc[u].grant
    BY DEF StoredTokenIsCurrent
  <2>2. CASE \E c \in Callers : /\ req[c] = u /\ stage[c] = "save"
                                /\ Rotated(c) /\ snap[c].grant = doc[u].grant
    BY <2>2 DEF Rotated
  <2> QED
    BY <2>1, <2>2 DEF Current, StoredTokenIsCurrent
<1>2. CarriedTokenIsCurrent'
  <2>1. \A c \in Callers : stage'[c] \in {"refresh", "save"} => req[c] \in Owners
    BY ActiveHasUser
  <2> QED
    BY <2>1 DEF Current, CarriedTokenIsCurrent
<1>3. GrantsWereIssued'
  BY DEF Current, GrantsWereIssued
<1> QED
  BY <1>1, <1>2, <1>3 DEF Current

\* Serials are numbers, and an issue only moves the last serial up.
LEMMA SerialsAreNat ==
  ASSUME LeaseTypeOK
  PROVE  /\ \A v \in Owners : issued[v] \in Nat /\ doc[v].grant \in Nat
         /\ \A d \in Callers : snap[d].grant \in Nat
<1>1. Serial \subseteq Nat
  BY DEF Serial
<1>2. \A v \in Owners : issued[v] \in Serial /\ doc[v].grant \in Serial
  BY DEF LeaseTypeOK, Credentials
<1>3. \A d \in Callers : snap[d].grant \in Serial
  BY DEF LeaseTypeOK, Credentials
<1> QED
  BY <1>1, <1>2, <1>3

LEMMA IssuedGrows ==
  ASSUME LeaseTypeOK, NEW u \in Owners, issued' = [issued EXCEPT ![u] = issued[u] + 1]
  PROVE  \A v \in Owners : issued'[v] \in Nat /\ issued[v] <= issued'[v]
<1>1. SUFFICES ASSUME NEW v \in Owners PROVE issued'[v] \in Nat /\ issued[v] <= issued'[v]
  OBVIOUS
<1>2. issued[u] \in Nat /\ issued[v] \in Nat
  BY SerialsAreNat
<1>3. issued'[v] = IF v = u THEN issued[u] + 1 ELSE issued[v]
  BY DEF LeaseTypeOK
<1> QED
  BY <1>2, <1>3

\* An exchange at Atlassian by the handler that holds the mutex.
LEMMA CurrentExchange ==
  ASSUME LeaseTypeOK, LockHeld, Current, NEW c \in Callers, Exchange(c)
  PROVE  Current'
<1> USE DEF jiraVars, history
<1> DEFINE u == req[c]
           g == snap[c].grant
           n == issued[u] + 1
<1>1. u \in Owners /\ snap[c] \in Credentials /\ g \in Serial /\ g <= issued[u] /\ issued[u] \in Nat
  <2>1. stage[c] = "refresh"
    BY DEF Exchange, ExchangeOk, ExchangeFails, ExchangeLost
  <2>2. u \in Owners /\ snap[c] \in Credentials
    BY <2>1, ActiveHasUser DEF LeaseTypeOK
  <2>3. g \in Serial
    BY <2>2 DEF Credentials
  <2> QED
    BY <2>1, <2>2, <2>3, SerialsAreNat DEF Current, GrantsWereIssued
<1>2. CASE ExchangeFails(c)
  <2>1. UNCHANGED <<doc, current, issued, lost>> /\ Return(c) /\ stage[c] = "refresh"
    BY <1>2 DEF ExchangeFails
  <2> QED
    BY <2>1, CurrentFrame DEF Return, LeaseTypeOK
<1>3. CASE ExchangeLost(c)
  <2>1. /\ stage[c] = "refresh" /\ Return(c) /\ UNCHANGED doc
        /\ issued' = [issued EXCEPT ![u] = n]
        /\ current' = [current EXCEPT ![u][g] = n]
        /\ lost' = [lost EXCEPT ![u] = @ \union {g}]
    BY <1>3 DEF ExchangeLost, Issue
  <2>2. \A v \in Owners, h \in Serial : v # u \/ h # g => current'[v][h] = current[v][h]
    BY <1>1, <2>1 DEF LeaseTypeOK
  <2>3. /\ \A v \in Owners : lost[v] \subseteq lost'[v]
        /\ g \in lost'[u]
    BY <1>1, <2>1 DEF LeaseTypeOK
  <2>4. \A d \in Callers : stage'[d] \in {"refresh", "save"} =>
          d # c /\ stage'[d] = stage[d] /\ req'[d] = req[d] /\ snap'[d] = snap[d]
    BY <2>1 DEF Return, LeaseTypeOK
  <2>5. \A d \in Callers : d # c => stage'[d] = stage[d] /\ req'[d] = req[d] /\ snap'[d] = snap[d]
    BY <2>1 DEF Return, LeaseTypeOK
  <2>6. StoredTokenIsCurrent'
    <3>1. SUFFICES ASSUME NEW v \in Owners, doc[v].acc # 0
                   PROVE  \/ doc[v].ref = current'[v][doc[v].grant]
                          \/ doc[v].grant \in lost'[v]
                          \/ \E d \in Callers : /\ req'[d] = v /\ stage'[d] = "save"
                                                /\ Rotated(d)' /\ snap'[d].grant = doc[v].grant
      BY <2>1 DEF StoredTokenIsCurrent
    <3>2. doc[v].grant \in Serial
      BY DEF LeaseTypeOK, Credentials
    <3>3. CASE \E d \in Callers : /\ req[d] = v /\ stage[d] = "save"
                                 /\ Rotated(d) /\ snap[d].grant = doc[v].grant
      BY <3>3, <2>1, <2>5 DEF Rotated
    <3> QED
      BY <2>2, <2>3, <3>1, <3>2, <3>3 DEF Current, StoredTokenIsCurrent
  <2>7. CarriedTokenIsCurrent'
    <3>1. \A d \in Callers : snap[d].grant \in Serial
      BY DEF LeaseTypeOK, Credentials
    <3>2. \A d \in Callers : stage[d] \in {"refresh", "save"} => req[d] \in Owners
      BY ActiveHasUser
    <3> QED
      BY <2>2, <2>3, <2>4, <3>1, <3>2 DEF Current, CarriedTokenIsCurrent
  <2>8. GrantsWereIssued'
    <3>1. \A d \in Callers : stage[d] \in {"refresh", "save"} => req[d] \in Owners
      BY ActiveHasUser
    <3>2. \A v \in Owners : issued'[v] \in Nat /\ issued[v] <= issued'[v]
      BY <1>1, <2>1, IssuedGrows
    <3> QED
      BY <2>1, <2>4, <3>1, <3>2, SerialsAreNat DEF Current, GrantsWereIssued
  <2> QED
    BY <2>6, <2>7, <2>8 DEF Current
<1>4. CASE ExchangeOk(c)
  <2>1. PICK rotate \in BOOLEAN :
          /\ Issue(u, g, rotate)
          /\ snap' = [snap EXCEPT ![c] =
               [grant |-> g, acc |-> n, site |-> snap[c].site,
                ref |-> IF rotate THEN n ELSE snap[c].ref]]
    BY <1>4 DEF ExchangeOk
  <2>2. /\ stage[c] = "refresh" /\ stage' = [stage EXCEPT ![c] = "save"]
        /\ UNCHANGED <<doc, req, lost>>
        /\ snap[c].ref = current[u][g]
    BY <1>4 DEF ExchangeOk, Accepts
  <2>3. /\ issued' = [issued EXCEPT ![u] = n]
        /\ current' = [current EXCEPT ![u][g] = IF rotate THEN n ELSE @]
    BY <2>1 DEF Issue
  <2>4. \A v \in Owners, h \in Serial : v # u \/ h # g => current'[v][h] = current[v][h]
    BY <1>1, <2>3 DEF LeaseTypeOK
  <2>5. current'[u][g] = IF rotate THEN n ELSE current[u][g]
    BY <1>1, <2>3 DEF LeaseTypeOK
  <2>6. /\ snap'[c].grant = g /\ snap'[c].acc = n
        /\ snap'[c].ref = IF rotate THEN n ELSE snap[c].ref
        /\ stage'[c] = "save"
    BY <2>1, <2>2 DEF LeaseTypeOK
  <2>7. \A d \in Callers : d # c => stage'[d] = stage[d] /\ snap'[d] = snap[d]
    BY <2>1, <2>2 DEF LeaseTypeOK
  <2>8. \A d \in Callers : d # c /\ stage[d] \in {"refresh", "save"} =>
          req[d] \in Owners /\ req[d] # u
    BY <2>2, Alone, ActiveHasUser DEF Locked
  <2>9. StoredTokenIsCurrent'
    <3>1. SUFFICES ASSUME NEW v \in Owners, doc[v].acc # 0
                   PROVE  \/ doc[v].ref = current'[v][doc[v].grant]
                          \/ doc[v].grant \in lost[v]
                          \/ \E d \in Callers : /\ req[d] = v /\ stage'[d] = "save"
                                                /\ Rotated(d)' /\ snap'[d].grant = doc[v].grant
      BY <2>2 DEF StoredTokenIsCurrent
    <3>2. doc[v].grant \in Serial
      BY DEF LeaseTypeOK, Credentials
    <3>3. CASE \E d \in Callers : /\ req[d] = v /\ stage[d] = "save"
                                 /\ Rotated(d) /\ snap[d].grant = doc[v].grant
      BY <3>3, <2>2, <2>7 DEF Rotated
    <3>4. CASE v = u /\ doc[v].grant = g /\ rotate
      BY <3>4, <2>6 DEF Rotated
    <3>5. CASE doc[v].ref = current[v][doc[v].grant] /\ ~(v = u /\ doc[v].grant = g /\ rotate)
      BY <3>2, <3>5, <2>4, <2>5
    <3> QED
      BY <3>1, <3>3, <3>4, <3>5 DEF Current, StoredTokenIsCurrent
  <2>10. CarriedTokenIsCurrent'
    <3>1. \A d \in Callers : snap[d].grant \in Serial
      BY DEF LeaseTypeOK, Credentials
    <3>2. SUFFICES ASSUME NEW d \in Callers, stage'[d] \in {"refresh", "save"}
                   PROVE  \/ snap'[d].ref = current'[req[d]][snap'[d].grant]
                          \/ snap'[d].grant \in lost[req[d]]
      BY <2>2 DEF CarriedTokenIsCurrent
    <3>3. CASE d = c
      BY <3>3, <2>2, <2>5, <2>6
    <3>4. CASE d # c
      BY <3>1, <3>2, <3>4, <2>4, <2>7, <2>8 DEF Current, CarriedTokenIsCurrent
    <3> QED
      BY <3>3, <3>4
  <2>11. GrantsWereIssued'
    <3>1. \A v \in Owners : issued'[v] \in Nat /\ issued[v] <= issued'[v]
      BY <1>1, <2>3, IssuedGrows
    <3>2. \A d \in Callers : stage'[d] \in {"refresh", "save"} =>
            snap'[d].grant = snap[d].grant /\ stage[d] \in {"refresh", "save"} /\ req[d] \in Owners
      BY <1>1, <2>2, <2>6, <2>7, <2>8
    <3> QED
      BY <2>2, <3>1, <3>2, SerialsAreNat DEF Current, GrantsWereIssued
  <2> QED
    BY <2>9, <2>10, <2>11 DEF Current
<1> QED
  BY <1>2, <1>3, <1>4 DEF Exchange

\* The end of a save, by the handler that holds the mutex.
LEMMA CurrentSave ==
  ASSUME LeaseTypeOK, LockHeld, Current, NEW c \in Callers, Save(c)
  PROVE  Current'
<1> USE DEF jiraVars, history
<1>1. stage[c] = "save" /\ req[c] \in Owners /\ snap[c] \in Credentials
  BY ActiveHasUser DEF Save, SaveOk, SaveFails, LeaseTypeOK
<1>2. UNCHANGED <<current, issued>>
  BY DEF Save, SaveOk, SaveFails
<1>3. \A d \in Callers : stage'[d] \in {"refresh", "save"} =>
        d # c /\ stage'[d] = stage[d] /\ req'[d] = req[d] /\ snap'[d] = snap[d]
  BY DEF Save, SaveOk, SaveFails, Return, ReturnLease, LeaseTypeOK
<1>4. \A d \in Callers : d # c => stage'[d] = stage[d]
  BY DEF Save, SaveOk, SaveFails, Return, ReturnLease, LeaseTypeOK
<1>5. CASE WriteTokens(req[c], snap[c]) /\ UNCHANGED lost
  <2>1. doc'[req[c]] = [grant |-> snap[c].grant, acc |-> snap[c].acc,
                        ref |-> snap[c].ref, site |-> doc[req[c]].site]
    BY <1>1, <1>5 DEF WriteTokens, LeaseTypeOK
  <2>2. \A v \in Owners : v # req[c] => doc'[v] = doc[v]
    BY <1>5 DEF WriteTokens, LeaseTypeOK
  <2>3. StoredTokenIsCurrent'
    <3>1. SUFFICES ASSUME NEW v \in Owners, doc'[v].acc # 0
                   PROVE  \/ doc'[v].ref = current[v][doc'[v].grant]
                          \/ doc'[v].grant \in lost[v]
                          \/ \E d \in Callers : /\ req'[d] = v /\ stage'[d] = "save"
                                                /\ Rotated(d)' /\ snap'[d].grant = doc'[v].grant
      BY <1>2, <1>5 DEF StoredTokenIsCurrent
    <3>2. CASE v = req[c]
      BY <1>1, <2>1, <3>2 DEF Current, CarriedTokenIsCurrent
    <3>3. CASE v # req[c]
      <4>1. CASE \E d \in Callers : /\ req[d] = v /\ stage[d] = "save"
                                   /\ Rotated(d) /\ snap[d].grant = doc[v].grant
        BY <1>3, <1>4, <2>2, <3>3, <4>1 DEF Rotated
      <4> QED
        BY <2>2, <3>1, <3>3, <4>1 DEF Current, StoredTokenIsCurrent
    <3> QED
      BY <3>2, <3>3
  <2>4. CarriedTokenIsCurrent'
    BY <1>2, <1>3, <1>5 DEF Current, CarriedTokenIsCurrent
  <2>5. GrantsWereIssued'
    <3>1. doc'[req[c]].grant <= issued'[req[c]]
      BY <1>1, <1>2, <2>1 DEF Current, GrantsWereIssued
    <3> QED
      BY <1>2, <1>3, <2>2, <3>1 DEF Current, GrantsWereIssued
  <2> QED
    BY <2>3, <2>4, <2>5 DEF Current
<1>6. CASE UNCHANGED <<doc, stored>> /\ Lose(c)
  <2>1. \A u \in Owners : lost[u] \subseteq lost'[u]
    BY <1>1, <1>6 DEF Lose, LeaseTypeOK
  <2>2. Rotated(c) => snap[c].grant \in lost'[req[c]]
    BY <1>1, <1>6 DEF Lose, LeaseTypeOK
  <2> QED
    BY <1>2, <1>3, <1>4, <1>6, <2>1, <2>2, CurrentFrame
<1> QED
  BY <1>5, <1>6 DEF Save, SaveOk, SaveFails

LEMMA CurrentNext == LeaseTypeOK /\ LockHeld /\ Current /\ [LeaseNext]_leaseVars => Current'
<1> SUFFICES ASSUME LeaseTypeOK, LockHeld, Current, [LeaseNext]_leaseVars PROVE Current'
  OBVIOUS
<1> USE DEF jiraVars, history
<1>1. ASSUME NEW u \in Owners, Expire(u) \/ Revoke(u) PROVE Current'
  <2>1. UNCHANGED <<doc, current, issued, lost, stage, req, snap>>
    BY <1>1 DEF Expire, Revoke
  <2> QED
    BY <2>1, CurrentFrame
<1>2. ASSUME NEW u \in Owners, UpsertTokens(u) PROVE Current'
  <2> DEFINE g == issued[u] + 1
  <2>1. /\ g \in Serial
        /\ issued' = [issued EXCEPT ![u] = issued[u] + 1]
        /\ doc' = [doc EXCEPT ![u] = [grant |-> g, acc |-> g, ref |-> g, site |-> g]]
        /\ current' = [current EXCEPT ![u][g] = g]
        /\ UNCHANGED <<lost, stage, req, snap>>
    BY SMTT(30), <1>2 DEF UpsertTokens, LeaseTypeOK, Serial
  <2>2. current'[u][g] = g /\ doc'[u] = [grant |-> g, acc |-> g, ref |-> g, site |-> g]
    BY <2>1 DEF LeaseTypeOK
  <2>3. \A v \in Owners, h \in Serial : v # u \/ h # g => current'[v][h] = current[v][h]
    BY <2>1 DEF LeaseTypeOK
  <2>4. \A v \in Owners : v # u => doc'[v] = doc[v]
    BY <2>1 DEF LeaseTypeOK
  <2>5. \A d \in Callers : stage[d] \in {"refresh", "save"} =>
          /\ req[d] \in Owners /\ snap[d].grant \in Serial
          /\ req[d] = u => snap[d].grant # g
    <3>1. SUFFICES ASSUME NEW d \in Callers, stage[d] \in {"refresh", "save"}
                   PROVE  /\ req[d] \in Owners /\ snap[d].grant \in Serial
                          /\ req[d] = u => snap[d].grant # g
      OBVIOUS
    <3>2. req[d] \in Owners /\ snap[d].grant \in Serial
      BY <3>1, ActiveHasUser DEF LeaseTypeOK, Credentials
    <3>3. snap[d].grant <= issued[req[d]]
      BY <3>1 DEF Current, GrantsWereIssued
    <3> QED
      BY <3>2, <3>3, SerialsAreNat
  <2>6. StoredTokenIsCurrent'
    <3>1. SUFFICES ASSUME NEW v \in Owners, doc'[v].acc # 0
                   PROVE  \/ doc'[v].ref = current'[v][doc'[v].grant]
                          \/ doc'[v].grant \in lost[v]
                          \/ \E d \in Callers : /\ req[d] = v /\ stage[d] = "save"
                                                /\ Rotated(d) /\ snap[d].grant = doc'[v].grant
      BY <2>1 DEF StoredTokenIsCurrent, Rotated
    <3>2. CASE v = u
      BY <3>2, <2>2
    <3>3. CASE v # u
      <4>1. doc[v].grant \in Serial
        BY DEF LeaseTypeOK, Credentials
      <4> QED
        BY <2>3, <2>4, <3>1, <3>3, <4>1 DEF Current, StoredTokenIsCurrent
    <3> QED
      BY <3>2, <3>3
  <2>7. CarriedTokenIsCurrent'
    BY <2>1, <2>3, <2>5 DEF Current, CarriedTokenIsCurrent
  <2>8. GrantsWereIssued'
    <3>1. \A v \in Owners : issued'[v] \in Nat /\ issued[v] <= issued'[v]
      BY <2>1, IssuedGrows
    <3>2. \A d \in Callers : stage'[d] \in {"refresh", "save"} =>
            snap'[d].grant <= issued'[req'[d]]
      BY <2>1, <2>5, <3>1, SerialsAreNat DEF Current, GrantsWereIssued
    <3>3. \A v \in Owners : doc'[v].grant <= issued'[v]
      <4>1. SUFFICES ASSUME NEW v \in Owners PROVE doc'[v].grant <= issued'[v]
        OBVIOUS
      <4>2. CASE v = u
        <5>1. issued'[u] = issued[u] + 1 /\ issued[u] \in Nat
          BY <2>1, SerialsAreNat DEF LeaseTypeOK
        <5> QED
          BY <2>2, <4>2, <5>1
      <4>3. CASE v # u
        BY <2>4, <3>1, <4>3, SerialsAreNat DEF Current, GrantsWereIssued
      <4> QED
        BY <4>2, <4>3
    <3> QED
      BY <3>2, <3>3 DEF GrantsWereIssued
  <2> QED
    BY <2>6, <2>7, <2>8 DEF Current
<1>3. ASSUME NEW u \in Owners, ClearCredentials(u) PROVE Current'
  <2>1. /\ doc' = [doc EXCEPT ![u] = NoCredentials]
        /\ UNCHANGED <<current, issued, lost, stage, req, snap>>
    BY <1>3 DEF ClearCredentials
  <2>2. doc'[u] = NoCredentials /\ \A v \in Owners : v # u => doc'[v] = doc[v]
    BY <2>1 DEF LeaseTypeOK
  <2>3. StoredTokenIsCurrent' /\ CarriedTokenIsCurrent'
    BY <2>1, <2>2 DEF Current, StoredTokenIsCurrent, CarriedTokenIsCurrent, Rotated, NoCredentials
  <2>4. GrantsWereIssued'
    BY <2>1, <2>2, SerialsAreNat DEF Current, GrantsWereIssued, NoCredentials
  <2> QED
    BY <2>3, <2>4 DEF Current
<1>4. ASSUME NEW c \in Callers, NEW u \in Owners, SendRequest(c, u) PROVE Current'
  <2>1. /\ UNCHANGED <<doc, current, issued, lost, snap>>
        /\ stage[c] = "idle" /\ stage' = [stage EXCEPT ![c] = "read"]
        /\ req' = [req EXCEPT ![c] = u]
    BY <1>4 DEF SendRequest
  <2> QED
    BY <2>1, CurrentFrame DEF LeaseTypeOK
<1>5. ASSUME NEW c \in Callers, Handler(c) PROVE Current'
  <2>1. CASE Reads(c) \/ RereadRejects(c) \/ RereadFresh(c) \/ Acquire(c) \/ Answer(c)
    <3>1. /\ UNCHANGED <<doc, current, issued, lost>>
          /\ stage[c] \in {"read", "wait", "reread", "respond"}
      BY <2>1 DEF Reads, ReadRejects, ReadFresh, ReadStale, RereadRejects, RereadFresh,
                  Acquire, Answer, Deliver, DropAnswer
    <3>2. /\ stage'[c] \notin {"refresh", "save"}
          /\ \A d \in Callers : d # c =>
               stage'[d] = stage[d] /\ req'[d] = req[d] /\ snap'[d] = snap[d]
      BY <2>1 DEF Reads, ReadRejects, ReadFresh, ReadStale, RereadRejects, RereadFresh,
                  Acquire, Answer, Deliver, DropAnswer, Return, ReturnLease, LeaseTypeOK
    <3> QED
      BY <3>1, <3>2, CurrentFrame
  <2>2. CASE RereadStale(c)
    \* Alone past the second read, so no save of this user is under way.
    <3>1. /\ UNCHANGED <<doc, current, issued, lost, req>>
          /\ stage[c] = "reread" /\ stage' = [stage EXCEPT ![c] = "refresh"]
          /\ snap' = [snap EXCEPT ![c] = doc[req[c]]]
          /\ doc[req[c]].acc # 0
      BY <2>2 DEF RereadStale
    <3>2. req[c] \in Owners
      BY <3>1, ActiveHasUser
    <3>3. /\ snap'[c] = doc[req[c]] /\ stage'[c] = "refresh"
          /\ \A d \in Callers : d # c => stage'[d] = stage[d] /\ snap'[d] = snap[d]
      BY <3>1 DEF LeaseTypeOK
    <3>4. \A d \in Callers : stage[d] = "save" => d # c /\ req[d] # req[c]
      BY <3>1, Alone DEF Locked
    <3>5. StoredTokenIsCurrent'
      BY <3>1, <3>3, <3>4 DEF Current, StoredTokenIsCurrent, Rotated
    <3>6. CarriedTokenIsCurrent'
      BY <3>1, <3>2, <3>3, <3>4 DEF Current, StoredTokenIsCurrent, CarriedTokenIsCurrent
    <3>7. GrantsWereIssued'
      BY <3>1, <3>2, <3>3 DEF Current, GrantsWereIssued
    <3> QED
      BY <3>5, <3>6, <3>7 DEF Current
  <2> QED
    BY <1>5, <2>1, <2>2, CurrentExchange, CurrentSave DEF Handler, Rereads
<1>6. CASE LeaseCrash
  <2>1. /\ UNCHANGED <<doc, current, issued>>
        /\ stage' = [c \in Callers |-> "idle"]
        /\ lost' = [u \in Owners |-> lost[u] \union
             {snap[c].grant : c \in {d \in Callers :
                                 req[d] = u /\ stage[d] = "save" /\ Rotated(d)}}]
    BY <1>6 DEF LeaseCrash
  <2>2. \A u \in Owners : lost[u] \subseteq lost'[u]
    BY <2>1
  <2>3. \A c \in Callers : stage[c] = "save" /\ Rotated(c) => snap[c].grant \in lost'[req[c]]
    BY <2>1, ActiveHasUser
  <2> QED
    BY <2>1, <2>2, <2>3, CurrentFrame
<1>7. CASE UNCHANGED leaseVars
  BY <1>7, CurrentFrame DEF leaseVars
<1> QED
  BY <1>1, <1>2, <1>3, <1>4, <1>5, <1>6, <1>7 DEF LeaseNext, Environment

\* identity-svc never presents a refresh token it already exchanged, unless
\* an exchange of that grant was lost before its tokens reached MongoDB.
THEOREM NoReplay == LeaseSpec => []PresentedTokenIsCurrent
<1>1. Current => PresentedTokenIsCurrent
  BY DEF Current, CarriedTokenIsCurrent, PresentedTokenIsCurrent
<1> QED
  BY <1>1, TypeInit, TypeNext, LockHeldInit, LockHeldNext, CurrentInit, CurrentNext, PTL DEF LeaseSpec

(* ---------------------------------------------------------------------- *)
(* Leases are of stored tokens                                             *)

Stored == DocWasStored /\ LeasedTokensWereStored

LEMMA StoredInit == LeaseInit => Stored
BY DEF LeaseInit, Stored, DocWasStored, LeasedTokensWereStored, NoCredentials

LEMMA StoredNext == LeaseTypeOK /\ Stored /\ [LeaseNext]_leaseVars => Stored'
<1> SUFFICES ASSUME LeaseTypeOK, Stored, [LeaseNext]_leaseVars PROVE Stored'
  OBVIOUS
<1> USE DEF jiraVars, history, Stored, DocWasStored, LeasedTokensWereStored
<1>1. ASSUME NEW u \in Owners, Expire(u) \/ Revoke(u) PROVE Stored'
  BY <1>1 DEF Expire, Revoke
<1>2. ASSUME NEW u \in Owners, UpsertTokens(u) PROVE Stored'
  <2>1. /\ doc'[u].acc \in stored'[u]
        /\ \A v \in Owners : v # u => doc'[v] = doc[v]
        /\ \A v \in Owners : stored[v] \subseteq stored'[v]
        /\ UNCHANGED <<stage, req, snap, cache>>
    BY <1>2 DEF UpsertTokens, LeaseTypeOK
  <2>2. \A c \in Callers : stage[c] = "respond" => req[c] \in Owners
    BY ActiveHasUser
  <2> QED
    BY <2>1, <2>2
<1>3. ASSUME NEW u \in Owners, ClearCredentials(u) PROVE Stored'
  BY <1>3 DEF ClearCredentials, NoCredentials, LeaseTypeOK
<1>4. ASSUME NEW c \in Callers, NEW u \in Owners, SendRequest(c, u) PROVE Stored'
  BY <1>4 DEF SendRequest, LeaseTypeOK
<1>5. ASSUME NEW c \in Callers, Handler(c) PROVE Stored'
  <2>1. CASE \/ ReadRejects(c) \/ RereadRejects(c) \/ ExchangeFails(c) \/ ExchangeLost(c)
             \/ DropAnswer(c)
    <3>1. Return(c) /\ UNCHANGED <<doc, cache, stored>>
      BY <2>1 DEF ReadRejects, RereadRejects, ExchangeFails, ExchangeLost, DropAnswer
    <3>2. /\ stage'[c] = "idle"
          /\ \A k \in Callers \ {c} : stage'[k] = stage[k] /\ req'[k] = req[k] /\ snap'[k] = snap[k]
      BY <3>1 DEF Return, LeaseTypeOK
    <3> QED
      BY <3>1, <3>2
  <2>2. CASE ReadStale(c) \/ Acquire(c) \/ RereadStale(c)
    <3>1. /\ UNCHANGED <<doc, cache, stored, req>>
          /\ stage'[c] # "respond"
          /\ \A k \in Callers \ {c} : stage'[k] = stage[k] /\ snap'[k] = snap[k]
      BY <2>2 DEF ReadStale, Acquire, RereadStale, LeaseTypeOK
    <3> QED
      BY <3>1
  <2>3. CASE ReadFresh(c) \/ RereadFresh(c)
    <3>1. /\ req[c] \in Owners /\ doc[req[c]].acc # 0
          /\ ReturnLease(c, doc[req[c]])
          /\ UNCHANGED <<doc, cache, stored>>
      BY <2>3, ActiveHasUser DEF ReadFresh, RereadFresh, Usable
    <3> QED
      BY <3>1 DEF ReturnLease, LeaseTypeOK
  <2>4. CASE ExchangeOk(c)
    <3>1. /\ stage' = [stage EXCEPT ![c] = "save"]
          /\ \A d \in Callers : d # c => snap'[d] = snap[d]
          /\ UNCHANGED <<doc, req, cache, stored>>
      BY <2>4 DEF ExchangeOk, LeaseTypeOK
    <3> QED
      BY <3>1 DEF LeaseTypeOK
  <2>5. CASE SaveOk(c) \/ SaveFails(c)
    <3>1. stage[c] = "save" /\ req[c] \in Owners
      BY <2>5, ActiveHasUser DEF SaveOk, SaveFails
    <3>2. \A d \in Callers : stage[d] = "respond" => req[d] \in Owners
      BY ActiveHasUser
    <3>3. CASE WriteTokens(req[c], snap[c])
      <4>1. /\ doc'[req[c]].acc \in stored'[req[c]]
            /\ snap[c].acc \in stored'[req[c]]
            /\ \A v \in Owners : v # req[c] => doc'[v] = doc[v]
            /\ \A v \in Owners : stored[v] \subseteq stored'[v]
        BY <3>1, <3>3 DEF WriteTokens, LeaseTypeOK
      <4>2. /\ UNCHANGED cache
            /\ \A d \in Callers : stage'[d] = "respond" =>
                 \/ stage[d] = "respond" /\ req'[d] = req[d] /\ snap'[d] = snap[d]
                 \/ d = c /\ req'[d] = req[c] /\ snap'[d] = snap[c]
        BY <2>5 DEF SaveOk, SaveFails, Return, ReturnLease, LeaseTypeOK
      <4> QED
        BY <3>2, <4>1, <4>2
    <3>4. CASE UNCHANGED <<doc, stored>> /\ Return(c)
      BY <2>5, <3>4 DEF SaveOk, SaveFails, Return, LeaseTypeOK
    <3> QED
      BY <2>5, <3>3, <3>4 DEF SaveOk, SaveFails
  <2>6. CASE Deliver(c)
    <3>1. /\ stage[c] = "respond" /\ req[c] \in Owners /\ ServiceOf[c] \in Services
          /\ cache' = [cache EXCEPT ![ServiceOf[c]][req[c]] = snap[c]]
          /\ UNCHANGED <<doc, stored>>
          /\ Return(c)
      BY <2>6, ActiveHasUser DEF Deliver
    <3>2. \A s \in Services, u \in Owners :
            cache'[s][u] = IF s = ServiceOf[c] /\ u = req[c] THEN snap[c] ELSE cache[s][u]
      BY <3>1 DEF LeaseTypeOK
    <3> QED
      BY <3>1, <3>2 DEF Return, LeaseTypeOK
  <2> QED
    BY <1>5, <2>1, <2>2, <2>3, <2>4, <2>5, <2>6
    DEF Handler, Reads, Rereads, Exchange, Save, Answer
<1>6. CASE LeaseCrash
  BY <1>6 DEF LeaseCrash
<1>7. CASE UNCHANGED leaseVars
  BY <1>7 DEF leaseVars
<1> QED
  BY <1>1, <1>2, <1>3, <1>4, <1>5, <1>6, <1>7 DEF LeaseNext, Environment

\* Every access token a service can see, in an answer or in its client's
\* cache, was written to MongoDB first.
THEOREM StoredBeforeLeased == LeaseSpec => []LeasedTokensWereStored
<1>1. Stored => LeasedTokensWereStored
  BY DEF Stored
<1> QED
  BY <1>1, TypeInit, TypeNext, StoredInit, StoredNext, PTL DEF LeaseSpec

(* ---------------------------------------------------------------------- *)
(* Disconnecting                                                           *)

LEMMA QuietInit == LeaseInit => QuietStaysQuiet
BY DEF LeaseInit, QuietStaysQuiet, Exchanging, NoCredentials

LEMMA QuietNext == LeaseTypeOK /\ QuietStaysQuiet /\ [LeaseNext]_leaseVars => QuietStaysQuiet'
<1> SUFFICES ASSUME LeaseTypeOK, QuietStaysQuiet, [LeaseNext]_leaseVars PROVE QuietStaysQuiet'
  OBVIOUS
<1> USE DEF jiraVars, history, QuietStaysQuiet, Exchanging
<1>1. ASSUME NEW u \in Owners, Expire(u) \/ Revoke(u) PROVE QuietStaysQuiet'
  BY <1>1 DEF Expire, Revoke
<1>2. ASSUME NEW u \in Owners, UpsertTokens(u) PROVE QuietStaysQuiet'
  <2>1. /\ wanted'[u] = TRUE
        /\ \A v \in Owners : v # u => doc'[v] = doc[v] /\ wanted'[v] = wanted[v]
        /\ UNCHANGED <<exposed, stage, req>>
    BY <1>2 DEF UpsertTokens, LeaseTypeOK
  <2> QED
    BY <2>1
<1>3. ASSUME NEW u \in Owners, ClearCredentials(u) PROVE QuietStaysQuiet'
  <2>1. /\ doc'[u].acc = 0
        /\ \A v \in Owners : v # u =>
             doc'[v] = doc[v] /\ wanted'[v] = wanted[v] /\ exposed'[v] = exposed[v]
        /\ UNCHANGED <<stage, req>>
    BY <1>3 DEF ClearCredentials, LeaseTypeOK, NoCredentials
  <2>2. exposed'[u] <=> Exchanging(u)
    BY <1>3 DEF ClearCredentials, LeaseTypeOK
  <2> QED
    BY <2>1, <2>2
<1>4. ASSUME NEW c \in Callers, NEW u \in Owners, SendRequest(c, u) PROVE QuietStaysQuiet'
  <2>1. /\ UNCHANGED <<doc, wanted, exposed>>
        /\ \A d \in Callers : stage'[d] \in {"refresh", "save"} =>
             stage[d] = stage'[d] /\ req'[d] = req[d]
    BY <1>4 DEF SendRequest, LeaseTypeOK
  <2> QED
    BY <2>1
<1>5. ASSUME NEW c \in Callers, Handler(c) PROVE QuietStaysQuiet'
  <2>1. UNCHANGED <<wanted, exposed>>
    BY <1>5 DEF Handler, Reads, ReadRejects, ReadFresh, ReadStale, Acquire, Rereads,
                RereadRejects, RereadFresh, RereadStale, Exchange, ExchangeOk,
                ExchangeFails, ExchangeLost, Save, SaveOk, SaveFails,
                Answer, Deliver, DropAnswer
  <2>2. CASE RereadStale(c)
    <3>1. /\ UNCHANGED <<doc, req>> /\ stage[c] = "reread"
          /\ stage' = [stage EXCEPT ![c] = "refresh"]
          /\ doc[req[c]].acc # 0
      BY <2>2 DEF RereadStale
    <3> QED
      BY <2>1, <3>1 DEF LeaseTypeOK
  <2>3. CASE Save(c)
    <3>1. /\ stage[c] = "save" /\ req[c] \in Owners
          /\ \A u \in Owners : u # req[c] => doc'[u] = doc[u]
      BY <2>3, ActiveHasUser DEF Save, SaveOk, SaveFails, WriteTokens, LeaseTypeOK
    <3>2. \A d \in Callers : stage'[d] \in {"refresh", "save"} =>
            stage[d] = stage'[d] /\ req'[d] = req[d]
      BY <2>3 DEF Save, SaveOk, SaveFails, Return, ReturnLease, LeaseTypeOK
    <3> QED
      BY <2>1, <3>1, <3>2
  <2>4. CASE Exchange(c)
    <3>1. /\ UNCHANGED doc /\ stage[c] = "refresh"
          /\ \A d \in Callers : stage'[d] \in {"refresh", "save"} =>
               stage[d] \in {"refresh", "save"} /\ req'[d] = req[d]
      <4>1. CASE ExchangeOk(c)
        BY <4>1 DEF ExchangeOk, LeaseTypeOK
      <4>2. CASE ExchangeFails(c) \/ ExchangeLost(c)
        <5>1. Return(c) /\ UNCHANGED doc /\ stage[c] = "refresh"
          BY <4>2 DEF ExchangeFails, ExchangeLost
        <5> QED
          BY <5>1 DEF Return, LeaseTypeOK
      <4> QED
        BY <2>4, <4>1, <4>2 DEF Exchange
    <3> QED
      BY <2>1, <3>1
  <2>5. CASE Reads(c) \/ RereadRejects(c) \/ RereadFresh(c) \/ Acquire(c) \/ Answer(c)
    <3>1. /\ UNCHANGED doc
          /\ \A d \in Callers : stage'[d] \in {"refresh", "save"} =>
               stage[d] = stage'[d] /\ req'[d] = req[d]
      BY <2>5 DEF Reads, ReadRejects, ReadFresh, ReadStale, RereadRejects, RereadFresh,
                  Acquire, Answer, Deliver, DropAnswer, Return, ReturnLease, LeaseTypeOK
    <3> QED
      BY <2>1, <3>1
  <2> QED
    BY <1>5, <2>2, <2>3, <2>4, <2>5 DEF Handler, Rereads
<1>6. CASE LeaseCrash
  BY <1>6 DEF LeaseCrash
<1>7. CASE UNCHANGED leaseVars
  BY <1>7 DEF leaseVars
<1> QED
  BY <1>1, <1>2, <1>3, <1>4, <1>5, <1>6, <1>7 DEF LeaseNext, Environment

\* A user who disconnects while no exchange is in flight stays disconnected
\* until the next connect, however many handlers were waiting for the mutex.
THEOREM DisconnectWhenQuiet == LeaseSpec => []DisconnectSticksWhenQuiet
<1>1. QuietStaysQuiet => DisconnectSticksWhenQuiet
  BY DEF QuietStaysQuiet, DisconnectSticksWhenQuiet
<1> QED
  BY <1>1, TypeInit, TypeNext, QuietInit, QuietNext, PTL DEF LeaseSpec
=============================================================================
