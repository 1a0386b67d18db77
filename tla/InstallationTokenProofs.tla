---------------------- MODULE InstallationTokenProofs ----------------------
(***************************************************************************)
(* What InstallationToken promises, for every number of threads and every  *)
(* choice of lifetime, margin and timeout with the proportions of the code *)
(* (InstallationTokenAssumption).                                          *)
(***************************************************************************)
EXTENDS InstallationToken, TLAPS

\* Whoever is in the mint holds the lock, and nobody else does.
Holder == \A t \in Threads : at[t] \in Minting <=> lock = t

\* A token that is still handed out has the margin left beyond that.
MarginIsKept == due > 0 => life >= due + Margin

\* A command was given a token with more than the margin left.
MarginWasGiven == \A t \in Threads : at[t] = "running" => own[t] + age[t] > Margin

\* The App is absent, or is not the one just looked up, only if that changed
\* during the mint.
AbsenceIsNoticed ==
  \A t \in Threads :
    /\ at[t] \in Minting /\ github = 0 => disturbed
    /\ at[t] = "creating again" /\ installation # github => disturbed

IInv ==
  /\ TypeOK /\ Holder /\ MintsAreShared
  /\ MarginIsKept /\ MarginWasGiven /\ AbsenceIsNoticed

\* The initial state satisfies the invariant.
LEMMA InitIInv == Init => IInv
<1> SUFFICES ASSUME Init PROVE IInv
  OBVIOUS
<1>1. 0 \in 0..Lifetime /\ 0 \in 0..MaxInstalled /\ 0 \in 0..Timeout
  BY InstallationTokenAssumption
<1>2. TypeOK
  BY <1>1 DEF Init, TypeOK
<1>3. \A t \in Threads : at[t] \notin Minting /\ at[t] # "running" /\ lock # t
  BY InstallationTokenAssumption DEF Init, Minting
<1>4. Holder /\ MintsAreShared /\ MarginWasGiven /\ AbsenceIsNoticed
  BY <1>3 DEF Holder, MintsAreShared, MarginWasGiven, AbsenceIsNoticed, Minting
<1>5. MarginIsKept
  BY DEF Init, MarginIsKept
<1> QED BY <1>2, <1>4, <1>5 DEF IInv

\* A reply is kept for a time that leaves the margin.
LEMMA TrustedLeavesMargin ==
  \A d \in Trusted : d \in 0..Lifetime /\ Lifetime >= d + Margin
BY InstallationTokenAssumption DEF Trusted

\* Every step of the thread that mints keeps the invariant.
LEMMA MintKeeps ==
  ASSUME IInv, NEW t \in Threads, Mint(t)
  PROVE  IInv'
<1> USE InstallationTokenAssumption
<1>1. TypeOK /\ lock = t /\ at[t] \in Minting /\ ~Good
  BY DEF IInv, Holder, MintsAreShared, Mint, Sign, Resolve, Create, InstallationGone, Missing,
         MintFails, Minting
<1>2. TypeOK'
  <2>1. CASE Create(t)
    <3>1. life' = Lifetime /\ due' \in 0..Lifetime /\ lock' = None
          /\ UNCHANGED <<installation, outside, disturbed>>
      BY <2>1, TrustedLeavesMargin DEF Create
    <3>2. at' = [at EXCEPT ![t] = "running"] /\ own' = [own EXCEPT ![t] = Lifetime]
          /\ age' = [age EXCEPT ![t] = 0]
      BY <2>1 DEF Create, Runs, Moves
    <3>3. Lifetime \in 0..Lifetime /\ 0 \in 0..Timeout
      OBVIOUS
    <3> QED BY <1>1, <3>1, <3>2, <3>3 DEF TypeOK, outside
  <2>2. CASE Resolve(t)
    BY <1>1, <2>2 DEF TypeOK, Resolve, Moves, outside, token, commands, Minting
  <2>3. CASE Sign(t) \/ InstallationGone(t)
    BY <1>1, <2>3 DEF TypeOK, Sign, InstallationGone, Moves, outside, token, commands, Minting
  <2>4. CASE Missing(t) \/ MintFails(t)
    BY <1>1, <2>4 DEF TypeOK, Missing, MintFails, Raises, Moves, outside, token, commands
  <2> QED BY <2>1, <2>2, <2>3, <2>4 DEF Mint
<1>3. \A u \in Threads \ {t} : at[u] \notin Minting /\ at'[u] = at[u] /\ own'[u] = own[u] /\ age'[u] = age[u]
  <2>1. \A u \in Threads \ {t} : at[u] \notin Minting
    BY <1>1 DEF IInv, Holder
  <2> QED
    BY <1>1, <2>1 DEF TypeOK, Mint, Sign, Resolve, Create, InstallationGone, Missing, MintFails, Raises,
       Runs, Moves, commands
<1>4. CASE Create(t)
  <2>1. at'[t] = "running" /\ own'[t] = Lifetime /\ age'[t] = 0
    BY <1>1, <1>4 DEF TypeOK, Create, Runs, Moves
  <2>2. Holder' /\ MintsAreShared' /\ AbsenceIsNoticed'
    BY <1>3, <1>4, <2>1 DEF Create, Holder, MintsAreShared, AbsenceIsNoticed, Minting
  <2>3. MarginIsKept'
    BY <1>4, TrustedLeavesMargin DEF Create, MarginIsKept
  <2>4. MarginWasGiven'
    BY <1>3, <2>1 DEF IInv, MarginWasGiven
  <2> QED BY <1>2, <2>2, <2>3, <2>4 DEF IInv
<1>5. CASE Sign(t) \/ Resolve(t) \/ InstallationGone(t)
  <2>1. at'[t] \in Minting /\ lock' = t /\ UNCHANGED <<token, outside, commands, disturbed>>
    BY <1>1, <1>5 DEF TypeOK, Sign, Resolve, InstallationGone, Moves, Minting
  <2>2. Holder' /\ MintsAreShared'
    BY <1>1, <1>3, <2>1 DEF Holder, MintsAreShared, Good, token
  <2>3. MarginIsKept' /\ MarginWasGiven'
    BY <1>3, <2>1 DEF IInv, MarginIsKept, MarginWasGiven, token, Minting
  <2>4. at'[t] = "creating again" => installation' = github'
    BY <1>1, <1>5, <2>1 DEF TypeOK, Sign, Resolve, InstallationGone, Moves, outside
  <2>5. AbsenceIsNoticed'
    BY <1>1, <1>3, <2>1, <2>4 DEF IInv, AbsenceIsNoticed, outside, Minting
  <2> QED BY <1>2, <2>2, <2>3, <2>5 DEF IInv
<1>6. CASE Missing(t) \/ MintFails(t)
  <2>1. at'[t] \in {"missing", "idle"} /\ lock' = None /\ UNCHANGED <<token, outside, commands, disturbed>>
    BY <1>1, <1>6 DEF TypeOK, Missing, MintFails, Raises, Moves
  <2>2. Holder' /\ MintsAreShared' /\ AbsenceIsNoticed'
    BY <1>3, <2>1 DEF Holder, MintsAreShared, AbsenceIsNoticed, Minting
  <2>3. MarginIsKept' /\ MarginWasGiven'
    BY <1>3, <2>1 DEF IInv, MarginIsKept, MarginWasGiven, token
  <2> QED BY <1>2, <2>2, <2>3 DEF IInv
<1> QED BY <1>4, <1>5, <1>6 DEF Mint

\* So does asking for a token, and getting the one in hand or the lock.
LEMMA AskKeeps ==
  ASSUME IInv, NEW t \in Threads, Ask(t) \/ Reuse(t) \/ BeginMint(t) \/ CommandEnds(t)
  PROVE  IInv'
<1> USE InstallationTokenAssumption
<1>1. TypeOK BY DEF IInv
<1>2. TypeOK'
  <2>1. CASE Ask(t) \/ CommandEnds(t)
    BY <1>1, <2>1 DEF TypeOK, Ask, CommandEnds, Moves, token, outside, commands
  <2>2. CASE Reuse(t)
    <3>1. at' = [at EXCEPT ![t] = "running"] /\ own' = [own EXCEPT ![t] = life]
          /\ age' = [age EXCEPT ![t] = 0] /\ UNCHANGED <<token, installation, outside, lock, disturbed>>
      BY <2>2 DEF Reuse, Runs, Moves
    <3>2. 0 \in 0..Timeout
      OBVIOUS
    <3> QED BY <1>1, <3>1, <3>2 DEF TypeOK, token, outside
  <2>3. CASE BeginMint(t)
    BY <1>1, <2>3 DEF TypeOK, BeginMint, Moves, token, outside, commands, Minting
  <2> QED BY <2>1, <2>2, <2>3
<1>3. at[t] \notin Minting /\ lock # t
  BY <1>1 DEF IInv, Holder, Ask, Reuse, BeginMint, CommandEnds, Minting
<1>4. \A u \in Threads \ {t} : at'[u] = at[u] /\ own'[u] = own[u] /\ age'[u] = age[u]
  BY <1>1 DEF TypeOK, Ask, Reuse, BeginMint, CommandEnds, Runs, Moves, commands
<1>5. UNCHANGED <<token, installation, outside>>
  BY DEF Ask, Reuse, BeginMint, CommandEnds
<1>6. MarginIsKept'
  BY <1>5 DEF IInv, MarginIsKept, token
<1>7. CASE BeginMint(t)
  <2>1. at'[t] = "signing" /\ lock' = t /\ lock = None /\ ~Good /\ disturbed' = (github = 0)
        /\ UNCHANGED commands
    BY <1>1, <1>7 DEF TypeOK, BeginMint, Moves
  <2>2. \A u \in Threads : at[u] \notin Minting
    BY <2>1 DEF IInv, Holder
  <2>3. Holder' /\ MintsAreShared' /\ MarginWasGiven'
    BY <1>4, <1>5, <2>1, <2>2 DEF IInv, Holder, MintsAreShared, MarginWasGiven, Good, token, Minting
  <2>4. AbsenceIsNoticed'
    BY <1>4, <1>5, <2>1, <2>2 DEF AbsenceIsNoticed, outside, Minting
  <2> QED BY <1>2, <1>6, <2>3, <2>4 DEF IInv
<1>8. CASE Ask(t) \/ Reuse(t) \/ CommandEnds(t)
  <2>1. at'[t] \notin Minting /\ UNCHANGED <<lock, disturbed>>
    BY <1>1, <1>8 DEF TypeOK, Ask, Reuse, CommandEnds, Runs, Moves, Minting
  <2>2. Holder' /\ MintsAreShared' /\ AbsenceIsNoticed'
    BY <1>3, <1>4, <1>5, <2>1 DEF IInv, Holder, MintsAreShared, AbsenceIsNoticed, Good, token, outside, Minting
  <2>3. at'[t] = "running" => own'[t] + age'[t] > Margin
    BY <1>1, <1>8 DEF IInv, TypeOK, Ask, Reuse, CommandEnds, Runs, Moves, Good, MarginIsKept
  <2>4. MarginWasGiven'
    BY <1>4, <2>3 DEF IInv, MarginWasGiven
  <2> QED BY <1>2, <1>6, <2>2, <2>4 DEF IInv
<1> QED BY <1>7, <1>8

\* And the passing of time.
LEMMA TickKeeps ==
  ASSUME IInv, Tick
  PROVE  IInv'
<1> USE InstallationTokenAssumption
<1>1. TypeOK BY DEF IInv
<1>2. \A n \in Nat : Less(n) \in Nat /\ Less(n) <= n /\ (n > 0 => Less(n) = n - 1)
  BY DEF Less
<1>3. life' = Less(life) /\ due' = Less(due) /\ life \in Nat /\ due \in Nat
  BY <1>1 DEF TypeOK, Tick
<1>4. \A t \in Threads : own'[t] = IF at[t] = "running" THEN Less(own[t]) ELSE own[t]
  BY DEF Tick
<1>5. \A t \in Threads : age'[t] = IF at[t] = "running" THEN age[t] + 1 ELSE age[t]
  BY DEF Tick
<1>6. \A t \in Threads : own[t] \in 0..Lifetime /\ age[t] \in 0..Timeout
                      /\ (at[t] = "running" => age[t] < Timeout)
  BY <1>1 DEF TypeOK, Tick
<1>7. TypeOK'
  <2>1. life' \in 0..Lifetime /\ due' \in 0..Lifetime
    BY <1>1, <1>2, <1>3 DEF TypeOK
  <2>2. own' \in [Threads -> 0..Lifetime]
    BY <1>2, <1>6 DEF Tick
  <2>3. age' \in [Threads -> 0..Timeout]
    BY <1>6 DEF Tick
  <2> QED BY <1>1, <2>1, <2>2, <2>3 DEF TypeOK, Tick, outside
<1>8. Holder' /\ AbsenceIsNoticed'
  BY DEF IInv, Holder, AbsenceIsNoticed, Tick, outside
<1>9. MintsAreShared'
  BY <1>2, <1>3 DEF IInv, MintsAreShared, Good, Tick
<1>10. MarginIsKept'
  BY <1>2, <1>3 DEF IInv, MarginIsKept
<1>11. MarginWasGiven'
  <2> SUFFICES ASSUME NEW t \in Threads, at[t] = "running"
              PROVE  own'[t] + age'[t] > Margin
    BY DEF MarginWasGiven, Tick
  <2>1. own[t] + age[t] > Margin /\ age[t] < Timeout /\ own[t] \in Nat /\ age[t] \in Nat
    BY <1>6 DEF IInv, MarginWasGiven
  <2>2. own[t] > 0
    BY <2>1
  <2>3. own'[t] = own[t] - 1 /\ age'[t] = age[t] + 1
    BY <1>2, <1>4, <1>5, <2>1, <2>2
  <2> QED BY <2>1, <2>3
<1> QED BY <1>7, <1>8, <1>9, <1>10, <1>11 DEF IInv

\* And installing or removing the App.
LEMMA InstallationChangeKeeps ==
  ASSUME IInv, Install \/ Uninstall
  PROVE  IInv'
<1>1. TypeOK'
  <2>1. TypeOK BY DEF IInv
  <2>2. CASE Install
    <3>1. installed' = installed + 1 /\ github' = installed + 1 /\ installed < MaxInstalled
      BY <2>2 DEF Install
    <3>2. installed + 1 \in 0..MaxInstalled
      BY <2>1, <3>1, InstallationTokenAssumption DEF TypeOK
    <3> QED BY <2>1, <2>2, <3>1, <3>2 DEF TypeOK, Install, token, commands
  <2>3. CASE Uninstall
    <3>1. 0 \in 0..MaxInstalled
      BY InstallationTokenAssumption
    <3> QED BY <2>1, <2>3, <3>1 DEF TypeOK, Uninstall, token, commands
  <2> QED BY <2>2, <2>3
<1>2. Holder' /\ MintsAreShared' /\ MarginIsKept' /\ MarginWasGiven'
  BY DEF IInv, Holder, MintsAreShared, Good, MarginIsKept, MarginWasGiven, Install, Uninstall, token, commands
<1>3. AbsenceIsNoticed'
  BY DEF AbsenceIsNoticed, Install, Uninstall
<1> QED BY <1>1, <1>2, <1>3 DEF IInv

\* The invariant is inductive.
LEMMA NextKeeps == IInv /\ [Next]_vars => IInv'
<1> SUFFICES ASSUME IInv, [Next]_vars PROVE IInv'
  OBVIOUS
<1>1. CASE \E t \in Threads : Mint(t)
  BY <1>1, MintKeeps
<1>2. CASE \E t \in Threads : Ask(t) \/ Reuse(t) \/ BeginMint(t) \/ CommandEnds(t)
  BY <1>2, AskKeeps
<1>3. CASE Tick
  BY <1>3, TickKeeps
<1>4. CASE Install \/ Uninstall
  BY <1>4, InstallationChangeKeeps
<1>5. CASE UNCHANGED vars
  BY <1>5 DEF vars, IInv, TypeOK, Holder, MintsAreShared, Good, MarginIsKept, MarginWasGiven, AbsenceIsNoticed
<1> QED BY <1>1, <1>2, <1>3, <1>4, <1>5 DEF Next

\* The lock, the margin of the token in hand and of those given out, and what a
\* mint knows of the installation: IInv holds in every reachable state.
THEOREM Inductive == Spec => []IInv
BY InitIInv, NextKeeps, PTL DEF Spec

\* The token, the threads and the installation keep their shape.
THEOREM TypeCorrect == Spec => []TypeOK
<1>1. IInv => TypeOK
  BY DEF IInv
<1> QED BY <1>1, Inductive, PTL

\* No command is left running with an expired token.
THEOREM TokensOutliveCommands == Spec => []TokenOutlivesCommand
<1>1. IInv => TokenOutlivesCommand
  <2> SUFFICES ASSUME IInv, NEW t \in Threads, at[t] = "running"
              PROVE  own[t] > 0
    BY DEF TokenOutlivesCommand
  <2>1. own[t] + age[t] > Margin /\ own[t] \in Nat /\ age[t] \in 0..Timeout
    BY InstallationTokenAssumption DEF IInv, MarginWasGiven, TypeOK
  <2> QED BY <2>1, InstallationTokenAssumption
<1> QED BY <1>1, Inductive, PTL

\* Threads share a mint: none is begun while a good token is in hand.
THEOREM SharedMints == Spec => []MintsAreShared
<1>1. IInv => MintsAreShared
  BY DEF IInv
<1> QED BY <1>1, Inductive, PTL

\* The report that the App is not installed is never an artefact of what the
\* panel remembered.
THEOREM MissingReportsAreTrue == Spec => MissingIsTrue
<1>1. ASSUME IInv, [Next]_vars, NEW t \in Threads, at[t] # "missing", at'[t] = "missing"
      PROVE  disturbed
  <2>1. TypeOK BY <1>1 DEF IInv
  <2>2. PICK u \in Threads : Missing(u) \/ at'[t] = at[t]
                             \/ (\E step \in {"idle", "waiting", "running"} \cup Minting : Moves(u, step))
    BY <1>1 DEF Next, vars, Ask, Reuse, BeginMint, Mint, Sign, Resolve, Create, InstallationGone, Missing,
       MintFails, Raises, Runs, CommandEnds, Tick, Install, Uninstall, Minting, Moves
  <2>3. Missing(t)
    BY <1>1, <2>1, <2>2 DEF TypeOK, Missing, Raises, Moves, Minting
  <2> QED BY <1>1, <2>3 DEF IInv, AbsenceIsNoticed, Missing, Minting
<1>2. IInv /\ [Next]_vars => [\A t \in Threads : at[t] # "missing" /\ at'[t] = "missing" => disturbed]_vars
  BY <1>1
<1> QED BY <1>2, Inductive, PTL DEF MissingIsTrue, Spec

\* One thread mints at a time, and a lock that is taken is in the hands of a thread
\* that mints: however the mint failed (token() raises out of its with block), no
\* thread waits for a lock that nobody will give back.
OneMint ==
  /\ \A t, u \in Threads : at[t] \in Minting /\ at[u] \in Minting => t = u
  /\ lock # None => \E t \in Threads : lock = t /\ at[t] \in Minting

\* The lock of GitHubAppAuth excludes other mints and is never left behind: with
\* MintsEnd, which TLC checks, this is why a waiting thread gets its turn.
THEOREM LockIsNeverAbandoned == Spec => []OneMint
<1>1. IInv => OneMint
  BY DEF IInv, Holder, TypeOK, OneMint
<1> QED BY <1>1, Inductive, PTL
==============================================================================
