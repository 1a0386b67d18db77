-------------------------- MODULE InstallationToken --------------------------
(***************************************************************************)
(* The installation access token every Git and gh command of the panel     *)
(* authenticates with: GitHubAppAuth of control_panel/integrations/        *)
(* github_app.py, and the commands github.py and process.py run with it.   *)
(* Any number of threads may ask; one lock is held across a mint, which is *)
(* a signature and up to four calls.  Time passes in ticks, and clocks are *)
(* kept as what remains of them.  The start of a command after its token   *)
(* was handed out, and the reply to a call, are taken within their tick.   *)
(***************************************************************************)
EXTENDS Integers

CONSTANTS
  Threads,       \* threads that run commands
  None,          \* no thread
  Lifetime,      \* how long GitHub lets a token live: an hour
  Margin,        \* MARGIN
  UnknownExpiry, \* UNKNOWN_EXPIRY
  Timeout,       \* process.TIMEOUT, the longest a command runs
  MaxInstalled   \* bound: installations of the App, one after the other

ASSUME InstallationTokenAssumption ==
  /\ None \notin Threads
  /\ Margin \in Nat /\ Timeout \in 0..Margin
  /\ UnknownExpiry \in Nat /\ UnknownExpiry >= Margin
  /\ Lifetime \in Nat /\ Lifetime > Margin /\ Lifetime >= UnknownExpiry
  /\ MaxInstalled \in Nat

VARIABLES
  life,         \* of the token in hand, until GitHub's expiry; 0 also if there is none
  due,          \* time until _mint_again_at, 0 if it is reached
  installation, \* _installation, 0 for None
  github,       \* the App's installation on the repository, 0 if it has none
  installed,    \* installations made so far: ids are not used again
  lock,         \* the thread that holds _lock
  at,           \* the step each thread takes next
  own,          \* remaining life of the token each running command was given
  age,          \* time since it was
  disturbed     \* history: the App was absent or reinstalled during this mint

vars   == <<life, due, installation, github, installed, lock, at, own, age, disturbed>>
token  == <<life, due>>
outside == <<github, installed>>
commands == <<own, age>>

Minting == {"signing", "resolving", "creating", "resolving again", "creating again"}

TypeOK ==
  /\ life \in 0..Lifetime /\ due \in 0..Lifetime
  /\ installation \in 0..MaxInstalled /\ github \in 0..MaxInstalled
  /\ installed \in 0..MaxInstalled
  /\ lock \in Threads \cup {None}
  /\ at \in [Threads -> {"idle", "waiting", "running", "missing"} \cup Minting]
  /\ own \in [Threads -> 0..Lifetime] /\ age \in [Threads -> 0..Timeout]
  /\ disturbed \in BOOLEAN

Init ==
  /\ life = 0 /\ due = 0
  /\ installation = 0 /\ github = 0 /\ installed = 0
  /\ lock = None
  /\ at = [t \in Threads |-> "idle"]
  /\ own = [t \in Threads |-> 0] /\ age = [t \in Threads |-> 0]
  /\ disturbed = FALSE

------------------------------------------------------------------------------
(* token() *)

\* The token in hand is good for a while yet.
Good == due > 0

Moves(t, step) == at' = [at EXCEPT ![t] = step]

\* The command is started with the token.
Runs(t, remaining) ==
  /\ Moves(t, "running")
  /\ own' = [own EXCEPT ![t] = remaining]
  /\ age' = [age EXCEPT ![t] = 0]

\* github_run asks for a token and waits for the lock.
Ask(t) ==
  /\ at[t] = "idle"
  /\ Moves(t, "waiting")
  /\ UNCHANGED <<token, installation, outside, lock, commands, disturbed>>

Reuse(t) ==
  /\ at[t] = "waiting" /\ lock = None
  /\ Good
  /\ Runs(t, life)
  /\ UNCHANGED <<token, installation, outside, lock, disturbed>>

\* Faulty variant: the token in hand is looked at before the lock is asked for.
BeginMintUnchecked(t) ==
  /\ at[t] = "waiting" /\ lock = None
  /\ lock' = t
  /\ Moves(t, "signing")
  /\ disturbed' = (github = 0)
  /\ UNCHANGED <<token, installation, outside, commands>>

BeginMint(t) ==
  /\ at[t] = "waiting" /\ lock = None
  /\ ~Good
  /\ lock' = t
  /\ Moves(t, "signing")
  /\ disturbed' = (github = 0)
  /\ UNCHANGED <<token, installation, outside, commands>>

Sign(t) ==
  /\ at[t] = "signing"
  /\ Moves(t, IF installation = 0 THEN "resolving" ELSE "creating")
  /\ UNCHANGED <<token, installation, outside, lock, commands, disturbed>>

\* _resolve_installation: GitHub names the installation on this repository.
Resolve(t) ==
  /\ at[t] \in {"resolving", "resolving again"}
  /\ github # 0
  /\ installation' = github
  /\ Moves(t, IF at[t] = "resolving" THEN "creating" ELSE "creating again")
  /\ UNCHANGED <<token, outside, lock, commands, disturbed>>

\* Faulty variants: the token is kept until the moment it expires, or the margin
\* is added to that.
TrustedToTheEnd == {Lifetime, UnknownExpiry}
TrustedLonger == {Lifetime + Margin, UnknownExpiry + Margin}

\* How long the reply's token is kept: short of GitHub's expiry by the margin,
\* or briefly when the reply's expiry cannot be read (_expiry).
Trusted == {Lifetime - Margin, UnknownExpiry - Margin}

\* _create_token, and the end of token(): keep the token, release the lock.
Create(t) ==
  /\ at[t] \in {"creating", "creating again"}
  /\ installation = github
  /\ life' = Lifetime
  /\ due' \in Trusted
  /\ lock' = None
  /\ Runs(t, Lifetime)
  /\ UNCHANGED <<installation, outside, disturbed>>

\* An exception reaches the caller of token().
Raises(t, error) == Moves(t, error) /\ lock' = None

\* Faulty variant: a stale installation is reported at once.
InstallationGoneRaises(t) ==
  /\ at[t] = "creating"
  /\ installation # github
  /\ Raises(t, "missing")
  /\ UNCHANGED <<token, installation, outside, commands, disturbed>>

\* GitHub knows no such installation (_Missing): look again before giving up.
InstallationGone(t) ==
  /\ at[t] = "creating"
  /\ installation # github
  /\ Moves(t, "resolving again")
  /\ UNCHANGED <<token, installation, outside, lock, commands, disturbed>>

\* The App is not installed, or is gone again: _Missing reaches the caller.
Missing(t) ==
  /\ \/ at[t] \in {"resolving", "resolving again"} /\ github = 0
     \/ at[t] = "creating again" /\ installation # github
  /\ Raises(t, "missing")
  /\ UNCHANGED <<token, installation, outside, commands, disturbed>>

\* Faulty variant: a failed step starts the mint over, with the lock in hand.
MintFailsRetrying(t) ==
  /\ at[t] \in Minting
  /\ Moves(t, "signing")
  /\ UNCHANGED <<token, installation, outside, lock, commands, disturbed>>

\* openssl, the network or GitHub fails a step, in any other way.
MintFails(t) ==
  /\ at[t] \in Minting
  /\ Raises(t, "idle")
  /\ UNCHANGED <<token, installation, outside, commands, disturbed>>

------------------------------------------------------------------------------
(* Commands, time, GitHub *)

\* process.run: the command ends, or is ended; or the error was dealt with.
CommandEnds(t) ==
  /\ at[t] \in {"running", "missing"}
  /\ Moves(t, "idle")
  /\ UNCHANGED <<token, installation, outside, lock, commands, disturbed>>

Less(n) == IF n = 0 THEN 0 ELSE n - 1

\* A command that ran for Timeout is ended before time passes any further.
Tick ==
  /\ \A t \in Threads : at[t] = "running" => age[t] < Timeout
  /\ life' = Less(life) /\ due' = Less(due)
  /\ own' = [t \in Threads |-> IF at[t] = "running" THEN Less(own[t]) ELSE own[t]]
  /\ age' = [t \in Threads |-> IF at[t] = "running" THEN age[t] + 1 ELSE age[t]]
  /\ UNCHANGED <<installation, outside, lock, at, disturbed>>

Install ==
  /\ github = 0 /\ installed < MaxInstalled
  /\ installed' = installed + 1
  /\ github' = installed'
  /\ disturbed' = TRUE
  /\ UNCHANGED <<token, installation, lock, at, commands>>

Uninstall ==
  /\ github # 0
  /\ github' = 0
  /\ disturbed' = TRUE
  /\ UNCHANGED <<token, installation, installed, lock, at, commands>>

Mint(t) ==
  Sign(t) \/ Resolve(t) \/ Create(t) \/ InstallationGone(t) \/ Missing(t) \/ MintFails(t)

Next ==
  \/ \E t \in Threads : Ask(t) \/ Reuse(t) \/ BeginMint(t) \/ Mint(t) \/ CommandEnds(t)
  \/ Tick \/ Install \/ Uninstall

Spec == Init /\ [][Next]_vars

\* openssl and every call have a timeout, so the thread in a mint goes on.
FairSpec == Spec /\ \A t \in Threads : WF_vars(Mint(t))

------------------------------------------------------------------------------
(* Properties *)

\* No command is left running with a token that has expired: what the margin is
\* for, given that process.run ends a command no later than TIMEOUT.
TokenOutlivesCommand == \A t \in Threads : at[t] = "running" => own[t] > 0

\* "Threads share one mint": nobody asks GitHub for a token while one that is
\* good is in hand, whoever put it there since.
MintsAreShared == \A t \in Threads : at[t] \in Minting => ~Good

\* Nobody is told that the App is not installed while it was installed all along:
\* an installation remembered from before a reinstallation is found out.
MissingIsTrue ==
  [][\A t \in Threads : at[t] # "missing" /\ at'[t] = "missing" => disturbed]_vars

\* Whoever holds the lock gives it back: a mint ends in a token or in an error.
MintsEnd == \A t \in Threads : at[t] \in Minting ~> at[t] \notin Minting
==============================================================================
