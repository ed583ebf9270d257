---------------------------- MODULE Shell_proofs ----------------------------
(***************************************************************************)
(* Proofs about two parts that MCLocal takes, the shell's lines and its    *)
(* keys, for every value of their constants.                               *)
(*                                                                         *)
(* Shell: whatever a line is put together of, and whatever works earlier   *)
(* lines have left behind, the prompt comes back when what the line was    *)
(* waited for is over.                                                     *)
(*                                                                         *)
(* ShellInput: however the keys are mixed, the cursor is within the line,  *)
(* nano's within its text, and the history shows an entry there is.        *)
(***************************************************************************)
EXTENDS MCLocal, SequenceTheorems, FiniteSetTheorems, WellFoundedInduction, TLAPS

-----------------------------------------------------------------------------
(* Shell: a line, and the work it leaves behind.                            *)

ShellAssumed == MaxCommand \in Nat /\ MaxWork \in Nat /\ Workspace \in Dir /\ Root \in Dir

LEMMA LeastMember ==
  ASSUME NEW T, T \subseteq Nat, T # {}
  PROVE  \E x \in T : \A y \in T : x <= y
<1> DEFINE Less == OpToRel(<, Nat)
<1>1. PICK x \in T : \A y \in T : ~(<<y, x>> \in Less)
  BY NatLessThanWellFounded, WFMin
<1>2. ASSUME NEW y \in T PROVE x <= y
  <2>1. x \in Nat /\ y \in Nat
    OBVIOUS
  <2>2. y < x => <<y, x>> \in Less
    BY <2>1 DEF OpToRel
  <2> HIDE DEF Less
  <2> QED BY <1>1, <2>1, <2>2
<1> QED BY <1>2

\* What holds of 0 and is handed on holds up to n.
LEMMA HandedOn ==
  ASSUME NEW n \in Nat, NEW T, 0 \in T, \A i \in 1 .. n : i - 1 \in T => i \in T
  PROVE  \A i \in 0 .. n : i \in T
<1> DEFINE U == {i \in 0 .. n : i \notin T}
<1>1. ASSUME U # {} PROVE FALSE
  <2>1. U \subseteq Nat
    OBVIOUS
  <2> HIDE DEF U
  <2>2. PICK m \in U : \A y \in U : m <= y
    BY <1>1, <2>1, LeastMember
  <2> USE DEF U
  <2>3. m \in 0 .. n /\ m \notin T
    BY <2>2
  <2>4. m # 0
    BY <2>3
  <2>5. m \in 1 .. n /\ m - 1 \in 0 .. n /\ ~(m <= m - 1)
    BY <2>3, <2>4
  <2>6. m - 1 \notin U
    <3> HIDE DEF U
    <3> QED BY <2>2, <2>5
  <2>7. m - 1 \in T
    BY <2>5, <2>6
  <2> QED BY <2>3, <2>5, <2>7
<1> QED BY <1>1

\* A function that is built from its first value a step at a time, the step
\* a function of the place and of what comes before.
Builds(f, t, step, m) == f = [i \in 0 .. m |-> IF i = 0 THEN t ELSE step[i][f[i - 1]]]

LEMMA BuiltExists ==
  ASSUME NEW n \in Nat, NEW t, NEW step
  PROVE  \E f : Builds(f, t, step, n)
<1> DEFINE T == {m \in 0 .. n : \E f : Builds(f, t, step, m)}
<1>1. 0 \in T
  <2> DEFINE f == [i \in 0 .. 0 |-> t]
  <2>1. \A i \in 0 .. 0 : f[i] = IF i = 0 THEN t ELSE step[i][f[i - 1]]
    OBVIOUS
  <2>2. f = [i \in 0 .. 0 |-> f[i]]
    OBVIOUS
  <2> HIDE DEF f
  <2>3. Builds(f, t, step, 0)
    BY <2>1, <2>2 DEF Builds
  <2> QED BY <2>3
<1>2. ASSUME NEW m \in 1 .. n, m - 1 \in T
      PROVE  m \in T
  <2>1. PICK g : Builds(g, t, step, m - 1)
    BY <1>2
  <2>2. \A i \in 0 .. m - 1 : g[i] = IF i = 0 THEN t ELSE step[i][g[i - 1]]
    BY <2>1 DEF Builds
  <2> DEFINE f == [i \in 0 .. m |-> IF i = m THEN step[m][g[m - 1]] ELSE g[i]]
  <2>3. ASSUME NEW k \in 0 .. m
        PROVE  f[k] = IF k = 0 THEN t ELSE step[k][f[k - 1]]
    <3>1. CASE k = m
      <4>1. f[k] = step[m][g[m - 1]] /\ k # 0 /\ k - 1 \in 0 .. m /\ k - 1 # m
        BY <3>1
      <4>2. f[k - 1] = g[m - 1]
        BY <3>1, <4>1
      <4> HIDE DEF f
      <4> QED BY <3>1, <4>1, <4>2
    <3>2. CASE k # m
      <4>1. k \in 0 .. m - 1 /\ f[k] = g[k]
        BY <3>2
      <4>2. k # 0 => f[k - 1] = g[k - 1]
        <5>1. k # 0 => k - 1 \in 0 .. m /\ k - 1 # m
          BY <4>1
        <5> QED BY <5>1
      <4> HIDE DEF f
      <4> QED BY <2>2, <4>1, <4>2
    <3> QED BY <3>1, <3>2
  <2>4. f = [i \in 0 .. m |-> f[i]]
    OBVIOUS
  <2> HIDE DEF f
  <2>5. Builds(f, t, step, m)
    BY <2>3, <2>4 DEF Builds
  <2>6. m \in 0 .. n
    OBVIOUS
  <2> QED BY <2>5, <2>6
<1>3. n \in 0 .. n
  OBVIOUS
<1> HIDE DEF T
<1>4. n \in T
  BY <1>1, <1>2, <1>3, HandedOn
<1> QED BY <1>4 DEF T

-----------------------------------------------------------------------------
\* What a command makes of the state before it.
States ==
  [files : SUBSET (Dir \X Name), processCwd : Dir,
   works : [Sh!Work -> {"none", "running", "done"}], asked : Dir,
   code : {0, 1}, async : {Sh!NoWork} \cup Sh!Work, nano : {Sh!NoFile} \cup Name,
   due : SUBSET Sh!Work]

Free(s) == {w \in Sh!Work : s.works[w] = "none"}

\* The works of before go on as they were, and those that began are running;
\* the last word of the line is a work of its own, the editor, or neither.
Follows(s, old) ==
  /\ s \in States
  /\ \A w \in Sh!Work : old[w] # "none" => s.works[w] = old[w]
  /\ \A w \in Sh!Work : old[w] = "none" => s.works[w] \in {"none", "running"}
  /\ s.async # Sh!NoWork => s.works[s.async] = "running" /\ old[s.async] = "none"
  /\ s.nano # Sh!NoFile => s.async = Sh!NoWork
  /\ \A w \in s.due : w = s.async

LEMMA WorkIs == ASSUME ShellAssumed
                PROVE  /\ Sh!Work \subseteq Nat /\ Sh!NoWork \notin Sh!Work
                       /\ IsFiniteSet(Sh!Work)
<1>1. MaxWork \in Nat /\ 1 \in Nat
  BY DEF ShellAssumed
<1>2. IsFiniteSet(1 .. MaxWork)
  BY <1>1, FS_Interval
<1> QED BY <1>1, <1>2 DEF Sh!Work, Sh!NoWork

LEMMA ResultFollows ==
  ASSUME NEW old, NEW s, Follows(s, old), NEW code \in {0, 1}
  PROVE  /\ Follows(Sh!Result(s, code), old)
         /\ Sh!Result(s, code).works = s.works /\ Sh!Result(s, code).async = Sh!NoWork
         /\ Sh!Result(s, code).nano = Sh!NoFile /\ Sh!Result(s, code).files = s.files
         /\ Sh!Result(s, code).code = code /\ Sh!Result(s, code).due = {}
BY DEF Follows, Sh!Result, States

LEMMA FilesFollow ==
  ASSUME NEW old, NEW s, Follows(s, old), NEW f \in SUBSET (Dir \X Name)
  PROVE  /\ Follows([s EXCEPT !.files = f], old)
         /\ [s EXCEPT !.files = f].works = s.works
         /\ [s EXCEPT !.files = f].async = s.async
BY DEF Follows, States

LEMMA StartedFollows ==
  ASSUME ShellAssumed, NEW old, NEW s, Follows(s, old), Free(s) # {}
  PROVE  /\ Follows(Sh!Started(s), old)
         /\ Sh!Started(s).async \in Free(s)
         /\ Free(Sh!Started(s)) = Free(s) \ {Sh!Started(s).async}
<1> DEFINE Next1(w) == s.works[w] = "none" /\ \A v \in 1 .. w - 1 : s.works[v] # "none"
           w == CHOOSE x \in Sh!Work : Next1(x)
<1>1. \E x \in Sh!Work : Next1(x)
  <2>1. Free(s) \subseteq Nat /\ Free(s) \subseteq 1 .. MaxWork /\ MaxWork \in Nat
    BY WorkIs DEF Free, Sh!Work, ShellAssumed
  <2>2. PICK x \in Free(s) : \A y \in Free(s) : x <= y
    BY <2>1, LeastMember
  <2>3. ASSUME NEW v \in 1 .. x - 1 PROVE s.works[v] # "none"
    <3>1. v \in Sh!Work /\ ~(x <= v)
      BY <2>1, <2>2 DEF Sh!Work
    <3> QED BY <2>2, <3>1 DEF Free
  <2> QED BY <2>2, <2>3 DEF Free
<1>2. w \in Sh!Work /\ Next1(w)
  <2> HIDE DEF Next1
  <2> QED BY <1>1
<1>3. Sh!Started(s) = [Sh!Result(s, 0) EXCEPT !.works[w] = "running", !.async = w]
  BY DEF Sh!Started
<1>4. s.works[w] = "none"
  BY <1>2
<1> HIDE DEF w, Next1
<1> DEFINE r == Sh!Result(s, 0)
<1>5. /\ Follows(r, old) /\ r.works = s.works /\ r.nano = Sh!NoFile /\ r.due = {}
  BY ResultFollows
<1> HIDE DEF r
<1> DEFINE t == [r EXCEPT !.works[w] = "running", !.async = w]
<1>6. /\ t.works = [s.works EXCEPT ![w] = "running"] /\ t.async = w /\ t.nano = Sh!NoFile
      /\ t.due = {} /\ t \in States
  BY <1>2, <1>5 DEF Follows, States
<1>7. s.works \in [Sh!Work -> {"none", "running", "done"}]
  BY DEF Follows, States
<1>8. t.works[w] = "running" /\ \A v \in Sh!Work : v # w => t.works[v] = s.works[v]
  BY <1>2, <1>6, <1>7
<1>9. Sh!Started(s) = t
  BY <1>3 DEF r
<1> HIDE DEF t
<1>10. old[w] = "none"
  BY <1>2, <1>4 DEF Follows
<1>11. Follows(t, old)
  <2>1. \A v \in Sh!Work : old[v] # "none" => t.works[v] = old[v]
    BY <1>8, <1>10 DEF Follows
  <2>2. \A v \in Sh!Work : old[v] = "none" => t.works[v] \in {"none", "running"}
    BY <1>8 DEF Follows
  <2> QED BY <1>6, <1>8, <1>10, <2>1, <2>2 DEF Follows
<1>12. Free(t) = Free(s) \ {w} /\ w \in Free(s)
  BY <1>2, <1>4, <1>8 DEF Free
<1> QED BY <1>6, <1>9, <1>11, <1>12

Heavy(c) == c.kind \in {"npm", "node"}

LEMMA RunFollows ==
  ASSUME ShellAssumed, Sh!TypeOK, NEW old, NEW s, Follows(s, old), NEW c \in Sh!Command,
         Heavy(c) => Free(s) # {}
  PROVE  /\ Follows(Sh!Run(s, c), old)
         /\ \/ Free(Sh!Run(s, c)) = Free(s)
            \/ /\ Heavy(c) /\ Sh!Run(s, c).async \in Free(s)
               /\ Free(Sh!Run(s, c)) = Free(s) \ {Sh!Run(s, c).async}
<1>1. ASSUME NEW code \in {0, 1}
      PROVE  Follows(Sh!Result(s, code), old) /\ Free(Sh!Result(s, code)) = Free(s)
  BY ResultFollows DEF Free
<1>2. s \in States /\ cwd \in Dir
  BY DEF Follows, Sh!TypeOK
<1>3. ASSUME NEW r, Follows(r, old), r.works = s.works, NEW f \in SUBSET (Dir \X Name),
             Sh!Run(s, c) = [r EXCEPT !.files = f]
      PROVE  Follows(Sh!Run(s, c), old) /\ Free(Sh!Run(s, c)) = Free(s)
  <2>1. Follows([r EXCEPT !.files = f], old) /\ [r EXCEPT !.files = f].works = r.works
    BY <1>3, FilesFollow
  <2> QED BY <1>3, <2>1 DEF Free
<1>4. CASE c.kind = "cd"
  <2> DEFINE r == Sh!Result(s, 0)
             p == IF booted THEN c.dir ELSE r.processCwd
             t == [r EXCEPT !.processCwd = p, !.asked = c.dir]
  <2>1. c.dir \in Dir
    BY <1>4 DEF Sh!Command
  <2>2. Sh!Run(s, c) = t
    BY <1>4 DEF Sh!Run, Sh!Cd
  <2>3. Follows(r, old) /\ r.works = s.works
    BY ResultFollows
  <2> HIDE DEF r
  <2>4. p \in Dir
    BY <2>1, <2>3 DEF Follows, States
  <2> HIDE DEF p
  <2>5. /\ t \in States /\ t.works = r.works /\ t.async = r.async /\ t.nano = r.nano
        /\ t.due = r.due
    BY <2>1, <2>3, <2>4 DEF Follows, States
  <2> HIDE DEF t
  <2>6. Follows(t, old)
    BY <2>3, <2>5 DEF Follows
  <2> QED BY <2>2, <2>3, <2>5, <2>6 DEF Free
<1>5. CASE c.kind = "touch"
  <2>1. Sh!Run(s, c) = [Sh!Result(s, 0) EXCEPT !.files = @ \cup {<<cwd, c.name>>}] /\ c.name \in Name
    BY <1>5 DEF Sh!Run, Sh!Touch, Sh!Command
  <2> DEFINE r == Sh!Result(s, 0)
  <2>2. Follows(r, old) /\ r.works = s.works
    BY ResultFollows
  <2> DEFINE f == r.files \cup {<<cwd, c.name>>}
  <2>3. Sh!Run(s, c) = [r EXCEPT !.files = f]
    BY <2>1
  <2> HIDE DEF r
  <2>4. f \in SUBSET (Dir \X Name)
    BY <1>2, <2>1, <2>2 DEF Follows, States
  <2> HIDE DEF f
  <2> QED BY <1>3, <2>2, <2>3, <2>4
<1>6. CASE c.kind = "rm"
  <2>1. c.name \in Name /\ \E code \in {0, 1} :
          Sh!Run(s, c) = [Sh!Result(s, code) EXCEPT !.files = @ \ {<<cwd, c.name>>}]
    BY <1>6 DEF Sh!Run, Sh!Rm, Sh!Command, Sh!Status
  <2>2. PICK code \in {0, 1} : Sh!Run(s, c) = [Sh!Result(s, code) EXCEPT !.files = @ \ {<<cwd, c.name>>}]
    BY <2>1
  <2> DEFINE r == Sh!Result(s, code)
  <2>3. Follows(r, old) /\ r.works = s.works
    BY ResultFollows
  <2> DEFINE f == r.files \ {<<cwd, c.name>>}
  <2>4. Sh!Run(s, c) = [r EXCEPT !.files = f]
    BY <2>2
  <2> HIDE DEF r
  <2>5. f \in SUBSET (Dir \X Name)
    BY <2>3 DEF Follows, States
  <2> HIDE DEF f
  <2> QED BY <1>3, <2>3, <2>4, <2>5
<1>7. CASE c.kind \in {"test", "read", "false"}
  <2>1. \E code \in {0, 1} : Sh!Run(s, c) = Sh!Result(s, code)
    BY <1>7 DEF Sh!Run, Sh!Status, Sh!ReadRedirect
  <2> QED BY <1>1, <2>1
<1>8. CASE c.kind = "true"
  <2>1. Sh!Run(s, c) = Sh!Result(s, 0)
    BY <1>8 DEF Sh!Run
  <2> QED BY <1>1, <2>1
<1>9. CASE c.kind = "npm"
  <2>1. Sh!Run(s, c) = Sh!Started(s) /\ Heavy(c)
    BY <1>9 DEF Sh!Run, Heavy
  <2> QED BY <2>1, StartedFollows
<1>10. CASE c.kind = "node"
  <2>1. Heavy(c) /\ Sh!Run(s, c) = Sh!Node(s, c.name)
    BY <1>10 DEF Sh!Run, Heavy
  <2>2. CASE <<cwd, c.name>> \notin s.files \/ ~booted
    BY <1>1, <2>1, <2>2 DEF Sh!Node
  <2>3. CASE <<cwd, c.name>> \in s.files /\ booted
    <3> DEFINE r == Sh!Started(s)
    <3>1. Sh!Run(s, c) = [r EXCEPT !.processCwd = cwd]
      BY <2>1, <2>3 DEF Sh!Node
    <3>2. Follows(r, old) /\ r.async \in Free(s) /\ Free(r) = Free(s) \ {r.async}
      BY <2>1, StartedFollows
    <3> HIDE DEF r
    <3> DEFINE t == [r EXCEPT !.processCwd = cwd]
    <3>3. t \in States /\ t.works = r.works /\ t.async = r.async /\ t.nano = r.nano
          /\ t.due = r.due
      BY <1>2, <3>2 DEF Follows, States
    <3> HIDE DEF t
    <3>4. Follows(t, old) /\ Free(t) = Free(r)
      BY <3>2, <3>3 DEF Follows, Free
    <3> QED BY <2>1, <3>1, <3>2, <3>4 DEF t
  <2> QED BY <2>2, <2>3
<1>11. CASE c.kind = "nano"
  <2> DEFINE r == Sh!Result(s, 0)
             t == [r EXCEPT !.nano = c.name]
  <2>1. Sh!Run(s, c) = t /\ c.name \in Name
    BY <1>11 DEF Sh!Run, Sh!Command
  <2>2. Follows(r, old) /\ r.works = s.works /\ r.async = Sh!NoWork /\ r.due = {}
    BY ResultFollows
  <2> HIDE DEF r
  <2>3. t \in States /\ t.works = r.works /\ t.async = Sh!NoWork /\ t.due = {}
    BY <2>1, <2>2 DEF Follows, States
  <2> HIDE DEF t
  <2>4. Follows(t, old)
    BY <2>2, <2>3 DEF Follows
  <2> QED BY <2>1, <2>2, <2>3, <2>4 DEF Free
<1>12. c.kind \in {"cd", "touch", "rm", "test", "read", "node", "nano", "npm", "true", "false"}
  BY DEF Sh!Command
<1> QED BY <1>4, <1>5, <1>6, <1>7, <1>8, <1>9, <1>10, <1>11, <1>12

\* What is written to a file leaves no work that the prompt waits for.
LEMMA RedirectFollows ==
  ASSUME NEW old, NEW s, Follows(s, old), NEW to \in Sh!To
  PROVE  /\ Follows(Sh!WriteRedirect(s, to), old)
         /\ Free(Sh!WriteRedirect(s, to)) = Free(s)
<1>1. CASE to = Sh!NoFile
  BY <1>1 DEF Sh!WriteRedirect
<1>2. CASE to # Sh!NoFile
  <2> DEFINE f == s.files \cup {<<s.processCwd, to>>}
             t == [s EXCEPT !.files = f, !.async = Sh!NoWork, !.nano = Sh!NoFile, !.due = {}]
  <2>1. Sh!WriteRedirect(s, to) = t
    BY <1>2 DEF Sh!WriteRedirect
  <2>2. f \in SUBSET (Dir \X Name)
    BY <1>2 DEF Sh!To, Follows, States
  <2> HIDE DEF f
  <2>3. t \in States /\ t.works = s.works /\ t.async = Sh!NoWork /\ t.nano = Sh!NoFile /\ t.due = {}
    BY <2>2 DEF Follows, States
  <2> HIDE DEF t
  <2> QED BY <2>1, <2>3 DEF Follows, Free
<1> QED BY <1>1, <1>2

LEMMA PerformFollows ==
  ASSUME ShellAssumed, Sh!TypeOK, NEW old, NEW s, Follows(s, old), NEW c \in Sh!Word,
         Heavy(c.command) => Free(s) # {}
  PROVE  /\ Follows(Sh!Perform(s, c), old)
         /\ \/ Free(Sh!Perform(s, c)) = Free(s)
            \/ Heavy(c.command) /\ \E w \in Free(s) : Free(Sh!Perform(s, c)) = Free(s) \ {w}
<1> DEFINE r == Sh!Run(s, c.command)
           d == Sh!Begun(s.works, r.works)
           t == [r EXCEPT !.due = d]
<1>1. c.command \in Sh!Command /\ c.to \in Sh!To
  BY DEF Sh!Word
<1>2. /\ Follows(r, old)
      /\ \/ Free(r) = Free(s)
         \/ Heavy(c.command) /\ r.async \in Free(s) /\ Free(r) = Free(s) \ {r.async}
  BY <1>1, RunFollows
<1>3. Sh!Perform(s, c) = r \/ Sh!Perform(s, c) = Sh!WriteRedirect(t, c.to)
  BY DEF Sh!Perform
<1> HIDE DEF r
<1>4. d \subseteq Sh!Work /\ \A w \in d : w = r.async
  <2>1. \A w \in d : w \in Free(s) /\ w \notin Free(r)
    BY DEF Sh!Begun, Free
  <2> HIDE DEF d
  <2> QED BY <1>2, <2>1 DEF Free
<1> HIDE DEF d
<1>5. t \in States /\ t.works = r.works /\ t.async = r.async /\ t.nano = r.nano /\ t.due = d
  BY <1>2, <1>4 DEF Follows, States
<1> HIDE DEF t
<1>6. Follows(t, old) /\ Free(t) = Free(r)
  BY <1>2, <1>4, <1>5 DEF Follows, Free
<1>7. Follows(Sh!WriteRedirect(t, c.to), old) /\ Free(Sh!WriteRedirect(t, c.to)) = Free(r)
  BY <1>1, <1>6, RedirectFollows
<1> QED BY <1>2, <1>3, <1>7

\* The line's works that are to come after its first i commands.
Coming(given, i) == {j \in 1 .. Len(given) : j > i /\ Heavy(given[j].command)}

\* The state before a line, and what its commands make of it.
Before == [files |-> shellFiles, processCwd |-> processCwd, works |-> works,
           asked |-> asked, code |-> 0, async |-> Sh!NoWork, nano |-> Sh!NoFile, due |-> {}]

LEMMA LineIs ==
  ASSUME ShellAssumed, NEW given \in Sh!Line
  PROVE  /\ Len(given) \in Nat /\ DOMAIN given = 1 .. Len(given)
         /\ \A i \in 1 .. Len(given) : given[i] \in Sh!Word
<1> DEFINE S == Sh!Word
<1>1. PICK k \in 1 .. MaxCommand : given \in [1 .. k -> S]
  BY DEF Sh!Line
<1>2. k \in Nat
  BY DEF ShellAssumed
<1> HIDE DEF S
<1>3. given \in Seq(S) /\ Len(given) = k
  BY <1>1, <1>2
<1>4. \A i \in 1 .. k : given[i] \in S
  BY <1>1
<1> QED BY <1>1, <1>2, <1>3, <1>4 DEF S

LEMMA ExecutedFollows ==
  ASSUME ShellAssumed, Sh!TypeOK, NEW given \in Sh!Line, Sh!Room(given)
  PROVE  Follows(Sh!Executed(given), works)
<1> DEFINE n == Len(given)
           Runs(f) == f = [i \in 0 .. n |-> IF i = 0 THEN Before ELSE Sh!Step(f[i - 1], given[i])]
           after == CHOOSE f : Runs(f)
           Steady(s, i) ==
             /\ Follows(s, works) /\ IsFiniteSet(Free(s))
             /\ Cardinality(Coming(given, i)) <= Cardinality(Free(s))
<1>1. n \in Nat /\ \A i \in 1 .. n : given[i] \in Sh!Word
  BY LineIs
<1>2. Sh!Executed(given) = after[n]
  BY DEF Sh!Executed, Before
<1>3. Steady(Before, 0)
  <2>1. Follows(Before, works)
    BY DEF Sh!TypeOK, Follows, States, Before
  <2>2. Free(Before) = {w \in Sh!Work : works[w] = "none"}
    BY DEF Free, Before
  <2>3. IsFiniteSet(Free(Before))
    BY WorkIs, FS_Subset DEF Free
  <2>4. Coming(given, 0) = {i \in DOMAIN given : given[i].command.kind \in {"npm", "node"}}
    <3>1. DOMAIN given = 1 .. Len(given)
      BY LineIs
    <3>2. \A j \in 1 .. Len(given) : j > 0
      BY <1>1
    <3> QED BY <3>1, <3>2 DEF Coming, Heavy
  <2>5. \A S : Sh!Cardinality(S) = Cardinality(S)
    BY DEF Sh!Cardinality, Cardinality
  <2> QED BY <2>1, <2>2, <2>3, <2>4, <2>5 DEF Sh!Room
<1>4. ASSUME NEW i \in 1 .. n, NEW s, Steady(s, i - 1)
      PROVE  Steady(Sh!Step(s, given[i]), i)
  <2> DEFINE c == given[i].command
  <2>1. given[i] \in Sh!Word /\ i \in Nat /\ i - 1 \in Nat
    BY <1>1
  <2>2. IsFiniteSet(Coming(given, i - 1)) /\ IsFiniteSet(Coming(given, i))
    <3>1. IsFiniteSet(1 .. Len(given))
      BY <1>1, FS_Interval
    <3>2. Coming(given, i - 1) \subseteq 1 .. Len(given) /\ Coming(given, i) \subseteq 1 .. Len(given)
      BY DEF Coming
    <3> HIDE DEF n
    <3> QED BY <3>1, <3>2, FS_Subset
  <2>3. /\ ~Heavy(c) => Coming(given, i - 1) = Coming(given, i)
        /\ Heavy(c) => i \in Coming(given, i - 1) /\ Coming(given, i) = Coming(given, i - 1) \ {i}
        /\ Coming(given, i) \subseteq Coming(given, i - 1)
    <3>1. \A j \in 1 .. Len(given) : j > i - 1 <=> j > i \/ j = i
      BY <1>1
    <3>2. i \in 1 .. Len(given) /\ ~(i > i)
      BY <1>1
    <3> QED BY <3>1, <3>2 DEF Coming
  <2>4. /\ Cardinality(Coming(given, i)) \in Nat /\ Cardinality(Coming(given, i - 1)) \in Nat
        /\ Cardinality(Coming(given, i)) <= Cardinality(Coming(given, i - 1))
        /\ Heavy(c) => Cardinality(Coming(given, i)) = Cardinality(Coming(given, i - 1)) - 1
    BY <2>2, <2>3, FS_CardinalityType, FS_RemoveElement, FS_Subset
  <2>5. /\ Follows(s, works) /\ IsFiniteSet(Free(s)) /\ Cardinality(Free(s)) \in Nat
        /\ Cardinality(Coming(given, i - 1)) <= Cardinality(Free(s))
    BY <1>4, FS_CardinalityType
  <2>6. CASE Sh!Step(s, given[i]) = s
    BY <2>4, <2>5, <2>6
  <2>7. CASE Sh!Step(s, given[i]) = Sh!Perform(s, given[i])
    <3>1. Heavy(c) => Free(s) # {}
      <4>1. Heavy(c) => Cardinality(Free(s)) >= 1
        BY <2>4, <2>5
      <4>2. Cardinality({}) = 0
        BY FS_EmptySet
      <4>3. ASSUME Free(s) = {} PROVE ~Heavy(c)
        <5>1. Cardinality(Free(s)) = 0
          BY ONLY <4>2, <4>3
        <5> QED BY <4>1, <5>1
      <4> QED BY <4>3
    <3> HIDE DEF Steady, after, Runs
    <3>2. /\ Follows(Sh!Perform(s, given[i]), works)
          /\ \/ Free(Sh!Perform(s, given[i])) = Free(s)
             \/ Heavy(c) /\ \E w \in Free(s) : Free(Sh!Perform(s, given[i])) = Free(s) \ {w}
      BY <2>1, <2>5, <3>1, PerformFollows
    <3>3. CASE Free(Sh!Perform(s, given[i])) = Free(s)
      BY <2>4, <2>5, <2>7, <3>2, <3>3 DEF Steady
    <3>4. CASE Heavy(c) /\ \E w \in Free(s) : Free(Sh!Perform(s, given[i])) = Free(s) \ {w}
      <4>1. PICK w \in Free(s) : Free(Sh!Perform(s, given[i])) = Free(s) \ {w}
        BY <3>4
      <4>2. IsFiniteSet(Free(s) \ {w}) /\ Cardinality(Free(s) \ {w}) = Cardinality(Free(s)) - 1
        BY <2>5, FS_RemoveElement
      <4>3. Cardinality(Coming(given, i)) <= Cardinality(Free(s)) - 1
        BY <2>4, <2>5, <3>4
      <4> QED BY <2>7, <3>2, <4>1, <4>2, <4>3 DEF Steady
    <3> QED BY <3>2, <3>3, <3>4
  <2> QED BY <2>6, <2>7 DEF Sh!Step
<1> HIDE DEF Steady
<1>5. Runs(after)
  <2> DEFINE step == [i \in 1 .. n |-> [s \in States |-> Sh!Step(s, given[i])]]
  <2>1. PICK f : Builds(f, Before, step, n)
    BY <1>1, BuiltExists
  <2>2. \A i \in 0 .. n : f[i] = IF i = 0 THEN Before ELSE step[i][f[i - 1]]
    BY <2>1 DEF Builds
  <2>3. \A i \in 1 .. n, s \in States : step[i][s] = Sh!Step(s, given[i])
    OBVIOUS
  <2>4. \A i \in 1 .. n : i \in 0 .. n /\ i # 0 /\ i - 1 \in 0 .. n
    BY <1>1
  <2> HIDE DEF step, n
  <2> DEFINE T == {i \in 0 .. n : Steady(f[i], i)}
  <2>5. \A i \in 0 .. n : i \in T
    <3>1. 0 \in T
      BY <1>1, <1>3, <2>2
    <3>2. ASSUME NEW i \in 1 .. n, i - 1 \in T PROVE i \in T
      <4>1. Steady(f[i - 1], i - 1) /\ f[i - 1] \in States
        BY <3>2 DEF Steady, Follows
      <4>2. f[i] = Sh!Step(f[i - 1], given[i])
        BY <2>2, <2>3, <2>4, <4>1
      <4> QED BY <1>4, <2>4, <4>1, <4>2
    <3> HIDE DEF T
    <3> QED BY <1>1, <3>1, <3>2, HandedOn
  <2>6. ASSUME NEW i \in 1 .. n PROVE f[i] = Sh!Step(f[i - 1], given[i])
    <3>1. f[i - 1] \in States
      BY <2>4, <2>5 DEF Steady, Follows
    <3> QED BY <2>2, <2>3, <2>4, <3>1
  <2>7. f = [i \in 0 .. n |-> f[i]]
    BY <2>1 DEF Builds
  <2>8. \A i \in 0 .. n : f[i] = IF i = 0 THEN Before ELSE Sh!Step(f[i - 1], given[i])
    <3>1. \A i \in 0 .. n : i = 0 \/ i \in 1 .. n
      BY <1>1
    <3> QED BY <2>2, <2>6, <3>1
  <2>9. Runs(f)
    BY <2>7, <2>8
  <2> HIDE DEF Runs
  <2> QED BY <2>9
<1> HIDE DEF after
<1>6. \A i \in 0 .. n : after[i] = IF i = 0 THEN Before ELSE Sh!Step(after[i - 1], given[i])
  BY <1>5
<1> HIDE DEF Runs, n
<1> DEFINE T == {i \in 0 .. n : Steady(after[i], i)}
<1>7. 0 \in T
  BY <1>1, <1>3, <1>6
<1>8. ASSUME NEW i \in 1 .. n, i - 1 \in T PROVE i \in T
  <2>1. i \in 0 .. n /\ i # 0
    BY <1>1
  <2> QED BY <1>4, <1>6, <1>8, <2>1
<1>9. n \in T
  <2>1. n \in 0 .. n
    BY <1>1
  <2> HIDE DEF T
  <2> QED BY <1>1, <1>7, <1>8, <2>1, HandedOn
<1> QED BY <1>2, <1>9 DEF Steady

-----------------------------------------------------------------------------
\* The prompt waits for one work; what else runs was not its line's last word.
ShellInv ==
  /\ Sh!TypeOK
  /\ \A w \in Sh!Work : works[w] = "running" => w \in loose \/ w = awaited
  /\ shellBusy => awaited # Sh!NoWork
  /\ awaited # Sh!NoWork => shellBusy /\ works[awaited] = "running"

LEMMA ShellStep ==
  ASSUME ShellAssumed, ShellInv, [Sh!Next]_(Sh!vars)
  PROVE  ShellInv'
<1>1. ASSUME NEW given \in Sh!Line, NEW to \in Sh!To, Sh!Execute(given, to) PROVE ShellInv'
  <2> DEFINE s == Sh!WriteRedirect(Sh!Executed(given), to)
  <2>1. /\ ~shellBusy /\ editing = Sh!NoFile /\ Sh!Room(given)
        /\ shellFiles' = s.files /\ processCwd' = s.processCwd /\ works' = s.works
        /\ asked' = s.asked /\ editing' = s.nano
        /\ awaited' = Sh!Awaits(s) /\ shellBusy' = (Sh!Awaits(s) # Sh!NoWork)
        /\ loose' = loose \cup (Sh!Begun(works, s.works) \ s.due)
        /\ UNCHANGED <<cwd, booted>>
    BY <1>1 DEF Sh!Execute
  <2>2. Follows(s, works)
    <3>1. Follows(Sh!Executed(given), works)
      BY <2>1, ExecutedFollows DEF ShellInv
    <3> QED BY <3>1, RedirectFollows
  <2> HIDE DEF s
  <2>3. Sh!Awaits(s) = s.async
    BY <2>2 DEF Sh!Awaits, Follows
  <2>4. awaited = Sh!NoWork
    BY <2>1 DEF ShellInv
  <2>5. Sh!TypeOK'
    BY <2>1, <2>2, <2>3 DEF Follows, States, Sh!TypeOK, ShellInv, Sh!Begun
  <2>6. ASSUME NEW w \in Sh!Work, works'[w] = "running" PROVE w \in loose' \/ w = awaited'
    <3>1. CASE works[w] = "none"
      BY <2>1, <2>2, <2>3, <2>6, <3>1 DEF Follows, Sh!Begun
    <3>2. CASE works[w] # "none"
      <4>1. works[w] = "running"
        BY <2>1, <2>2, <2>6, <3>2 DEF Follows
      <4>2. w \in loose
        BY <2>4, <4>1, WorkIs DEF ShellInv
      <4> QED BY <2>1, <4>2
    <3> QED BY <3>1, <3>2
  <2> QED BY <2>1, <2>2, <2>3, <2>5, <2>6 DEF ShellInv, Follows
<1>2. ASSUME NEW w \in Sh!Work, Sh!WorkEnds(w) PROVE ShellInv'
  <2>1. works' = [works EXCEPT ![w] = "done"] /\ works \in [Sh!Work -> {"none", "running", "done"}]
    BY <1>2 DEF Sh!WorkEnds, ShellInv, Sh!TypeOK
  <2>2. works'[w] = "done" /\ \A v \in Sh!Work : v # w => works'[v] = works[v]
    BY <2>1
  <2>3. awaited \in {Sh!NoWork} \cup Sh!Work /\ w # Sh!NoWork
    BY WorkIs DEF ShellInv, Sh!TypeOK
  <2>4. /\ awaited' = IF awaited = w THEN Sh!NoWork ELSE awaited
        /\ shellBusy' = (awaited \notin {w, Sh!NoWork})
        /\ UNCHANGED <<cwd, processCwd, booted, shellFiles, editing, asked, loose>>
    BY <1>2 DEF Sh!WorkEnds
  <2>5. Sh!TypeOK'
    BY <2>1, <2>3, <2>4 DEF ShellInv, Sh!TypeOK
  <2>6. \A v \in Sh!Work : works'[v] = "running" => v \in loose' \/ v = awaited'
    BY <2>2, <2>4 DEF ShellInv
  <2> QED BY <2>2, <2>3, <2>4, <2>5, <2>6 DEF ShellInv
<1>3. CASE Sh!NanoSave
  <2>1. editing \in Name /\ cwd \in Dir
    BY <1>3 DEF Sh!NanoSave, ShellInv, Sh!TypeOK
  <2> QED BY <1>3, <2>1 DEF Sh!NanoSave, ShellInv, Sh!TypeOK
<1>4. CASE Sh!NanoExit
  BY <1>4 DEF Sh!NanoExit, ShellInv, Sh!TypeOK
<1>5. CASE Sh!Boot
  BY <1>5 DEF Sh!Boot, ShellInv, Sh!TypeOK, ShellAssumed
<1>6. CASE UNCHANGED Sh!vars
  BY <1>6 DEF Sh!vars, ShellInv, Sh!TypeOK
<1> QED BY <1>1, <1>2, <1>3, <1>4, <1>5, <1>6 DEF Sh!Next, Sh!Plain, Sh!To

LEMMA ShellStart == ASSUME ShellAssumed, Sh!Init PROVE ShellInv
<1>1. \A w \in Sh!Work : works[w] = "none"
  BY DEF Sh!Init
<1>2. Sh!TypeOK
  BY DEF Sh!Init, Sh!TypeOK, ShellAssumed
<1> QED BY <1>1, <1>2 DEF Sh!Init, ShellInv

(* However lines are put together, when the keys are taken again nothing    *)
(* runs on but what a line began before its last command, or with its       *)
(* output sent to a file.                                                   *)
THEOREM PromptMeansDoneAlways ==
  ASSUME ShellAssumed
  PROVE  Sh!Spec => [](Sh!TypeOK /\ Sh!PromptMeansDone)
<1>1. ShellInv => Sh!TypeOK /\ Sh!PromptMeansDone
  BY WorkIs DEF ShellInv, Sh!PromptMeansDone
<1> QED BY <1>1, ShellStart, ShellStep, PTL DEF Sh!Spec

-----------------------------------------------------------------------------
(* ShellInput: the keys of a line, of its history and of nano.              *)

InputAssumed ==
  MaxLength \in Nat /\ MaxHistory \in Nat /\ MaxRows \in Nat /\ Words \subseteq Seq(Input!Character)

InputInv ==
  /\ line \in Seq(Input!Character) /\ cursorPos \in 0 .. Len(line)
  /\ history \in Seq(Seq(Input!Character)) /\ historyTmp \in Seq(Input!Character)
  /\ draft \in Seq(Input!Character) /\ abandoned \in BOOLEAN /\ busy \in BOOLEAN
  /\ historyIdx # Input!NotBrowsing =>
       historyIdx \in 0 .. Len(history) - 1 /\ (historyTmp = draft \/ abandoned)
  /\ text \in Seq(Seq(Input!Character)) /\ row \in Nat /\ col \in Nat
  /\ text # << >> => row < Len(text) /\ col <= Len(text[row + 1])

\* The last place up to n that is one of T.
LEMMA LastPlace ==
  ASSUME NEW n \in Nat, NEW T, T \subseteq 0 .. n, T # {}
  PROVE  \E k \in T : \A j \in 0 .. n : j > k => j \notin T
<1> DEFINE U == {n - k : k \in T}
<1>0. \A k \in T : n - k \in Nat
  <2>1. ASSUME NEW k \in T PROVE n - k \in Nat
    <3>1. k \in 0 .. n
      OBVIOUS
    <3> QED BY <3>1
  <2> QED BY <2>1
<1>1. U \subseteq Nat /\ U # {}
  BY <1>0
<1> HIDE DEF U
<1>2. PICK u \in U : \A y \in U : u <= y
  BY <1>1, LeastMember
<1> USE DEF U
<1>3. PICK k \in T : u = n - k
  BY <1>2
<1>4. ASSUME NEW j \in 0 .. n, j > k, j \in T PROVE FALSE
  <2>1. n - j \in U
    BY <1>4
  <2>2. u <= n - j
    <3> HIDE DEF U
    <3> QED BY <1>2, <2>1
  <2>3. k \in Nat /\ j \in Nat
    BY <1>4
  <2> QED BY <1>3, <1>4, <2>2, <2>3
<1> QED BY <1>4

\* The two parts of a sequence, and one that is put together of three.
LEMMA PartsAre ==
  ASSUME NEW S, NEW s \in Seq(S), NEW m \in 0 .. Len(s)
  PROVE  /\ SubSeq(s, 1, m) \in Seq(S) /\ Len(SubSeq(s, 1, m)) = m
         /\ SubSeq(s, m + 1, Len(s)) \in Seq(S)
         /\ Len(SubSeq(s, m + 1, Len(s))) = Len(s) - m
<1> DEFINE n == Len(s)
<1>1. n \in Nat /\ m \in Nat /\ m <= n /\ \A i \in 1 .. n : s[i] \in S
  BY LenProperties, ElementOfSeq
<1> HIDE DEF n
<1>2. \A i \in 1 .. m : s[i] \in S
  BY <1>1
<1>3. \A i \in m + 1 .. n : s[i] \in S
  BY <1>1
<1>4. SubSeq(s, 1, m) \in Seq(S) /\ Len(SubSeq(s, 1, m)) = IF 1 <= m THEN m - 1 + 1 ELSE 0
  BY <1>1, <1>2, SubSeqProperties
<1>5. /\ SubSeq(s, m + 1, n) \in Seq(S)
      /\ Len(SubSeq(s, m + 1, n)) = IF m + 1 <= n THEN n - (m + 1) + 1 ELSE 0
  <2>1. m + 1 \in Int /\ n \in Int
    BY <1>1
  <2> QED BY <1>3, <2>1, SubSeqProperties
<1> QED BY <1>1, <1>4, <1>5 DEF n

LEMMA JoinIs ==
  ASSUME NEW S, NEW a \in Seq(S), NEW b \in Seq(S), NEW c \in Seq(S)
  PROVE  /\ a \o b \o c \in Seq(S)
         /\ Len(a \o b \o c) = Len(a) + Len(b) + Len(c)
         /\ \A i \in 1 .. Len(b) : (a \o b \o c)[Len(a) + i] = b[i]
<1>1. /\ a \o b \in Seq(S) /\ Len(a \o b) = Len(a) + Len(b)
      /\ \A i \in 1 .. Len(a) + Len(b) : (a \o b)[i] = IF i <= Len(a) THEN a[i] ELSE b[i - Len(a)]
  BY ConcatProperties
<1>2. Len(a) \in Nat /\ Len(b) \in Nat /\ Len(c) \in Nat
  BY LenProperties
<1> DEFINE d == a \o b
<1> HIDE DEF d
<1>3. d \in Seq(S) /\ Len(d) = Len(a) + Len(b)
  BY <1>1 DEF d
<1>4. /\ d \o c \in Seq(S) /\ Len(d \o c) = Len(d) + Len(c)
      /\ \A i \in 1 .. Len(d) + Len(c) : (d \o c)[i] = IF i <= Len(d) THEN d[i] ELSE c[i - Len(d)]
  <2>1. d \in Seq(S)
    BY <1>3
  <2> QED BY ONLY <2>1, c \in Seq(S), ConcatProperties
<1>5. ASSUME NEW i \in 1 .. Len(b) PROVE (d \o c)[Len(a) + i] = b[i]
  <2>1. /\ Len(a) + i \in 1 .. Len(d) + Len(c) /\ Len(a) + i <= Len(d)
        /\ Len(a) + i \in 1 .. Len(a) + Len(b) /\ ~(Len(a) + i <= Len(a))
        /\ Len(a) + i - Len(a) = i
    BY <1>2, <1>3
  <2>2. d[Len(a) + i] = b[i]
    BY <1>1, <2>1 DEF d
  <2> QED BY <1>4, <2>1, <2>2
<1> QED BY <1>2, <1>3, <1>4, <1>5 DEF d

-----------------------------------------------------------------------------
\* The line's keys.
LEMMA EditKeeps ==
  ASSUME InputInv, NEW s \in Seq(Input!Character), NEW k \in 0 .. Len(s), Input!Edit(s, k)
  PROVE  InputInv'
BY DEF InputInv, Input!Edit, Input!historyVars, Input!nanoVars

LEMMA InputLineIs ==
  ASSUME InputInv
  PROVE  /\ Input!Before \in Seq(Input!Character) /\ Len(Input!Before) = cursorPos
         /\ Input!After \in Seq(Input!Character) /\ Len(Input!After) = Len(line) - cursorPos
         /\ Len(line) \in Nat /\ cursorPos \in Nat /\ cursorPos <= Len(line)
<1>1. line \in Seq(Input!Character) /\ cursorPos \in 0 .. Len(line) /\ Len(line) \in Nat
  BY LenProperties DEF InputInv
<1> QED BY <1>1, PartsAre DEF Input!Before, Input!After

LEMMA TypeKeeps ==
  ASSUME InputInv, NEW c \in Input!Character, Input!Type(c)
  PROVE  InputInv'
<1> DEFINE s == Input!Before \o <<c>> \o Input!After
<1>1. s \in Seq(Input!Character) /\ Len(s) = cursorPos + 1 + (Len(line) - cursorPos)
  <2>1. <<c>> \in Seq(Input!Character) /\ Len(<<c>>) = 1
    OBVIOUS
  <2> QED BY <2>1, InputLineIs, JoinIs
<1>2. Input!Edit(s, cursorPos + 1)
  BY DEF Input!Type
<1> HIDE DEF s
<1>3. cursorPos + 1 \in 0 .. Len(s)
  BY <1>1, InputLineIs
<1> QED BY <1>1, <1>2, <1>3, EditKeeps

LEMMA KillsKeep ==
  ASSUME InputInv, Input!KillLine \/ Input!KillToEnd
  PROVE  InputInv'
<1>1. << >> \in Seq(Input!Character) /\ 0 \in 0 .. Len(<< >>)
  OBVIOUS
<1>2. Input!Before \in Seq(Input!Character) /\ cursorPos \in 0 .. Len(Input!Before)
  BY InputLineIs
<1> QED BY <1>1, <1>2, EditKeeps DEF Input!KillLine, Input!KillToEnd

LEMMA BackspaceKeeps ==
  ASSUME InputInv, Input!Backspace
  PROVE  InputInv'
<1> DEFINE s == Input!Front(Input!Before) \o Input!After
<1>1. cursorPos > 0 /\ Input!Edit(s, cursorPos - 1)
  BY DEF Input!Backspace
<1>2. Input!Front(Input!Before) \in Seq(Input!Character) /\ Len(Input!Front(Input!Before)) = cursorPos - 1
  <2>1. Len(Input!Before) - 1 \in 0 .. Len(Input!Before) /\ Input!Before \in Seq(Input!Character)
    BY <1>1, InputLineIs
  <2>2. Input!Front(Input!Before) = SubSeq(Input!Before, 1, Len(Input!Before) - 1)
    BY DEF Input!Front
  <2> DEFINE m == Len(Input!Before) - 1
  <2>3. m \in 0 .. Len(Input!Before) /\ Input!Front(Input!Before) = SubSeq(Input!Before, 1, m) /\ m = cursorPos - 1
    BY <2>1, <2>2, InputLineIs
  <2> HIDE DEF m
  <2> QED BY <2>1, <2>3, PartsAre
<1>3. s \in Seq(Input!Character) /\ Len(s) = cursorPos - 1 + (Len(line) - cursorPos)
  <2> DEFINE a == Input!Front(Input!Before)
             b == Input!After
  <2>1. a \in Seq(Input!Character) /\ b \in Seq(Input!Character) /\ Len(a) = cursorPos - 1
        /\ Len(b) = Len(line) - cursorPos
    BY <1>2, InputLineIs
  <2> HIDE DEF a, b
  <2>2. a \o b \in Seq(Input!Character) /\ Len(a \o b) = Len(a) + Len(b)
    BY <2>1, ConcatProperties
  <2> QED BY <2>1, <2>2 DEF a, b
<1> HIDE DEF s
<1>4. cursorPos - 1 \in 0 .. Len(s)
  BY <1>1, <1>3, InputLineIs
<1> QED BY <1>1, <1>3, <1>4, EditKeeps

LEMMA DeleteKeeps ==
  ASSUME InputInv, Input!Delete
  PROVE  InputInv'
<1> DEFINE s == Input!Before \o Tail(Input!After)
<1>1. cursorPos < Len(line) /\ Input!Edit(s, cursorPos)
  BY DEF Input!Delete
<1>2. Input!After # << >> /\ Input!After \in Seq(Input!Character)
  BY <1>1, InputLineIs, EmptySeq
<1>3. Tail(Input!After) \in Seq(Input!Character) /\ Len(Tail(Input!After)) = Len(Input!After) - 1
  BY <1>2, HeadTailProperties
<1>4. s \in Seq(Input!Character) /\ Len(s) = cursorPos + (Len(Input!After) - 1)
  <2> DEFINE a == Input!Before
             b == Tail(Input!After)
  <2>1. a \in Seq(Input!Character) /\ b \in Seq(Input!Character) /\ Len(a) = cursorPos
        /\ Len(b) = Len(Input!After) - 1
    BY <1>3, InputLineIs
  <2> HIDE DEF a, b
  <2>2. a \o b \in Seq(Input!Character) /\ Len(a \o b) = Len(a) + Len(b)
    BY <2>1, ConcatProperties
  <2> QED BY <2>1, <2>2 DEF a, b
<1> HIDE DEF s
<1>5. cursorPos \in 0 .. Len(s)
  BY <1>1, <1>4, InputLineIs
<1> QED BY <1>1, <1>4, <1>5, EditKeeps

\* The line up to k, something else, and what is behind the cursor.
LEMMA ReplaceKeeps ==
  ASSUME InputInv, NEW k \in 0 .. cursorPos, NEW w \in Seq(Input!Character),
         Input!Edit(SubSeq(line, 1, k) \o w \o Input!After, k + Len(w))
  PROVE  InputInv'
<1> DEFINE s == SubSeq(line, 1, k) \o w \o Input!After
<1>1. k \in 0 .. Len(line) /\ line \in Seq(Input!Character) /\ k \in Nat
  BY InputLineIs DEF InputInv
<1>2. SubSeq(line, 1, k) \in Seq(Input!Character) /\ Len(SubSeq(line, 1, k)) = k
  BY <1>1, PartsAre
<1>3. s \in Seq(Input!Character) /\ Len(s) = k + Len(w) + Len(Input!After)
  BY <1>2, InputLineIs, JoinIs
<1>4. Input!Edit(s, k + Len(w))
  OBVIOUS
<1> HIDE DEF s
<1>5. k + Len(w) \in 0 .. Len(s)
  BY <1>1, <1>3, InputLineIs, LenProperties
<1> QED BY <1>3, <1>4, <1>5, EditKeeps

LEMMA WordStartIs ==
  ASSUME InputInv, cursorPos > 0
  PROVE  Input!WordStart \in 0 .. cursorPos
<1> DEFINE n == cursorPos - 1
           space(i) == line[i] = " "
           Ends(k) == (k = 0 \/ ~space(k)) /\ \A j \in k + 1 .. n : space(j)
           i == CHOOSE k \in 0 .. n : Ends(k)
           Starts(k) == (k = 0 \/ space(k)) /\ \A j \in k + 1 .. i : ~space(j)
<1>1. n \in Nat /\ n <= cursorPos
  BY InputLineIs
<1>2. i \in 0 .. n
  <2> DEFINE T == {k \in 0 .. n : k = 0 \/ ~space(k)}
  <2> HIDE DEF n, space
  <2>1. T \subseteq 0 .. n /\ T # {}
    BY <1>1
  <2>2. PICK k \in T : \A j \in 0 .. n : j > k => j \notin T
    <3> HIDE DEF T
    <3> QED BY <1>1, <2>1, LastPlace
  <2>3. ASSUME NEW j \in k + 1 .. n PROVE space(j)
    <3>1. j \in 0 .. n /\ j > k
      BY <1>1, <2>2
    <3> QED BY <2>2, <3>1
  <2>4. k \in 0 .. n /\ Ends(k)
    BY <2>2, <2>3
  <2> HIDE DEF Ends
  <2> QED BY <2>4
<1> HIDE DEF i, Ends
<1>3. (CHOOSE k \in 0 .. i : Starts(k)) \in 0 .. i
  <2> DEFINE T == {k \in 0 .. i : k = 0 \/ space(k)}
  <2>0. i \in Nat
    BY <1>1, <1>2
  <2> HIDE DEF n, space
  <2>1. T \subseteq 0 .. i /\ T # {}
    BY <2>0
  <2>2. PICK k \in T : \A j \in 0 .. i : j > k => j \notin T
    <3> HIDE DEF T
    <3> QED BY <2>0, <2>1, LastPlace
  <2>3. ASSUME NEW j \in k + 1 .. i PROVE ~space(j)
    <3>1. j \in 0 .. i /\ j > k
      BY <2>0, <2>2
    <3> QED BY <2>2, <3>1
  <2>4. k \in 0 .. i /\ Starts(k)
    BY <2>2, <2>3
  <2> HIDE DEF Starts
  <2> QED BY <2>4
<1>4. Input!WordStart = CHOOSE k \in 0 .. i : Starts(k)
  BY DEF Input!WordStart, i, Ends
<1> HIDE DEF Starts
<1>5. Input!WordStart \in 0 .. i
  BY <1>3, <1>4
<1> HIDE DEF n
<1> QED BY <1>1, <1>2, <1>5, InputLineIs

LEMMA KillWordKeeps ==
  ASSUME InputInv, Input!KillWord
  PROVE  InputInv'
<1> DEFINE k == Input!WordStart
           s == SubSeq(line, 1, k) \o Input!After
<1>1. cursorPos > 0 /\ Input!Edit(s, k)
  BY DEF Input!KillWord
<1>2. k \in 0 .. cursorPos
  BY <1>1, WordStartIs
<1> HIDE DEF k
<1>3. k \in 0 .. Len(line) /\ line \in Seq(Input!Character) /\ k \in Nat
  BY <1>2, InputLineIs DEF InputInv
<1>4. SubSeq(line, 1, k) \in Seq(Input!Character) /\ Len(SubSeq(line, 1, k)) = k
  BY <1>3, PartsAre
<1>5. s \in Seq(Input!Character) /\ Len(s) = k + Len(Input!After)
  BY <1>4, InputLineIs, ConcatProperties
<1> HIDE DEF s
<1>6. k \in 0 .. Len(s)
  BY <1>3, <1>5, InputLineIs
<1> QED BY <1>1, <1>5, <1>6, EditKeeps

LEMMA TabKeeps ==
  ASSUME InputAssumed, InputInv, NEW word \in Words, Input!Tab(word)
  PROVE  InputInv'
<1> DEFINE Starts(k) == (k = 0 \/ line[k] = " ") /\ \A j \in k + 1 .. cursorPos : line[j] # " "
           start == CHOOSE k \in 0 .. cursorPos : Starts(k)
           space == IF start = 0 THEN <<" ">> ELSE << >>
           w == word \o space
<1>1. start \in 0 .. cursorPos
  <2> DEFINE T == {k \in 0 .. cursorPos : k = 0 \/ line[k] = " "}
  <2>0. cursorPos \in Nat
    BY InputLineIs
  <2>1. T \subseteq 0 .. cursorPos /\ T # {}
    <3>1. 0 \in T
      BY <2>0
    <3> QED BY <3>1
  <2>2. PICK k \in T : \A j \in 0 .. cursorPos : j > k => j \notin T
    <3> HIDE DEF T
    <3> QED BY <2>0, <2>1, LastPlace
  <2>3. ASSUME NEW j \in k + 1 .. cursorPos PROVE line[j] # " "
    <3>1. j \in 0 .. cursorPos /\ j > k
      <4>1. k \in 0 .. cursorPos
        BY <2>2
      <4>2. k \in Nat /\ k + 1 \in Nat /\ j \in Nat /\ j >= k + 1 /\ j <= cursorPos
        <5> HIDE DEF T
        <5>1. k \in Nat
          BY <2>0, <4>1
        <5> QED BY <2>0, <5>1
      <4> HIDE DEF T
      <4>3. j > k
        BY <4>2
      <4>4. j \in 0 .. cursorPos
        BY <2>0, <4>2
      <4> QED BY <4>3, <4>4
    <3> QED BY <2>2, <3>1
  <2>4. k \in 0 .. cursorPos /\ Starts(k)
    BY <2>2, <2>3
  <2> HIDE DEF Starts
  <2> QED BY <2>4
<1>2. Input!Edit(SubSeq(line, 1, start) \o word \o space \o Input!After, start + Len(word) + Len(space))
  BY DEF Input!Tab
<1> HIDE DEF start
<1>3. word \in Seq(Input!Character) /\ space \in Seq(Input!Character) /\ start \in Nat
  <2>1. word \in Seq(Input!Character)
    BY DEF InputAssumed
  <2>2. <<" ">> \in Seq(Input!Character) /\ << >> \in Seq(Input!Character)
    BY DEF Input!Character
  <2>3. start \in Nat
    BY <1>1, InputLineIs
  <2> QED BY <2>1, <2>2, <2>3
<1> HIDE DEF space
<1>4. /\ w \in Seq(Input!Character) /\ Len(w) = Len(word) + Len(space)
      /\ Len(word) \in Nat /\ Len(space) \in Nat
  BY <1>3, ConcatProperties, LenProperties
<1>5. SubSeq(line, 1, start) \in Seq(Input!Character)
  <2>1. start \in 0 .. Len(line) /\ line \in Seq(Input!Character)
    BY <1>1, InputLineIs DEF InputInv
  <2> QED BY <2>1, PartsAre
<1>6. SubSeq(line, 1, start) \o word \o space = SubSeq(line, 1, start) \o w
  <2> DEFINE a == SubSeq(line, 1, start)
  <2>1. a \in Seq(Input!Character) /\ word \in Seq(Input!Character) /\ space \in Seq(Input!Character)
    BY <1>3, <1>5
  <2> HIDE DEF a
  <2>2. (a \o word) \o space = a \o (word \o space)
    BY <2>1, ConcatAssociative
  <2> QED BY <2>2 DEF a
<1>7. start + Len(word) + Len(space) = start + Len(w)
  BY <1>3, <1>4
<1> HIDE DEF w
<1>8. Input!Edit(SubSeq(line, 1, start) \o w \o Input!After, start + Len(w))
  BY <1>2, <1>6, <1>7
<1> QED BY <1>1, <1>4, <1>8, ReplaceKeeps

LEMMA MoveKeeps ==
  ASSUME InputInv, NEW k, Input!Move(k)
  PROVE  InputInv'
<1>1. k \in 0 .. Len(line) /\ Input!Edit(line, k) /\ line \in Seq(Input!Character)
  BY DEF Input!Move, InputInv
<1> QED BY <1>1, EditKeeps

-----------------------------------------------------------------------------
\* The history's keys.
LEMMA UpKeeps ==
  ASSUME InputInv, Input!Up
  PROVE  InputInv'
<1>1. history \in Seq(Seq(Input!Character)) /\ history # << >> /\ Len(history) \in Nat /\ Len(history) > 0
  BY EmptySeq, LenProperties DEF InputInv, Input!Up
<1>2. historyIdx = Input!NotBrowsing \/ historyIdx \in 0 .. Len(history) - 1
  BY DEF InputInv
<1>3. historyIdx' \in 0 .. Len(history) - 1
  <2> DEFINE idx == CASE historyIdx = Input!NotBrowsing -> Len(history) - 1
                      [] historyIdx > 0 -> historyIdx - 1
                      [] historyIdx = 0 -> 0
  <2>1. historyIdx' = idx
    BY DEF Input!Up
  <2>2. CASE historyIdx = Input!NotBrowsing
    <3>1. ~(historyIdx > 0) /\ historyIdx # 0
      BY <2>2 DEF Input!NotBrowsing
    <3>2. idx = Len(history) - 1
      BY <2>2, <3>1
    <3>3. historyIdx' = Len(history) - 1
      BY <2>1, <3>2
    <3>4. Len(history) - 1 \in 0 .. Len(history) - 1
      <4> DEFINE n == Len(history)
      <4>1. n \in Nat /\ n > 0
        BY <1>1
      <4> HIDE DEF n
      <4>2. n - 1 \in 0 .. n - 1
        BY <4>1
      <4> QED BY <4>2 DEF n
    <3> QED BY <3>3, <3>4
  <2>3. CASE historyIdx # Input!NotBrowsing /\ historyIdx > 0
    <3>1. historyIdx # 0 /\ historyIdx \in 0 .. Len(history) - 1
      BY <1>2, <2>3
    <3>2. idx = historyIdx - 1
      BY <2>3, <3>1
    <3> QED BY <1>1, <2>1, <2>3, <3>1, <3>2
  <2>4. CASE historyIdx = 0
    <3>1. historyIdx # Input!NotBrowsing /\ ~(historyIdx > 0)
      BY <2>4 DEF Input!NotBrowsing
    <3>2. idx = 0
      BY <2>4, <3>1
    <3>3. 0 \in 0 .. Len(history) - 1
      <4> DEFINE n == Len(history)
      <4>1. n \in Nat /\ n > 0
        BY <1>1
      <4> HIDE DEF n
      <4>2. 0 \in 0 .. n - 1
        BY <4>1
      <4> QED BY <4>2 DEF n
    <3> QED BY <2>1, <3>2, <3>3
  <2>5. historyIdx = Input!NotBrowsing \/ historyIdx > 0 \/ historyIdx = 0
    BY <1>1, <1>2
  <2> QED BY <2>2, <2>3, <2>4, <2>5
<1> DEFINE e == history[historyIdx' + 1]
<1>4. e \in Seq(Input!Character)
  <2> DEFINE n == Len(history)
             i == historyIdx'
  <2>0. n \in Nat /\ i \in 0 .. n - 1
    BY <1>1, <1>3
  <2>1. historyIdx' + 1 \in 1 .. Len(history)
    <3> HIDE DEF n, i
    <3>1. i + 1 \in 1 .. n
      BY <2>0
    <3> QED BY <3>1 DEF n, i
  <2> QED BY <1>1, <2>1, ElementOfSeq
<1>5. line' = e /\ cursorPos' = Len(e)
  BY DEF Input!Up, Input!Show
<1> HIDE DEF e
<1>6. line' \in Seq(Input!Character) /\ cursorPos' \in 0 .. Len(line')
  BY <1>4, <1>5, LenProperties
<1>7. /\ historyTmp' \in Seq(Input!Character) /\ draft' \in Seq(Input!Character) /\ abandoned' \in BOOLEAN
      /\ historyTmp' = draft' \/ abandoned'
  <2>1. CASE historyIdx = Input!NotBrowsing
    BY <2>1 DEF Input!Up, InputInv
  <2>2. CASE historyIdx # Input!NotBrowsing
    BY <2>2 DEF Input!Up, InputInv
  <2> QED BY <2>1, <2>2
<1>8. UNCHANGED <<history, busy, text, row, col>>
  BY DEF Input!Up, Input!nanoVars
<1> QED BY <1>3, <1>6, <1>7, <1>8 DEF InputInv

LEMMA DownKeeps ==
  ASSUME InputInv, Input!Down
  PROVE  InputInv'
<1>1. history \in Seq(Seq(Input!Character)) /\ Len(history) \in Nat /\ historyIdx \in 0 .. Len(history) - 1
  BY LenProperties DEF InputInv, Input!Down
<1>2. historyIdx' = IF historyIdx + 1 >= Len(history) THEN Input!NotBrowsing ELSE historyIdx + 1
  BY DEF Input!Down
<1>3. historyIdx' # Input!NotBrowsing => historyIdx' \in 0 .. Len(history) - 1
  BY <1>1, <1>2
<1> DEFINE e == IF historyIdx' = Input!NotBrowsing THEN historyTmp ELSE history[historyIdx' + 1]
<1>4. e \in Seq(Input!Character)
  <2>1. historyIdx' # Input!NotBrowsing => historyIdx' + 1 \in 1 .. Len(history)
    BY <1>1, <1>3
  <2>2. historyIdx' # Input!NotBrowsing => history[historyIdx' + 1] \in Seq(Input!Character)
    BY <1>1, <2>1, ElementOfSeq
  <2> QED BY <2>2 DEF InputInv
<1>5. line' = e /\ cursorPos' = Len(e)
  BY DEF Input!Down, Input!Show
<1> HIDE DEF e
<1>6. line' \in Seq(Input!Character) /\ cursorPos' \in 0 .. Len(line')
  BY <1>4, <1>5, LenProperties
<1>7. UNCHANGED <<history, historyTmp, draft, abandoned, busy, text, row, col>> /\ historyIdx # Input!NotBrowsing
  BY DEF Input!Down, Input!nanoVars
<1> QED BY <1>3, <1>6, <1>7 DEF InputInv

LEMMA TrimmedIs ==
  ASSUME NEW s \in Seq(Input!Character)
  PROVE  Input!Trimmed(s) \in Seq(Input!Character)
<1> DEFINE ink == {i \in DOMAIN s : s[i] # " "}
           first == CHOOSE i \in ink : \A j \in ink : i <= j
           last == CHOOSE i \in ink : \A j \in ink : j <= i
<1>0. Len(s) \in Nat /\ DOMAIN s = 1 .. Len(s) /\ \A i \in 1 .. Len(s) : s[i] \in Input!Character
  BY LenProperties, ElementOfSeq
<1>1. ink \subseteq 1 .. Len(s) /\ ink \subseteq Nat /\ ink \subseteq 0 .. Len(s)
  <2> DEFINE n == Len(s)
  <2>1. ink \subseteq 1 .. n /\ n \in Nat
    BY <1>0
  <2> HIDE DEF n, ink
  <2>2. 1 .. n \subseteq Nat /\ 1 .. n \subseteq 0 .. n
    BY <2>1
  <2>3. ink \subseteq 1 .. n /\ ink \subseteq Nat /\ ink \subseteq 0 .. n
    BY <2>1, <2>2
  <2> QED BY <2>3 DEF n
<1>2. Input!Trimmed(s) = IF ink = {} THEN << >> ELSE SubSeq(s, first, last)
  BY DEF Input!Trimmed
<1>3. CASE ink = {}
  <2>1. Input!Trimmed(s) = << >>
    <3> HIDE DEF ink
    <3> QED BY <1>2, <1>3
  <2> QED BY <2>1
<1>4. CASE ink # {}
  <2> HIDE DEF ink
  <2>1. PICK a \in ink : \A j \in ink : a <= j
    BY <1>1, <1>4, LeastMember
  <2>2. PICK b \in ink : \A j \in 0 .. Len(s) : j > b => j \notin ink
    BY <1>0, <1>1, <1>4, LastPlace
  <2>3. \A j \in ink : j <= b
    <3>1. ASSUME NEW j \in ink, ~(j <= b) PROVE FALSE
      <4>1. j \in 0 .. Len(s) /\ j \in Nat /\ b \in Nat
        BY <1>1
      <4>2. j > b
        BY <3>1, <4>1
      <4> QED BY <2>2, <4>1, <4>2
    <3> QED BY <3>1
  <2>4. first \in ink /\ last \in ink
    BY <2>1, <2>3
  <2> HIDE DEF first, last
  <2>5. first \in 1 .. Len(s) /\ last \in 1 .. Len(s)
    BY <1>1, <2>4
  <2>6. first \in Int /\ last \in Int /\ \A i \in first .. last : s[i] \in Input!Character
    BY <1>0, <2>5
  <2>7. SubSeq(s, first, last) \in Seq(Input!Character)
    BY <2>6, SubSeqProperties
  <2> QED BY <1>2, <1>4, <2>7
<1> QED BY <1>3, <1>4

LEMMA RememberedIs ==
  ASSUME InputAssumed, InputInv, NEW e \in Seq(Input!Character)
  PROVE  Input!Remembered(e) \in Seq(Seq(Input!Character))
<1> DEFINE longer == IF history # << >> /\ Input!Last(history) = e THEN history ELSE Append(history, e)
<1>1. longer \in Seq(Seq(Input!Character))
  BY AppendProperties DEF InputInv
<1>2. Input!Remembered(e) = IF Len(longer) > MaxHistory THEN Tail(longer) ELSE longer
  BY DEF Input!Remembered
<1> HIDE DEF longer
<1>3. ASSUME Len(longer) > MaxHistory PROVE Tail(longer) \in Seq(Seq(Input!Character))
  <2>1. longer # << >>
    BY <1>3, EmptySeq DEF InputAssumed
  <2> QED BY <1>1, <2>1, HeadTailProperties
<1> QED BY <1>1, <1>2, <1>3

LEMMA EnterKeeps ==
  ASSUME InputAssumed, InputInv, Input!Enter
  PROVE  InputInv'
<1>1. line' = << >> /\ cursorPos' = 0
  BY DEF Input!Enter, Input!Cleared
<1>2. line' \in Seq(Input!Character) /\ cursorPos' \in 0 .. Len(line')
  BY <1>1
<1>3. CASE Input!Blank(line)
  <2>1. /\ abandoned' = (abandoned \/ historyIdx # Input!NotBrowsing)
        /\ UNCHANGED <<history, historyIdx, historyTmp, draft, busy, text, row, col>>
    BY <1>3 DEF Input!Enter, Input!nanoVars
  <2> QED BY <1>2, <2>1 DEF InputInv
<1>4. CASE ~Input!Blank(line)
  <2>1. /\ history' = Input!Remembered(Input!Trimmed(line)) /\ historyIdx' = Input!NotBrowsing
        /\ UNCHANGED <<historyTmp, draft, abandoned>>
    BY <1>4 DEF Input!Enter
  <2>2. history' \in Seq(Seq(Input!Character))
    BY <2>1, TrimmedIs, RememberedIs DEF InputInv
  <2>3. CASE busy' = TRUE /\ UNCHANGED <<text, row, col>>
    BY <1>2, <2>1, <2>2, <2>3 DEF InputInv
  <2>4. CASE UNCHANGED <<busy, text, row, col>>
    BY <1>2, <2>1, <2>2, <2>4 DEF InputInv
  <2>5. CASE text' = <<<< >>>> /\ row' = 0 /\ col' = 0 /\ UNCHANGED busy
    <3>1. << >> \in Seq(Input!Character)
      OBVIOUS
    <3> DEFINE empty == << >>
    <3>2. empty \in Seq(Input!Character) /\ Len(empty) = 0 /\ text' = <<empty>>
      BY <2>5, <3>1
    <3> HIDE DEF empty
    <3>3. text' \in Seq(Seq(Input!Character)) /\ Len(text') = 1 /\ text'[1] = empty
      BY <3>2
    <3>4. text' # << >> => row' < Len(text') /\ col' <= Len(text'[row' + 1])
      BY <2>5, <3>2, <3>3
    <3> QED BY <1>2, <2>1, <2>2, <2>5, <3>3, <3>4 DEF InputInv
  <2> QED BY <1>4, <2>3, <2>4, <2>5 DEF Input!Enter, Input!nanoVars
<1> QED BY <1>3, <1>4

LEMMA RestKeep ==
  ASSUME InputInv, Input!Ready \/ Input!Interrupt \/ (\E e \in {<<"a">>} : Input!SetHistory(<<e>>)) \/ UNCHANGED Input!vars
  PROVE  InputInv'
<1>1. CASE Input!Ready
  BY <1>1 DEF Input!Ready, InputInv, Input!lineVars, Input!historyVars, Input!nanoVars
<1>2. CASE Input!Interrupt
  <2>1. line' = << >> /\ cursorPos' = 0
    BY <1>2 DEF Input!Interrupt, Input!Cleared
  <2>2. line' \in Seq(Input!Character) /\ cursorPos' \in 0 .. Len(line')
    BY <2>1
  <2>3. /\ abandoned' = (abandoned \/ historyIdx # Input!NotBrowsing)
        /\ UNCHANGED <<history, historyIdx, historyTmp, draft, busy, text, row, col>>
    BY <1>2 DEF Input!Interrupt, Input!nanoVars
  <2> QED BY <2>2, <2>3 DEF InputInv
<1>3. ASSUME Input!SetHistory(<<<<"a">>>>) PROVE InputInv'
  <2>1. history' = <<<<"a">>>> /\ historyIdx' = Input!NotBrowsing
        /\ UNCHANGED <<line, cursorPos, historyTmp, draft, abandoned, busy, text, row, col>>
    BY <1>3 DEF Input!SetHistory, Input!lineVars, Input!nanoVars
  <2>2. <<"a">> \in Seq(Input!Character)
    BY DEF Input!Character
  <2>3. history' \in Seq(Seq(Input!Character))
    <3> DEFINE e == <<"a">>
    <3>1. e \in Seq(Input!Character) /\ history' = <<e>>
      BY <2>1, <2>2
    <3> HIDE DEF e
    <3> QED BY <3>1
  <2> QED BY <2>1, <2>3 DEF InputInv
<1>4. CASE UNCHANGED Input!vars
  BY <1>4 DEF Input!vars, InputInv, Input!lineVars, Input!historyVars, Input!nanoVars
<1> QED BY <1>1, <1>2, <1>3, <1>4

LEMMA LineKeyKeeps ==
  ASSUME InputAssumed, InputInv, Input!LineKey
  PROVE  InputInv'
<1>1. ASSUME NEW k \in {cursorPos - 1, cursorPos + 1, 0, Len(line)}, Input!Move(k) PROVE InputInv'
  BY <1>1, MoveKeeps
<1> QED
  BY <1>1, TypeKeeps, KillsKeep, BackspaceKeeps, DeleteKeeps, KillWordKeeps, TabKeeps,
     UpKeeps, DownKeeps, EnterKeeps, RestKeep DEF Input!LineKey

-----------------------------------------------------------------------------
\* Nano's keys.
LEMMA NanoKeeps ==
  ASSUME InputInv, NEW t \in Seq(Seq(Input!Character)), NEW r \in Nat, NEW k \in Nat, Input!Nano(t, r, k),
         r < Len(t), k <= Len(t[r + 1])
  PROVE  InputInv'
BY DEF InputInv, Input!Nano, Input!lineVars, Input!historyVars

LEMMA TextIs ==
  ASSUME InputInv, text # << >>
  PROVE  /\ text \in Seq(Seq(Input!Character)) /\ Len(text) \in Nat /\ row \in Nat /\ row < Len(text)
         /\ Input!Above \in Seq(Seq(Input!Character)) /\ Len(Input!Above) = row
         /\ \A i \in 1 .. row : Input!Above[i] = text[i]
         /\ Input!Below \in Seq(Seq(Input!Character)) /\ Len(Input!Below) = Len(text) - (row + 1)
         /\ Input!Current \in Seq(Input!Character) /\ Len(Input!Current) \in Nat
         /\ col \in Nat /\ col <= Len(Input!Current)
         /\ Input!Left \in Seq(Input!Character) /\ Len(Input!Left) = col
         /\ Input!Right \in Seq(Input!Character) /\ Len(Input!Right) = Len(Input!Current) - col
<1>1. /\ text \in Seq(Seq(Input!Character)) /\ Len(text) \in Nat /\ row \in Nat /\ row < Len(text)
      /\ col \in Nat /\ col <= Len(Input!Current)
  BY LenProperties DEF InputInv, Input!Current
<1>2. row \in 0 .. Len(text) /\ row + 1 \in 0 .. Len(text) /\ row + 1 \in 1 .. Len(text)
  BY <1>1
<1>3. Input!Current \in Seq(Input!Character) /\ Len(Input!Current) \in Nat
  BY <1>1, <1>2, ElementOfSeq, LenProperties DEF Input!Current
<1>4. col \in 0 .. Len(Input!Current)
  BY <1>1, <1>3
<1>5. Input!Above \in Seq(Seq(Input!Character)) /\ Len(Input!Above) = row
  BY <1>1, <1>2, PartsAre DEF Input!Above
<1>6. \A i \in 1 .. row : Input!Above[i] = text[i]
  <2>1. \A i \in 1 .. row : text[i] \in Seq(Input!Character)
    BY <1>1, ElementOfSeq
  <2>2. \A i \in 1 .. row - 1 + 1 : SubSeq(text, 1, row)[i] = text[1 + i - 1]
    BY <1>1, <2>1, SubSeqProperties
  <2>3. \A i \in 1 .. row : i \in 1 .. row - 1 + 1 /\ 1 + i - 1 = i
    BY <1>1
  <2> QED BY <2>2, <2>3 DEF Input!Above
<1>7. Input!Below \in Seq(Seq(Input!Character)) /\ Len(Input!Below) = Len(text) - (row + 1)
  <2> DEFINE m == row + 1
  <2>1. m \in 0 .. Len(text) /\ row + 2 = m + 1
    BY <1>1, <1>2
  <2>2. Input!Below = SubSeq(text, m + 1, Len(text))
    BY <2>1 DEF Input!Below
  <2> HIDE DEF m
  <2>3. Input!Below \in Seq(Seq(Input!Character)) /\ Len(Input!Below) = Len(text) - m
    BY <1>1, <2>1, <2>2, PartsAre
  <2> QED BY <2>3 DEF m
<1>8. /\ Input!Left \in Seq(Input!Character) /\ Len(Input!Left) = col
      /\ Input!Right \in Seq(Input!Character) /\ Len(Input!Right) = Len(Input!Current) - col
  BY <1>3, <1>4, PartsAre DEF Input!Left, Input!Right
<1> QED BY <1>1, <1>3, <1>5, <1>6, <1>7, <1>8

\* One row, or two, between the rows above and those below.
LEMMA RowIn ==
  ASSUME NEW S, NEW a \in Seq(S), NEW c \in Seq(S), NEW l \in S
  PROVE  /\ a \o <<l>> \o c \in Seq(S)
         /\ Len(a \o <<l>> \o c) = Len(a) + 1 + Len(c)
         /\ (a \o <<l>> \o c)[Len(a) + 1] = l
         /\ Len(a) \in Nat /\ Len(c) \in Nat
<1>1. <<l>> \in Seq(S) /\ Len(<<l>>) = 1 /\ <<l>>[1] = l
  OBVIOUS
<1> DEFINE b == <<l>>
<1> HIDE DEF b
<1>2. b \in Seq(S) /\ Len(b) = 1 /\ b[1] = l /\ 1 \in 1 .. Len(b)
  BY <1>1 DEF b
<1>3. /\ a \o b \o c \in Seq(S)
      /\ Len(a \o b \o c) = Len(a) + Len(b) + Len(c)
      /\ \A i \in 1 .. Len(b) : (a \o b \o c)[Len(a) + i] = b[i]
  <2>1. a \in Seq(S) /\ b \in Seq(S) /\ c \in Seq(S)
    BY <1>2
  <2> QED BY ONLY <2>1, JoinIs, SMTT(30)
<1>4. (a \o b \o c)[Len(a) + 1] = b[1]
  BY <1>2, <1>3
<1> QED BY <1>2, <1>3, <1>4, LenProperties DEF b

LEMMA RowsIn ==
  ASSUME NEW S, NEW a \in Seq(S), NEW c \in Seq(S), NEW k \in S, NEW l \in S
  PROVE  /\ a \o <<k, l>> \o c \in Seq(S)
         /\ Len(a \o <<k, l>> \o c) = Len(a) + 2 + Len(c)
         /\ (a \o <<k, l>> \o c)[Len(a) + 2] = l
         /\ Len(a) \in Nat /\ Len(c) \in Nat
<1>1. <<k, l>> \in Seq(S) /\ Len(<<k, l>>) = 2 /\ <<k, l>>[2] = l
  OBVIOUS
<1> DEFINE b == <<k, l>>
<1> HIDE DEF b
<1>2. b \in Seq(S) /\ Len(b) = 2 /\ b[2] = l /\ 2 \in 1 .. Len(b)
  BY <1>1 DEF b
<1>3. /\ a \o b \o c \in Seq(S)
      /\ Len(a \o b \o c) = Len(a) + Len(b) + Len(c)
      /\ \A i \in 1 .. Len(b) : (a \o b \o c)[Len(a) + i] = b[i]
  <2>1. a \in Seq(S) /\ b \in Seq(S) /\ c \in Seq(S)
    BY <1>2
  <2> QED BY ONLY <2>1, JoinIs, SMTT(30)
<1>4. (a \o b \o c)[Len(a) + 2] = b[2]
  BY <1>2, <1>3
<1> QED BY <1>2, <1>3, <1>4, LenProperties DEF b

LEMMA NanoTypeKeeps ==
  ASSUME InputInv, text # << >>, NEW c \in Input!Character, Input!NanoType(c)
  PROVE  InputInv'
<1> DEFINE p == Input!Left
           q == Input!Right
           a == Input!Above
           b == Input!Below
           l == p \o <<c>> \o q
           t == a \o <<l>> \o b
<1>1. /\ p \in Seq(Input!Character) /\ q \in Seq(Input!Character) /\ Len(p) = col
      /\ a \in Seq(Seq(Input!Character)) /\ b \in Seq(Seq(Input!Character)) /\ Len(a) = row
      /\ row \in Nat /\ col \in Nat
  BY TextIs
<1>2. Input!Nano(t, row, col + 1)
  BY DEF Input!NanoType
<1> HIDE DEF p, q, a, b
<1>3. l \in Seq(Input!Character) /\ Len(l) = col + 1 + Len(q) /\ Len(q) \in Nat
  <2>1. l \in Seq(Input!Character) /\ Len(l) = Len(p) + 1 + Len(q) /\ Len(q) \in Nat
    <3>1. p \in Seq(Input!Character) /\ q \in Seq(Input!Character)
      BY <1>1
    <3> QED BY ONLY <3>1, c \in Input!Character, RowIn
  <2> QED BY <1>1, <2>1
<1> HIDE DEF l
<1>4. t \in Seq(Seq(Input!Character)) /\ Len(t) = row + 1 + Len(b) /\ t[row + 1] = l /\ Len(b) \in Nat
  <2>1. l \in Seq(Input!Character)
    BY <1>3
  <2>2. /\ t \in Seq(Seq(Input!Character)) /\ Len(t) = Len(a) + 1 + Len(b) /\ t[Len(a) + 1] = l
        /\ Len(b) \in Nat
    <3>1. a \in Seq(Seq(Input!Character)) /\ b \in Seq(Seq(Input!Character))
      BY <1>1
    <3> QED BY ONLY <2>1, <3>1, RowIn
  <2> QED BY <1>1, <2>2
<1> HIDE DEF t
<1>5. row < Len(t)
  BY <1>1, <1>4
<1>6. col + 1 <= Len(t[row + 1]) /\ col + 1 \in Nat
  BY <1>1, <1>3, <1>4
<1> QED BY <1>1, <1>2, <1>4, <1>5, <1>6, NanoKeeps

LEMMA NanoEnterKeeps ==
  ASSUME InputInv, text # << >>, Input!NanoEnter
  PROVE  InputInv'
<1> DEFINE p == Input!Left
           q == Input!Right
           a == Input!Above
           b == Input!Below
           r == row + 1
           t == a \o <<p, q>> \o b
<1>1. /\ p \in Seq(Input!Character) /\ q \in Seq(Input!Character) /\ Len(q) \in Nat
      /\ a \in Seq(Seq(Input!Character)) /\ b \in Seq(Seq(Input!Character)) /\ Len(a) = row
      /\ row \in Nat
  BY TextIs, LenProperties
<1>2. Input!Nano(t, r, 0)
  BY DEF Input!NanoEnter
<1> HIDE DEF p, q, a, b
<1>3. t \in Seq(Seq(Input!Character)) /\ Len(t) = row + 2 + Len(b) /\ t[row + 2] = q /\ Len(b) \in Nat
  <2>1. /\ t \in Seq(Seq(Input!Character)) /\ Len(t) = Len(a) + 2 + Len(b) /\ t[Len(a) + 2] = q
        /\ Len(b) \in Nat
    <3>1. /\ a \in Seq(Seq(Input!Character)) /\ b \in Seq(Seq(Input!Character))
          /\ p \in Seq(Input!Character) /\ q \in Seq(Input!Character)
      BY <1>1
    <3> QED BY ONLY <3>1, RowsIn
  <2> QED BY <1>1, <2>1
<1> HIDE DEF t
<1>4. r < Len(t) /\ r + 1 = row + 2 /\ r \in Nat
  BY <1>1, <1>3
<1> HIDE DEF r
<1>5. 0 <= Len(t[r + 1])
  BY <1>1, <1>3, <1>4
<1> QED BY <1>2, <1>3, <1>4, <1>5, NanoKeeps

LEMMA NanoBackspaceKeeps ==
  ASSUME InputInv, text # << >>, Input!NanoBackspace
  PROVE  InputInv'
<1>1. ASSUME col > 0, Input!Nano(Input!Above \o <<Input!Front(Input!Left) \o Input!Right>> \o Input!Below, row, col - 1)
      PROVE  InputInv'
  <2> DEFINE m == col - 1
             f == Input!Front(Input!Left)
  <2>1. m \in 0 .. Len(Input!Left) /\ m \in Nat
    BY <1>1, TextIs
  <2>2. f = SubSeq(Input!Left, 1, m)
    BY TextIs DEF Input!Front
  <2> HIDE DEF m, f
  <2>3. f \in Seq(Input!Character) /\ Len(f) = m
    BY <2>1, <2>2, TextIs, PartsAre
  <2> DEFINE l == f \o Input!Right
             t == Input!Above \o <<l>> \o Input!Below
  <2>4. l \in Seq(Input!Character) /\ Len(l) = m + Len(Input!Right)
    <3> DEFINE b == Input!Right
    <3>1. b \in Seq(Input!Character)
      BY TextIs
    <3> HIDE DEF b
    <3>2. f \o b \in Seq(Input!Character) /\ Len(f \o b) = Len(f) + Len(b)
      BY <2>3, <3>1, ConcatProperties
    <3> QED BY <2>3, <3>2 DEF b
  <2>5. Input!Nano(t, row, m)
    BY <1>1 DEF f, m
  <2> HIDE DEF l
  <2> DEFINE a == Input!Above
             b == Input!Below
  <2>6. /\ a \in Seq(Seq(Input!Character)) /\ b \in Seq(Seq(Input!Character)) /\ Len(a) = row
        /\ row \in Nat /\ Len(Input!Right) \in Nat
    BY TextIs, LenProperties
  <2>7. t = a \o <<l>> \o b
    OBVIOUS
  <2> HIDE DEF t, a, b
  <2>8. t \in Seq(Seq(Input!Character)) /\ Len(t) = row + 1 + Len(b) /\ t[row + 1] = l /\ Len(b) \in Nat
    <3>1. l \in Seq(Input!Character)
      BY <2>4
    <3>2. /\ t \in Seq(Seq(Input!Character)) /\ Len(t) = Len(a) + 1 + Len(b) /\ t[Len(a) + 1] = l
          /\ Len(b) \in Nat
      <4>1. a \in Seq(Seq(Input!Character)) /\ b \in Seq(Seq(Input!Character))
        BY <2>6
      <4> QED BY ONLY <2>7, <3>1, <4>1, RowIn, SMTT(30)
    <3> QED BY <2>6, <3>2
  <2>9. row < Len(t)
    BY <2>6, <2>8
  <2>10. m <= Len(t[row + 1])
    BY <2>1, <2>4, <2>6, <2>8
  <2> QED BY <2>1, <2>5, <2>6, <2>8, <2>9, <2>10, NanoKeeps
<1>2. ASSUME row > 0, Input!Nano(Input!Front(Input!Above) \o <<Input!Last(Input!Above) \o Input!Current>> \o Input!Below, row - 1, Len(Input!Last(Input!Above)))
      PROVE  InputInv'
  <2> DEFINE m == row - 1
             f == Input!Front(Input!Above)
             u == Input!Last(Input!Above)
  <2>0. row \in Nat /\ Len(Input!Above) = row /\ Input!Above \in Seq(Seq(Input!Character))
    BY TextIs
  <2>1. m \in 0 .. Len(Input!Above) /\ m \in Nat /\ m + 1 = row
    <3>1. row > 0
      BY <1>2
    <3> QED BY ONLY <2>0, <3>1, SMTT(30)
  <2>2. f = SubSeq(Input!Above, 1, m)
    BY TextIs DEF Input!Front
  <2>3. u \in Seq(Input!Character) /\ Len(u) \in Nat
    <3>1. row \in 1 .. Len(Input!Above)
      <4>1. row > 0
        BY <1>2
      <4> QED BY ONLY <2>0, <4>1, SMTT(30)
    <3>2. u = Input!Above[row]
      BY <2>0 DEF Input!Last
    <3> QED BY <2>0, <3>1, <3>2, ElementOfSeq, LenProperties
  <2> HIDE DEF m, f, u
  <2>4. f \in Seq(Seq(Input!Character)) /\ Len(f) = m
    BY <2>1, <2>2, TextIs, PartsAre
  <2> DEFINE l == u \o Input!Current
             t == f \o <<l>> \o Input!Below
  <2>5. l \in Seq(Input!Character) /\ Len(l) = Len(u) + Len(Input!Current)
    <3> DEFINE b == Input!Current
    <3>1. b \in Seq(Input!Character)
      BY TextIs
    <3> HIDE DEF b
    <3>2. u \o b \in Seq(Input!Character) /\ Len(u \o b) = Len(u) + Len(b)
      BY <2>3, <3>1, ConcatProperties
    <3> QED BY <3>2 DEF b
  <2>6. Input!Nano(t, m, Len(u))
    BY <1>2 DEF f, m, u
  <2> HIDE DEF l
  <2> DEFINE b == Input!Below
  <2>7. b \in Seq(Seq(Input!Character)) /\ Len(Input!Current) \in Nat /\ t = f \o <<l>> \o b
    BY TextIs
  <2> HIDE DEF t, b
  <2>8. t \in Seq(Seq(Input!Character)) /\ Len(t) = m + 1 + Len(b) /\ t[m + 1] = l /\ Len(b) \in Nat
    <3>1. l \in Seq(Input!Character)
      BY <2>5
    <3>2. /\ t \in Seq(Seq(Input!Character)) /\ Len(t) = Len(f) + 1 + Len(b) /\ t[Len(f) + 1] = l
          /\ Len(b) \in Nat
      <4>1. f \in Seq(Seq(Input!Character)) /\ b \in Seq(Seq(Input!Character))
        BY <2>4, <2>7
      <4>2. t = f \o <<l>> \o b
        BY <2>7
      <4> QED BY ONLY <3>1, <4>1, <4>2, RowIn, SMTT(30)
    <3> QED BY <2>4, <3>2
  <2>9. m < Len(t)
    BY <2>1, <2>8
  <2>10. Len(u) <= Len(t[m + 1])
    <3> DEFINE d == Input!Current
    <3>1. Len(l) = Len(u) + Len(d) /\ Len(d) \in Nat
      BY <2>5, <2>7
    <3> HIDE DEF d
    <3> QED BY <2>3, <2>8, <3>1
  <2> QED BY <2>1, <2>3, <2>6, <2>8, <2>9, <2>10, NanoKeeps
<1> QED BY <1>1, <1>2 DEF Input!NanoBackspace

LEMMA NanoCutKeeps ==
  ASSUME InputInv, text # << >>, Input!NanoCut
  PROVE  InputInv'
<1>1. CASE Len(text) > 1
  <2> DEFINE t == Input!Above \o Input!Below
             r == IF row >= Len(text) - 1 THEN Len(text) - 2 ELSE row
  <2>1. Input!Nano(t, r, 0)
    BY <1>1 DEF Input!NanoCut
  <2>2. t \in Seq(Seq(Input!Character)) /\ Len(t) = Len(text) - 1
    <3> DEFINE a == Input!Above
               b == Input!Below
    <3>1. a \in Seq(Seq(Input!Character)) /\ b \in Seq(Seq(Input!Character)) /\ Len(a) = row
          /\ Len(b) = Len(text) - (row + 1) /\ row \in Nat /\ Len(text) \in Nat
      BY TextIs
    <3> HIDE DEF a, b
    <3>2. a \o b \in Seq(Seq(Input!Character)) /\ Len(a \o b) = Len(a) + Len(b)
      BY <3>1, ConcatProperties
    <3>3. Len(a) + Len(b) = Len(text) - 1
      BY <3>1
    <3> QED BY <3>2, <3>3 DEF a, b
  <2>3. r \in Nat /\ r < Len(text) - 1
    BY <1>1, TextIs
  <2> HIDE DEF t, r
  <2>4. r + 1 \in 1 .. Len(t)
    BY <2>2, <2>3, TextIs
  <2>5. t[r + 1] \in Seq(Input!Character) /\ 0 <= Len(t[r + 1])
    BY <2>2, <2>4, ElementOfSeq, LenProperties
  <2> QED BY <2>1, <2>2, <2>3, <2>5, NanoKeeps
<1>2. CASE ~(Len(text) > 1)
  <2> DEFINE e == << >>
  <2>1. Input!Nano(<<e>>, row, 0)
    BY <1>2 DEF Input!NanoCut
  <2>2. row = 0
    BY <1>2, TextIs
  <2>3. e \in Seq(Input!Character) /\ 0 <= Len(e)
    OBVIOUS
  <2> HIDE DEF e
  <2>4. <<e>> \in Seq(Seq(Input!Character)) /\ Len(<<e>>) = 1 /\ <<e>>[1] = e
    BY <2>3
  <2>5. row < Len(<<e>>) /\ 0 <= Len(<<e>>[row + 1]) /\ row \in Nat
    BY <2>2, <2>3, <2>4
  <2> QED BY <2>1, <2>4, <2>5, NanoKeeps
<1> QED BY <1>1, <1>2

LEMMA NanoMovesKeep ==
  ASSUME InputInv, text # << >>, Input!NanoUp \/ Input!NanoDown \/ Input!NanoRight \/ Input!NanoLeft
  PROVE  InputInv'
<1>1. CASE Input!NanoUp
  <2> DEFINE r == row - 1
             k == Input!Lesser(col, Len(text[row]))
  <2>1. row > 0 /\ Input!Nano(text, r, k)
    BY <1>1 DEF Input!NanoUp
  <2> DEFINE n == Len(text)
  <2>2. r \in Nat /\ r < n /\ r + 1 = row /\ row \in 1 .. n
    <3>1. n \in Nat /\ row \in Nat /\ row < n
      BY TextIs
    <3> HIDE DEF n
    <3> QED BY <2>1, <3>1
  <2>3. text[row] \in Seq(Input!Character) /\ Len(text[row]) \in Nat
    BY <2>2, TextIs, ElementOfSeq, LenProperties
  <2>4. k \in Nat /\ k <= Len(text[row])
    BY <2>3, TextIs DEF Input!Lesser
  <2> HIDE DEF k, r
  <2> QED BY <2>1, <2>2, <2>4, TextIs, NanoKeeps
<1>2. CASE Input!NanoDown
  <2> DEFINE r == row + 1
             k == Input!Lesser(col, Len(text[row + 2]))
  <2>1. row < Len(text) - 1 /\ Input!Nano(text, r, k)
    BY <1>2 DEF Input!NanoDown
  <2> DEFINE n == Len(text)
  <2>2. r \in Nat /\ r < n /\ r + 1 = row + 2 /\ row + 2 \in 1 .. n
    <3>1. n \in Nat /\ row \in Nat /\ row < n - 1
      BY <2>1, TextIs
    <3> HIDE DEF n
    <3> QED BY <3>1
  <2>3. text[row + 2] \in Seq(Input!Character) /\ Len(text[row + 2]) \in Nat
    BY <2>2, TextIs, ElementOfSeq, LenProperties
  <2>4. k \in Nat /\ k <= Len(text[row + 2])
    <3> DEFINE n2 == Len(text[row + 2])
    <3>1. n2 \in Nat /\ col \in Nat /\ k = IF col < n2 THEN col ELSE n2
      BY <2>3, TextIs DEF Input!Lesser
    <3> HIDE DEF n2, k
    <3>2. k \in Nat /\ k <= n2
      BY <3>1
    <3> QED BY <3>2 DEF n2
  <2> HIDE DEF k, r
  <2>5. k <= Len(text[r + 1])
    BY <2>2, <2>4
  <2> QED BY <2>1, <2>2, <2>4, <2>5, TextIs, NanoKeeps
<1>3. CASE Input!NanoRight
  <2>1. col < Len(Input!Current) /\ Input!Nano(text, row, col + 1)
    BY <1>3 DEF Input!NanoRight
  <2>2. col + 1 \in Nat /\ col + 1 <= Len(text[row + 1])
    BY <2>1, TextIs DEF Input!Current
  <2> QED BY <2>1, <2>2, TextIs, NanoKeeps
<1>4. CASE Input!NanoLeft
  <2>1. col > 0 /\ Input!Nano(text, row, col - 1)
    BY <1>4 DEF Input!NanoLeft
  <2>2. col - 1 \in Nat /\ col - 1 <= Len(text[row + 1])
    BY <2>1, TextIs DEF Input!Current
  <2> QED BY <2>1, <2>2, TextIs, NanoKeeps
<1> QED BY <1>1, <1>2, <1>3, <1>4

LEMMA NanoExitKeeps ==
  ASSUME InputInv, Input!NanoExit
  PROVE  InputInv'
<1>1. text' = << >> /\ row' = 0 /\ col' = 0
      /\ UNCHANGED <<line, cursorPos, history, historyIdx, historyTmp, draft, abandoned, busy>>
  BY DEF Input!NanoExit, Input!lineVars, Input!historyVars
<1>2. text' \in Seq(Seq(Input!Character))
  BY <1>1
<1> QED BY <1>1, <1>2 DEF InputInv

LEMMA InputStep ==
  ASSUME InputAssumed, InputInv, [Input!Next]_(Input!vars)
  PROVE  InputInv'
BY LineKeyKeeps, RestKeep, NanoTypeKeeps, NanoEnterKeeps, NanoBackspaceKeeps, NanoCutKeeps,
   NanoMovesKeep, NanoExitKeeps DEF Input!Next, Input!NanoKey

LEMMA InputStart == ASSUME Input!Init PROVE InputInv
<1>1. << >> \in Seq(Input!Character) /\ << >> \in Seq(Seq(Input!Character)) /\ 0 \in 0 .. Len(<< >>)
  OBVIOUS
<1> QED BY <1>1 DEF Input!Init, InputInv

(* For lines, histories and texts of any length, however the keys are mixed.*)
THEOREM InputIsSoundAlways ==
  ASSUME InputAssumed
  PROVE  Input!Spec => [](Input!TypeOK /\ Input!InputIsSound)
<1>1. InputInv => Input!TypeOK /\ Input!InputIsSound
  <2> SUFFICES ASSUME InputInv PROVE Input!TypeOK /\ Input!InputIsSound
    OBVIOUS
  <2>1. Len(line) \in Nat /\ Len(history) \in Nat
    BY LenProperties DEF InputInv
  <2>2. historyIdx \in {Input!NotBrowsing} \cup Nat
    BY <2>1 DEF InputInv
  <2>3. historyIdx # Input!NotBrowsing => historyIdx < Len(history)
    BY <2>1 DEF InputInv
  <2> QED BY <2>1, <2>2, <2>3 DEF InputInv, Input!TypeOK, Input!InputIsSound, Input!Current
<1> QED BY <1>1, InputStart, InputStep, PTL DEF Input!Spec

-----------------------------------------------------------------------------
(* The two as MCLocal takes them: a step of another part changes nothing    *)
(* here.                                                                    *)
LEMMA ShellStands ==
  ASSUME ShellAssumed
  PROVE  LocalSpec => []Sh!PromptMeansDone
<1>1. LocalInit => ShellInv
  BY ShellStart DEF LocalInit
<1>2. ASSUME ShellInv, [LocalNext]_localVars PROVE ShellInv'
  <2>1. [Sh!Next]_(Sh!vars)
    BY <1>2 DEF LocalNext, Others, localVars, shellVars, Sh!vars
  <2> QED BY <1>2, <2>1, ShellStep
<1>3. ShellInv => Sh!PromptMeansDone
  BY WorkIs DEF ShellInv, Sh!PromptMeansDone
<1> QED BY <1>1, <1>2, <1>3, PTL DEF LocalSpec

LEMMA InputStands ==
  ASSUME InputAssumed
  PROVE  LocalSpec => []Input!InputIsSound
<1>1. LocalInit => InputInv
  BY InputStart DEF LocalInit
<1>2. ASSUME InputInv, [LocalNext]_localVars PROVE InputInv'
  <2>1. [Input!Next]_(Input!vars)
    BY <1>2 DEF LocalNext, Others, localVars, inputVars, Input!vars, Input!lineVars,
                Input!historyVars, Input!nanoVars
  <2> QED BY <1>2, <2>1, InputStep
<1>3. InputInv => Input!InputIsSound
  <2>1. InputInv => Len(line) \in Nat /\ Len(history) \in Nat
    BY LenProperties DEF InputInv
  <2> QED BY <2>1 DEF InputInv, Input!InputIsSound, Input!Current
<1> QED BY <1>1, <1>2, <1>3, PTL DEF LocalSpec

(* Both hold of whichever part a run of MCLocal takes.                      *)
THEOREM ShellStaysTrue ==
  ASSUME ShellAssumed, InputAssumed
  PROVE  LocalSpec => []ShellIsTrue
<1>1. Sh!PromptMeansDone /\ Input!InputIsSound => ShellIsTrue
  BY DEF ShellIsTrue
<1> QED BY <1>1, ShellStands, InputStands, PTL
=============================================================================
