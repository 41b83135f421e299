------------------------ MODULE WritePipelineProofs ------------------------
(***************************************************************************)
(* Proofs about WritePipeline, for any number of calls, any assignment of  *)
(* blocks to them, any batch size and any capacity of the channel.         *)
(***************************************************************************)
EXTENDS WritePipeline, SequenceTheorems, TLAPS

-----------------------------------------------------------------------------
(***************************************************************************)
(* Lists without repetition.                                               *)
(***************************************************************************)

\* What moves a job from one list to another.
LEMMA AppendList ==
  ASSUME NEW S, NEW s \in Seq(S), NEW e \in S
  PROVE  /\ Append(s, e) \in Seq(S)
         /\ Range(Append(s, e)) = Range(s) \cup {e}
         /\ IsInjective(s) /\ e \notin Range(s) => IsInjective(Append(s, e))
<1> DEFINE a == Append(s, e)
           n == Len(s)
<1>1. /\ a \in Seq(S) /\ n \in Nat /\ DOMAIN s = 1..n /\ DOMAIN a = 1..(n + 1)
      /\ a[n + 1] = e /\ \A i \in 1..n : a[i] = s[i]
  BY AppendProperties, LenProperties
<1> HIDE DEF a, n
<1>2. \A i \in DOMAIN a : i = n + 1 \/ (i \in DOMAIN s /\ a[i] = s[i]) BY <1>1
<1>3. n + 1 \in DOMAIN a /\ \A i \in DOMAIN s : i \in DOMAIN a /\ a[i] = s[i] BY <1>1
<1>4. Range(a) = Range(s) \cup {e} BY <1>1, <1>2, <1>3 DEF Range
<1>5. IsInjective(s) /\ e \notin Range(s) => IsInjective(a)
  BY <1>1, <1>2 DEF IsInjective, Range
<1> QED BY <1>1, <1>4, <1>5 DEF a

LEMMA TailList ==
  ASSUME NEW S, NEW s \in Seq(S), s # << >>, IsInjective(s)
  PROVE  /\ Tail(s) \in Seq(S) /\ IsInjective(Tail(s))
         /\ Head(s) \in Range(s)
         /\ Range(Tail(s)) = Range(s) \ {Head(s)}
<1> DEFINE t == Tail(s)
           n == Len(s)
<1>1. /\ t \in Seq(S) /\ n \in Nat /\ n > 0 /\ DOMAIN s = 1..n /\ DOMAIN t = 1..(n - 1)
      /\ Head(s) = s[1] /\ \A i \in 1..(n - 1) : t[i] = s[i + 1]
  BY HeadTailProperties, EmptySeq, LenProperties
<1> HIDE DEF t, n
<1>2. 1 \in DOMAIN s BY <1>1
<1>3. \A i \in DOMAIN t : i + 1 \in DOMAIN s /\ t[i] = s[i + 1] /\ i + 1 # 1 BY <1>1
<1>4. \A i \in DOMAIN s : i # 1 => i - 1 \in DOMAIN t /\ t[i - 1] = s[i] BY <1>1
<1>5. \A i \in DOMAIN s : i # 1 => s[i] # s[1] BY <1>2 DEF IsInjective
<1>6. IsInjective(t)
  <2> SUFFICES ASSUME NEW i \in DOMAIN t, NEW k \in DOMAIN t, t[i] = t[k] PROVE i = k
    BY DEF IsInjective
  <2>1. i + 1 = k + 1 BY <1>3 DEF IsInjective
  <2> QED BY <1>1, <2>1
<1>7. Range(t) \subseteq Range(s) \ {Head(s)}
  BY <1>1, <1>3, <1>5 DEF Range
<1>8. Range(s) \ {Head(s)} \subseteq Range(t)
  BY <1>1, <1>4 DEF Range
<1> QED BY <1>1, <1>2, <1>6, <1>7, <1>8 DEF t, Range

LEMMA EmptyList ==
  /\ \A S : << >> \in Seq(S)
  /\ IsInjective(<< >>) /\ Range(<< >>) = {}
BY DEF IsInjective, Range

\* A concatenation has no repetition when its parts have none and are disjoint.
LEMMA ConcatList ==
  ASSUME NEW S, NEW s \in Seq(S), NEW t \in Seq(S)
  PROVE  /\ s \o t \in Seq(S)
         /\ Range(s \o t) = Range(s) \cup Range(t)
         /\ IsInjective(s \o t) <=>
              IsInjective(s) /\ IsInjective(t) /\ Range(s) \cap Range(t) = {}
<1> DEFINE c == s \o t
           m == Len(s)
           n == Len(t)
<1>1. /\ c \in Seq(S) /\ m \in Nat /\ n \in Nat
      /\ DOMAIN s = 1..m /\ DOMAIN t = 1..n /\ DOMAIN c = 1..(m + n)
      /\ \A i \in 1..(m + n) : c[i] = IF i <= m THEN s[i] ELSE t[i - m]
  BY ConcatProperties, LenProperties
<1>2. Range(c) = Range(s) \cup Range(t) BY RangeConcatenation
<1> HIDE DEF c, m, n
<1>3. \A i \in DOMAIN s : i \in DOMAIN c /\ c[i] = s[i] BY <1>1
<1>4. \A i \in DOMAIN t : m + i \in DOMAIN c /\ c[m + i] = t[i] BY <1>1
<1>5. \A i \in DOMAIN c : \/ i \in DOMAIN s /\ c[i] = s[i]
                          \/ i - m \in DOMAIN t /\ c[i] = t[i - m]
  BY <1>1
<1>6. ASSUME IsInjective(c)
      PROVE  IsInjective(s) /\ IsInjective(t) /\ Range(s) \cap Range(t) = {}
  <2>1. IsInjective(s) BY <1>3, <1>6 DEF IsInjective
  <2>2. ASSUME NEW i \in DOMAIN t, NEW k \in DOMAIN t, t[i] = t[k] PROVE i = k
    <3>1. m + i = m + k BY <1>4, <1>6, <2>2 DEF IsInjective
    <3> QED BY <1>1, <3>1
  <2>3. ASSUME NEW i \in DOMAIN s, NEW k \in DOMAIN t PROVE s[i] # t[k]
    <3>1. i # m + k BY <1>1
    <3> QED BY <1>3, <1>4, <1>6, <3>1 DEF IsInjective
  <2> QED BY <2>1, <2>2, <2>3 DEF IsInjective, Range
<1>7. ASSUME IsInjective(s), IsInjective(t), Range(s) \cap Range(t) = {}
      PROVE  IsInjective(c)
  <2> SUFFICES ASSUME NEW i \in DOMAIN c, NEW k \in DOMAIN c, c[i] = c[k] PROVE i = k
    BY DEF IsInjective
  <2>1. \A x \in DOMAIN s, y \in DOMAIN t : s[x] # t[y] BY <1>7 DEF Range
  <2>2. CASE i \in DOMAIN s /\ c[i] = s[i]
    <3>1. k \in DOMAIN s /\ c[k] = s[k] BY <1>5, <2>1, <2>2
    <3> QED BY <1>7, <2>2, <3>1 DEF IsInjective
  <2>3. CASE i - m \in DOMAIN t /\ c[i] = t[i - m]
    <3>1. k - m \in DOMAIN t /\ c[k] = t[k - m] BY <1>5, <2>1, <2>3
    <3>2. i - m = k - m BY <1>7, <2>3, <3>1 DEF IsInjective
    <3> QED BY <1>1, <3>2
  <2> QED BY <1>5, <2>2, <2>3
<1> QED BY <1>1, <1>2, <1>6, <1>7 DEF c

\* JobsAccounted in terms of the four lists.
Apart(w, c, b, s, P) ==
  /\ IsInjective(w) /\ IsInjective(c) /\ IsInjective(b) /\ IsInjective(s)
  /\ Range(w) \cap Range(c) = {} /\ Range(w) \cap Range(b) = {}
  /\ Range(w) \cap Range(s) = {} /\ Range(c) \cap Range(b) = {}
  /\ Range(c) \cap Range(s) = {} /\ Range(b) \cap Range(s) = {}
  /\ Range(w) \cup Range(c) \cup Range(b) \cup Range(s) = P

LEMMA ApartIsAccounted ==
  ASSUME NEW S, NEW w \in Seq(S), NEW c \in Seq(S), NEW b \in Seq(S), NEW s \in Seq(S), NEW P
  PROVE  Apart(w, c, b, s, P) <=>
           LET held == w \o c \o b \o s
           IN  IsInjective(held) /\ Range(held) = P
<1>1. /\ w \o c \in Seq(S) /\ Range(w \o c) = Range(w) \cup Range(c)
      /\ IsInjective(w \o c) <=>
           IsInjective(w) /\ IsInjective(c) /\ Range(w) \cap Range(c) = {}
  BY ConcatList
<1> DEFINE wc == w \o c
<1> HIDE DEF wc
<1>2. /\ wc \o b \in Seq(S) /\ Range(wc \o b) = Range(wc) \cup Range(b)
      /\ IsInjective(wc \o b) <=>
           IsInjective(wc) /\ IsInjective(b) /\ Range(wc) \cap Range(b) = {}
  BY <1>1, ConcatList DEF wc
<1> DEFINE wcb == wc \o b
<1> HIDE DEF wcb
<1>3. /\ Range(wcb \o s) = Range(wcb) \cup Range(s)
      /\ IsInjective(wcb \o s) <=>
           IsInjective(wcb) /\ IsInjective(s) /\ Range(wcb) \cap Range(s) = {}
  BY <1>2, ConcatList DEF wcb
<1>4. w \o c \o b \o s = wcb \o s BY DEF wc, wcb
<1>5. Apart(w, c, b, s, P) <=> IsInjective(wcb \o s) /\ Range(wcb \o s) = P
  BY <1>1, <1>2, <1>3 DEF Apart, wc, wcb
<1> QED BY <1>4, <1>5

\* x is the list l with e added, or with e removed.
Adds(x, l, e) == IsInjective(x) /\ Range(x) = Range(l) \cup {e}
Removes(x, l, e) == IsInjective(x) /\ e \in Range(l) /\ Range(x) = Range(l) \ {e}

\* A call enters the pipeline, moves on in it, or leaves it.
LEMMA Moves ==
  ASSUME NEW w, NEW c, NEW b, NEW s, NEW P, Apart(w, c, b, s, P), NEW e, NEW x, NEW y
  PROVE  /\ e \notin P /\ Adds(x, w, e) => Apart(x, c, b, s, P \cup {e})
         /\ Removes(x, w, e) /\ Adds(y, c, e) => Apart(x, y, b, s, P)
         /\ Removes(x, c, e) /\ Adds(y, b, e) => Apart(w, x, y, s, P)
         /\ Removes(x, b, e) /\ Adds(y, s, e) => Apart(w, c, x, y, P)
         /\ Removes(x, w, e) => Apart(x, c, b, s, P \ {e})
         /\ Removes(x, b, e) => Apart(w, c, x, s, P \ {e})
         /\ Removes(x, s, e) => Apart(w, c, b, x, P \ {e})
         /\ IsInjective(x) /\ Range(x) = {} => Apart(w, c, b, x, P \ Range(s))
         /\ IsInjective(x) /\ Range(x) = {} =>
              Apart(w, x, x, s, P \ (Range(c) \cup Range(b)))
<1> DEFINE Inj == IsInjective(w) /\ IsInjective(c) /\ IsInjective(b) /\ IsInjective(s)
<1>1. /\ Inj
      /\ \A z : z \in Range(w) => z \notin Range(c) /\ z \notin Range(b) /\ z \notin Range(s)
      /\ \A z : z \in Range(c) => z \notin Range(b) /\ z \notin Range(s)
      /\ \A z : z \in Range(b) => z \notin Range(s)
      /\ \A z : z \in P <=> \/ z \in Range(w) \/ z \in Range(c)
                          \/ z \in Range(b) \/ z \in Range(s)
  BY DEF Apart
<1>2. ASSUME NEW w2, NEW c2, NEW b2, NEW s2, NEW P2,
             IsInjective(w2) /\ IsInjective(c2) /\ IsInjective(b2) /\ IsInjective(s2),
             \A z : z \in Range(w2) => z \notin Range(c2) /\ z \notin Range(b2) /\ z \notin Range(s2),
             \A z : z \in Range(c2) => z \notin Range(b2) /\ z \notin Range(s2),
             \A z : z \in Range(b2) => z \notin Range(s2),
             \A z : z \in P2 <=> \/ z \in Range(w2) \/ z \in Range(c2)
                              \/ z \in Range(b2) \/ z \in Range(s2)
      PROVE  Apart(w2, c2, b2, s2, P2)
  BY <1>2 DEF Apart
<1>3. e \notin P /\ Adds(x, w, e) => Apart(x, c, b, s, P \cup {e})
  BY <1>1, <1>2 DEF Adds
<1>4. Removes(x, w, e) /\ Adds(y, c, e) => Apart(x, y, b, s, P)
  BY <1>1, <1>2 DEF Adds, Removes
<1>5. Removes(x, c, e) /\ Adds(y, b, e) => Apart(w, x, y, s, P)
  BY <1>1, <1>2 DEF Adds, Removes
<1>6. Removes(x, b, e) /\ Adds(y, s, e) => Apart(w, c, x, y, P)
  BY <1>1, <1>2 DEF Adds, Removes
<1>7. Removes(x, w, e) => Apart(x, c, b, s, P \ {e}) BY <1>1, <1>2 DEF Removes
<1>8. Removes(x, b, e) => Apart(w, c, x, s, P \ {e}) BY <1>1, <1>2 DEF Removes
<1>9. Removes(x, s, e) => Apart(w, c, b, x, P \ {e}) BY <1>1, <1>2 DEF Removes
<1>10. IsInjective(x) /\ Range(x) = {} => Apart(w, c, b, x, P \ Range(s)) BY <1>1, <1>2
<1>11. IsInjective(x) /\ Range(x) = {} =>
         Apart(w, x, x, s, P \ (Range(c) \cup Range(b)))
  BY <1>1, <1>2
<1> QED BY <1>3, <1>4, <1>5, <1>6, <1>7, <1>8, <1>9, <1>10, <1>11

-----------------------------------------------------------------------------
(***************************************************************************)
(* The invariant, in a form that reads the same before and after a step.   *)
(***************************************************************************)
Pending(a) == {j \in Jobs : a[j] = "pending"}

\* The block x is stored, staged, or the block of a call that has failed.
Explained(x, a, s, r) ==
  \/ x \in r
  \/ \E i \in DOMAIN s : Block[s[i]] = x
  \/ \E k \in Jobs : a[k] = "err" /\ Block[k] = x

Flush(a, w, b, s, sn, r) ==
  /\ \A i, k \in DOMAIN s : Block[s[i]] = Block[s[k]] => i = k
  /\ \A k \in Jobs, i \in DOMAIN s : Block[k] = Block[s[i]] => a[k] # "true"
  /\ w = "stage" => \A i \in DOMAIN s : Block[s[i]] \in sn
  /\ w = "ack" => /\ b = << >> /\ sn = {} /\ s # << >>
                /\ \A i \in DOMAIN s : Block[s[i]] \in r
  /\ w # "ack" /\ w # "stage" => sn = {} /\ s = << >>
  /\ \A x \in sn : Explained(x, a, s, r)
  /\ \A k \in Jobs : a[k] = "false" => Explained(Block[k], a, s, r)

LEMMA FlushForm == FlushInv <=> Flush(answer, worker, buf, staged, seen, rows)
BY DEF FlushInv, Flush, Explained

LEMMA FlushFormNext == FlushInv' <=> Flush(answer', worker', buf', staged', seen', rows')
BY DEF FlushInv, Flush, Explained

Lists(w, c, b, s) == w \in Seq(Jobs) /\ c \in Seq(Jobs) /\ b \in Seq(Jobs) /\ s \in Seq(Jobs)

LEMMA AccountedForm ==
  ASSUME Lists(waiting, channel, buf, staged)
  PROVE  JobsAccounted <=> Apart(waiting, channel, buf, staged, Pending(answer))
BY ApartIsAccounted DEF Lists, JobsAccounted, Pending

LEMMA AccountedFormNext ==
  ASSUME Lists(waiting', channel', buf', staged')
  PROVE  JobsAccounted' <=> Apart(waiting', channel', buf', staged', Pending(answer'))
BY ApartIsAccounted DEF Lists, JobsAccounted, Pending

\* The control state.
Control ==
  /\ answer \in [Jobs \cup DirectPuts -> Answers]
  /\ worker \in WorkerStates /\ dropped \in BOOLEAN /\ closing \in BOOLEAN
  /\ worker \in {"none", "recv", "gone"} => buf = << >> /\ staged = << >>

LEMMA TypeForm == TypeOK <=> Control /\ Lists(waiting, channel, buf, staged)
BY DEF TypeOK, Control, Lists

LEMMA TypeFormNext == TypeOK' <=> Control' /\ Lists(waiting', channel', buf', staged')
BY DEF TypeOK, Control, Lists

\* The answer given to the calls of S.
LEMMA AnswerFacts ==
  ASSUME answer \in [Jobs \cup DirectPuts -> Answers], NEW S, NEW a \in Answers
  PROVE  /\ Answer(S, a) \in [Jobs \cup DirectPuts -> Answers]
         /\ \A j \in Jobs \cup DirectPuts :
              Answer(S, a)[j] = IF j \in S THEN a ELSE answer[j]
         /\ a # "pending" => Pending(Answer(S, a)) = Pending(answer) \ S
BY DEF Answer, Pending

PipeInv == TypeOK /\ JobsAccounted /\ FlushInv /\ TrueMeansStored /\ NovelOnce

\* A step that touches neither the staged jobs nor the hashes seen, removes no
\* row, tells no pipelined call that its block is new or a repeat, and forgets
\* no error.
LEMMA QuietStep ==
  ASSUME FlushInv, TrueMeansStored, NovelOnce,
         rows \subseteq rows', UNCHANGED <<staged, seen>>,
         \/ worker' = worker /\ (worker = "ack" => buf' = buf)
         \/ worker \notin {"ack", "stage"} /\ worker' # "ack",
         \A j \in Jobs : /\ answer'[j] = "true" => answer[j] = "true"
                         /\ answer'[j] = "false" => answer[j] = "false"
                         /\ answer[j] = "err" => answer'[j] = "err"
  PROVE  FlushInv' /\ TrueMeansStored' /\ NovelOnce'
<1>1. Flush(answer, worker, buf, staged, seen, rows) BY FlushForm
<1>2. \A x : Explained(x, answer, staged, rows) => Explained(x, answer', staged', rows')
  BY DEF Explained
<1>3. Flush(answer', worker', buf', staged', seen', rows')
  BY <1>1, <1>2 DEF Flush
<1>4. TrueMeansStored' BY DEF TrueMeansStored
<1>5. NovelOnce' BY DEF NovelOnce
<1> QED BY <1>3, <1>4, <1>5, FlushFormNext

-----------------------------------------------------------------------------
(***************************************************************************)
(* One lemma per group of actions.                                         *)
(***************************************************************************)

\* What the invariant gives to each of them.
PipeForm ==
  /\ Control /\ Lists(waiting, channel, buf, staged)
  /\ answer \in [Jobs \cup DirectPuts -> Answers]
  /\ Apart(waiting, channel, buf, staged, Pending(answer))
  /\ Flush(answer, worker, buf, staged, seen, rows)
  /\ \A j \in Jobs : j \notin DirectPuts

LEMMA PipeFacts == ASSUME PipeInv PROVE PipeForm
BY TypeForm, AccountedForm, FlushForm, CallsAssumption DEF PipeInv, Control, PipeForm

\* What is left to show of each.
LEMMA PipeGoal ==
  ASSUME Control', Lists(waiting', channel', buf', staged'),
         Apart(waiting', channel', buf', staged', Pending(answer')),
         FlushInv', TrueMeansStored', NovelOnce'
  PROVE  PipeInv'
BY TypeFormNext, AccountedFormNext DEF PipeInv

\* Callers: put_pipelined and its wait for room.
LEMMA CallerStep ==
  ASSUME PipeInv, (\E j \in Jobs : PutPipelined(j)) \/ Send \/ SendClosed
  PROVE  PipeInv'
<1> PipeForm BY PipeFacts
<1> USE DEF PipeForm
<1>1. FlushInv /\ TrueMeansStored /\ NovelOnce BY DEF PipeInv
<1>2. ASSUME NEW j \in Jobs, PutPipelined(j) PROVE PipeInv'
  <2>1. /\ answer[j] = "idle" /\ answer' = Answer({j}, "pending")
        /\ worker' = IF worker = "none" THEN "recv" ELSE worker
        /\ waiting' = Append(waiting, j)
        /\ UNCHANGED <<channel, dropped, closing, buf, staged, seen, rows>>
    BY <1>2 DEF PutPipelined, flushVars
  <2>2. /\ answer' \in [Jobs \cup DirectPuts -> Answers]
        /\ \A k \in Jobs \cup DirectPuts : answer'[k] = IF k = j THEN "pending" ELSE answer[k]
    BY <2>1, AnswerFacts DEF Answers
  <2>3. Pending(answer') = Pending(answer) \cup {j} /\ j \notin Pending(answer)
    BY <2>1, <2>2 DEF Pending
  <2>4. Control' BY <2>1, <2>2 DEF Control, WorkerStates
  <2>5. Lists(waiting', channel', buf', staged') BY <2>1, AppendList DEF Lists
  <2>6. Apart(waiting', channel', buf', staged', Pending(answer'))
    <3>1. j \notin Range(waiting) BY <2>3 DEF Apart
    <3>2. Adds(waiting', waiting, j) BY <2>1, <3>1, AppendList DEF Lists, Apart, Adds
    <3>3. Apart(waiting', channel, buf, staged, Pending(answer) \cup {j})
      BY <2>3, <3>2, Moves
    <3> QED BY <2>1, <2>3, <3>3
  <2>7. FlushInv' /\ TrueMeansStored' /\ NovelOnce'
    BY <1>1, <2>1, <2>2, QuietStep
  <2> QED BY <2>4, <2>5, <2>6, <2>7, PipeGoal
<1>3. ASSUME Send PROVE PipeInv'
  <2>1. /\ waiting # << >>
        /\ channel' = Append(channel, Head(waiting)) /\ waiting' = Tail(waiting)
        /\ UNCHANGED <<answer, dropped, worker, closing, buf, staged, seen, rows>>
    BY <1>3 DEF Send, flushVars
  <2>2. /\ waiting' \in Seq(Jobs) /\ IsInjective(waiting')
        /\ Head(waiting) \in Range(waiting) /\ Head(waiting) \in Jobs
        /\ Range(waiting') = Range(waiting) \ {Head(waiting)}
    BY <2>1, TailList, HeadTailProperties DEF Lists, Apart
  <2>3. /\ channel' \in Seq(Jobs) /\ IsInjective(channel')
        /\ Range(channel') = Range(channel) \cup {Head(waiting)}
    <3>1. Head(waiting) \notin Range(channel) BY <2>2 DEF Apart
    <3>2. channel \in Seq(Jobs) /\ IsInjective(channel) BY DEF Lists, Apart
    <3>3. Head(waiting) \in Jobs BY <2>2
    <3>4. /\ Append(channel, Head(waiting)) \in Seq(Jobs)
          /\ Range(Append(channel, Head(waiting))) = Range(channel) \cup {Head(waiting)}
          /\ IsInjective(Append(channel, Head(waiting)))
      BY <3>1, <3>2, <3>3, AppendList
    <3> QED BY <2>1, <3>4
  <2>4. Control' /\ Lists(waiting', channel', buf', staged')
    BY <2>1, <2>2, <2>3 DEF Control, Lists
  <2>5. Apart(waiting', channel', buf', staged', Pending(answer'))
    BY <2>1, <2>2, <2>3, Moves DEF Adds, Removes
  <2>6. FlushInv' /\ TrueMeansStored' /\ NovelOnce'
    BY <1>1, <2>1, QuietStep
  <2> QED BY <2>4, <2>5, <2>6, PipeGoal
<1>4. ASSUME SendClosed PROVE PipeInv'
  <2>1. /\ waiting # << >> /\ waiting' = Tail(waiting)
        /\ answer' = Answer({Head(waiting)}, "closed")
        /\ UNCHANGED <<channel, dropped, worker, closing, buf, staged, seen, rows>>
    BY <1>4 DEF SendClosed, flushVars
  <2>2. /\ waiting' \in Seq(Jobs) /\ IsInjective(waiting')
        /\ Head(waiting) \in Range(waiting)
        /\ Range(waiting') = Range(waiting) \ {Head(waiting)}
    BY <2>1, TailList DEF Lists, Apart
  <2>3. /\ answer' \in [Jobs \cup DirectPuts -> Answers]
        /\ \A k \in Jobs \cup DirectPuts :
             answer'[k] = IF k \in {Head(waiting)} THEN "closed" ELSE answer[k]
        /\ Pending(answer') = Pending(answer) \ {Head(waiting)}
    BY <2>1, AnswerFacts DEF Answers
  <2>4. Control' /\ Lists(waiting', channel', buf', staged')
    BY <2>1, <2>2, <2>3 DEF Control, Lists
  <2>5. Apart(waiting', channel', buf', staged', Pending(answer'))
    <3>1. Removes(waiting', waiting, Head(waiting)) BY <2>2 DEF Removes
    <3>2. Apart(waiting', channel, buf, staged, Pending(answer) \ {Head(waiting)})
      BY <3>1, Moves
    <3> QED BY <2>1, <2>3, <3>2
  <2>6. \A j \in Jobs : answer[j] = "err" => answer'[j] = "err"
    <3>1. Head(waiting) \in Pending(answer) BY <2>2 DEF Apart
    <3> QED BY <2>3, <3>1 DEF Pending
  <2>7. FlushInv' /\ TrueMeansStored' /\ NovelOnce'
    BY <1>1, <2>1, <2>3, <2>6, QuietStep
  <2> QED BY <2>4, <2>5, <2>7, PipeGoal
<1> QED BY <1>2, <1>3, <1>4

\* put_block on other threads, and the drop of the last handle.
LEMMA OtherStep ==
  ASSUME PipeInv,
         \/ \E d \in DirectPuts : DirectCheck(d) \/ DirectWrite(d)
         \/ DropStore \/ UNCHANGED vars
  PROVE  PipeInv'
<1> PipeForm BY PipeFacts
<1> USE DEF PipeForm
<1>1. FlushInv /\ TrueMeansStored /\ NovelOnce BY DEF PipeInv
<1>2. /\ answer' \in [Jobs \cup DirectPuts -> Answers]
      /\ \A j \in Jobs : answer'[j] = answer[j]
  <2>1. ASSUME NEW d \in DirectPuts, DirectCheck(d) \/ DirectWrite(d)
        PROVE  \E a \in {"true", "false", "written"} : answer' = Answer({d}, a)
    BY <2>1 DEF DirectCheck, DirectWrite
  <2>2. ASSUME NEW d \in DirectPuts, NEW a \in {"true", "false", "written"},
               answer' = Answer({d}, a)
        PROVE  /\ answer' \in [Jobs \cup DirectPuts -> Answers]
               /\ \A j \in Jobs : answer'[j] = answer[j]
    <3>1. a \in Answers BY DEF Answers
    <3> QED BY <2>2, <3>1, AnswerFacts
  <2>3. ASSUME DropStore \/ UNCHANGED vars PROVE answer' = answer
    BY <2>3 DEF DropStore, vars
  <2> QED BY <2>1, <2>2, <2>3
<1>3. /\ UNCHANGED <<waiting, channel, worker, closing, buf, staged, seen>>
      /\ rows \subseteq rows' /\ dropped' \in BOOLEAN
  <2>1. dropped \in BOOLEAN BY DEF Control
  <2>2. ASSUME NEW d \in DirectPuts, DirectCheck(d) PROVE <1>3!1 /\ rows' = rows /\ dropped' = dropped
    BY <2>2 DEF DirectCheck, flushVars
  <2>3. ASSUME NEW d \in DirectPuts, DirectWrite(d) PROVE <1>3!1 /\ rows \subseteq rows' /\ dropped' = dropped
    BY <2>3 DEF DirectWrite, flushVars
  <2>4. ASSUME DropStore PROVE <1>3!1 /\ rows' = rows /\ dropped' = TRUE
    BY <2>4 DEF DropStore, flushVars
  <2>5. ASSUME UNCHANGED vars PROVE <1>3!1 /\ rows' = rows /\ dropped' = dropped
    BY <2>5 DEF vars
  <2> QED BY <2>1, <2>2, <2>3, <2>4, <2>5
<1>4. Pending(answer') = Pending(answer) BY <1>2 DEF Pending
<1>5. Control' BY <1>2, <1>3 DEF Control
<1>6. Lists(waiting', channel', buf', staged') BY <1>3 DEF Lists
<1>7. Apart(waiting', channel', buf', staged', Pending(answer')) BY <1>3, <1>4 DEF Apart
<1>8. FlushInv' /\ TrueMeansStored' /\ NovelOnce' BY <1>1, <1>2, <1>3, QuietStep
<1> QED BY <1>5, <1>6, <1>7, <1>8, PipeGoal

\* The worker takes jobs, goes to its flush, or ends.
LEMMA CollectStep ==
  ASSUME PipeInv, Receive \/ Timeout \/ ChannelClosed
  PROVE  PipeInv'
<1> PipeForm BY PipeFacts
<1> USE DEF PipeForm
<1>1. FlushInv /\ TrueMeansStored /\ NovelOnce BY DEF PipeInv
<1>2. ASSUME Receive PROVE PipeInv'
  <2>1. /\ channel # << >>
        /\ buf' = Append(buf, Head(channel)) /\ channel' = Tail(channel)
        /\ worker \in {"recv", "collect"} /\ worker' \in {"stage", "collect"}
        /\ UNCHANGED <<answer, waiting, dropped, closing, staged, seen, rows>>
    BY <1>2 DEF Receive, flushVars
  <2>2. /\ channel' \in Seq(Jobs) /\ Head(channel) \in Jobs
        /\ Removes(channel', channel, Head(channel))
    BY <2>1, TailList, HeadTailProperties DEF Lists, Apart, Removes
  <2>3. buf' \in Seq(Jobs) /\ Adds(buf', buf, Head(channel))
    <3>1. Head(channel) \notin Range(buf) BY <2>2 DEF Apart, Removes
    <3>2. buf \in Seq(Jobs) /\ IsInjective(buf) BY DEF Lists, Apart
    <3>3. /\ Append(buf, Head(channel)) \in Seq(Jobs)
          /\ Range(Append(buf, Head(channel))) = Range(buf) \cup {Head(channel)}
          /\ IsInjective(Append(buf, Head(channel)))
      BY <2>2, <3>1, <3>2, AppendList
    <3> QED BY <2>1, <3>3 DEF Adds
  <2>4. Control' /\ Lists(waiting', channel', buf', staged')
    BY <2>1, <2>2, <2>3 DEF Control, Lists, WorkerStates
  <2>5. Apart(waiting', channel', buf', staged', Pending(answer'))
    <3>1. Apart(waiting, channel', buf', staged, Pending(answer)) BY <2>2, <2>3, Moves
    <3> QED BY <2>1, <3>1
  <2>6. FlushInv' /\ TrueMeansStored' /\ NovelOnce' BY <1>1, <2>1, QuietStep
  <2> QED BY <2>4, <2>5, <2>6, PipeGoal
<1>3. ASSUME Timeout \/ ChannelClosed PROVE PipeInv'
  <2>1. /\ worker \in {"recv", "collect"} /\ worker' \in {"gone", "stage"}
        /\ worker' = "gone" => worker = "recv"
        /\ UNCHANGED <<answer, waiting, channel, dropped, buf, staged, seen, rows>>
    BY <1>3 DEF Timeout, ChannelClosed, flushVars
  <2>2. closing' \in BOOLEAN
    <3>1. closing \in BOOLEAN BY DEF Control
    <3>2. closing' = closing \/ closing' = TRUE BY <1>3 DEF Timeout, ChannelClosed
    <3> QED BY <3>1, <3>2
  <2>3. Control' BY <2>1, <2>2 DEF Control, WorkerStates
  <2>4. Lists(waiting', channel', buf', staged') BY <2>1 DEF Lists
  <2>5. Apart(waiting', channel', buf', staged', Pending(answer')) BY <2>1
  <2>6. FlushInv' /\ TrueMeansStored' /\ NovelOnce' BY <1>1, <2>1, QuietStep
  <2> QED BY <2>3, <2>4, <2>5, <2>6, PipeGoal
<1> QED BY <1>2, <1>3

\* The runtime drops the task with what it holds.
LEMMA ShutdownStep ==
  ASSUME PipeInv, RuntimeShutdown
  PROVE  PipeInv'
<1> PipeForm BY PipeFacts
<1> USE DEF PipeForm
<1> DEFINE H == Range(channel) \cup Range(buf)
<1>1. /\ answer' = Answer(H, "lost")
      /\ worker \in {"recv", "collect"} /\ worker' = "gone"
      /\ channel' = << >> /\ buf' = << >>
      /\ UNCHANGED <<waiting, dropped, closing, staged, seen, rows>>
  BY DEF RuntimeShutdown, flushVars
<1>2. H \subseteq Pending(answer) BY DEF Apart
<1>3. /\ answer' \in [Jobs \cup DirectPuts -> Answers]
      /\ \A k \in Jobs \cup DirectPuts : answer'[k] = IF k \in H THEN "lost" ELSE answer[k]
      /\ Pending(answer') = Pending(answer) \ H
  BY <1>1, AnswerFacts DEF Answers
<1>4. staged = << >> BY <1>1 DEF Flush
<1>5. Lists(waiting', channel', buf', staged') BY <1>1, EmptyList DEF Lists
<1>6. Control' BY <1>1, <1>3, <1>4 DEF Control, WorkerStates
<1>7. Apart(waiting', channel', buf', staged', Pending(answer'))
  <2>1. Apart(waiting, << >>, << >>, staged, Pending(answer) \ H) BY EmptyList, Moves
  <2> QED BY <1>1, <1>3, <2>1
<1>8. \A j \in Jobs : answer[j] = "err" => answer'[j] = "err" BY <1>2, <1>3 DEF Pending
<1>9. \A j \in Jobs : /\ answer'[j] = "true" => answer[j] = "true"
                      /\ answer'[j] = "false" => answer[j] = "false"
  BY <1>3
<1>10. FlushInv' /\ TrueMeansStored' /\ NovelOnce'
  <2>1. FlushInv /\ TrueMeansStored /\ NovelOnce BY DEF PipeInv
  <2> QED BY <1>1, <1>8, <1>9, <2>1, QuietStep
<1> QED BY <1>5, <1>6, <1>7, <1>10, PipeGoal

\* What both staging actions do to the job at the head of the buffer.
LEMMA TakeFromBuf ==
  ASSUME PipeForm, buf # << >>
  PROVE  /\ Tail(buf) \in Seq(Jobs) /\ Head(buf) \in Jobs
         /\ Removes(Tail(buf), buf, Head(buf))
         /\ answer[Head(buf)] = "pending"
<1>1. /\ Tail(buf) \in Seq(Jobs) /\ Head(buf) \in Jobs
      /\ Removes(Tail(buf), buf, Head(buf))
  BY TailList, HeadTailProperties DEF PipeForm, Lists, Apart, Removes
<1>2. Head(buf) \in Pending(answer) BY <1>1 DEF PipeForm, Apart, Removes
<1> QED BY <1>1, <1>2 DEF Pending

\* A new block is staged.
LEMMA StageNewStep ==
  ASSUME PipeInv, StageJob, Block[Head(buf)] \notin seen \cup rows
  PROVE  PipeInv'
<1> PipeForm BY PipeFacts
<1> USE DEF PipeForm
<1> DEFINE j == Head(buf)
           n == Len(staged)
<1>1. /\ worker = "stage" /\ buf # << >> /\ buf' = Tail(buf)
      /\ seen' = seen \cup {Block[j]} /\ staged' = Append(staged, j)
      /\ UNCHANGED <<answer, waiting, channel, dropped, worker, closing, rows>>
  BY DEF StageJob
<1>2. buf' \in Seq(Jobs) /\ j \in Jobs /\ Removes(buf', buf, j)
  BY <1>1, TakeFromBuf
<1>3. staged \in Seq(Jobs) /\ n \in Nat /\ DOMAIN staged = 1..n
  BY LenProperties DEF Lists
<1>4. /\ staged' \in Seq(Jobs) /\ DOMAIN staged' = 1..(n + 1)
      /\ staged'[n + 1] = j /\ \A i \in 1..n : staged'[i] = staged[i]
  BY <1>1, <1>2, <1>3, AppendProperties
<1>5. Adds(staged', staged, j)
  <2>1. j \notin Range(staged) BY <1>2 DEF Apart, Removes
  <2>2. IsInjective(staged) BY DEF Apart
  <2>3. Range(Append(staged, j)) = Range(staged) \cup {j} /\ IsInjective(Append(staged, j))
    BY <1>2, <1>3, <2>1, <2>2, AppendList
  <2> QED BY <1>1, <2>3 DEF Adds
<1>6. Control' BY <1>1 DEF Control
<1>7. Lists(waiting', channel', buf', staged') BY <1>1, <1>2, <1>4 DEF Lists
<1>8. Apart(waiting', channel', buf', staged', Pending(answer'))
  <2>1. Apart(waiting, channel, buf', staged', Pending(answer)) BY <1>2, <1>5, Moves
  <2> QED BY <1>1, <2>1
<1>9. TrueMeansStored' /\ NovelOnce'
  BY <1>1 DEF PipeInv, TrueMeansStored, NovelOnce
<1> HIDE DEF j, n
<1>10. \A i \in DOMAIN staged' :
         \/ i \in DOMAIN staged /\ staged'[i] = staged[i] /\ i # n + 1
         \/ i = n + 1 /\ staged'[i] = j
  BY <1>3, <1>4
<1>11. DOMAIN staged \subseteq DOMAIN staged' /\ n + 1 \in DOMAIN staged'
  BY <1>3, <1>4
<1>12. \A x : Explained(x, answer, staged, rows) => Explained(x, answer', staged', rows')
  BY <1>1, <1>3, <1>4, <1>11 DEF Explained
<1>13. Explained(Block[j], answer', staged', rows') BY <1>4, <1>11 DEF Explained
<1>14. \A i \in DOMAIN staged : Block[staged[i]] \in seen /\ Block[staged[i]] # Block[j]
  BY <1>1 DEF Flush, j
<1>15. \A i, k \in DOMAIN staged' : Block[staged'[i]] = Block[staged'[k]] => i = k
  BY <1>10, <1>14 DEF Flush
<1>16. \A k \in Jobs, i \in DOMAIN staged' :
         Block[k] = Block[staged'[i]] => answer'[k] # "true"
  <2>1. \A k \in Jobs : Block[k] = Block[j] => answer[k] # "true"
    BY DEF PipeInv, TrueMeansStored, j
  <2> QED BY <1>1, <1>10, <2>1 DEF Flush
<1>17. \A i \in DOMAIN staged' : Block[staged'[i]] \in seen' BY <1>1, <1>10, <1>14
<1>18. /\ \A x \in seen' : Explained(x, answer', staged', rows')
       /\ \A k \in Jobs : answer'[k] = "false" => Explained(Block[k], answer', staged', rows')
  BY <1>1, <1>12, <1>13 DEF Flush
<1>19. Flush(answer', worker', buf', staged', seen', rows')
  BY <1>1, <1>15, <1>16, <1>17, <1>18 DEF Flush
<1> QED BY <1>6, <1>7, <1>8, <1>9, <1>19, FlushFormNext, PipeGoal

\* A repeat is answered Ok(false), a job that fails an error.
LEMMA StageAnswerStep ==
  ASSUME PipeInv,
         \/ StageJob /\ Block[Head(buf)] \in seen \cup rows
         \/ StageFails
  PROVE  PipeInv'
<1> PipeForm BY PipeFacts
<1> USE DEF PipeForm
<1> DEFINE j == Head(buf)
<1>1. PICK a \in {"false", "err"} :
        /\ worker = "stage" /\ buf # << >> /\ buf' = Tail(buf)
        /\ seen' = seen \cup {Block[j]} /\ answer' = Answer({j}, a)
        /\ a = "false" => Block[j] \in seen \cup rows
        /\ UNCHANGED <<staged, waiting, channel, dropped, worker, closing, rows>>
  BY DEF StageJob, StageFails
<1>2. buf' \in Seq(Jobs) /\ j \in Jobs /\ Removes(buf', buf, j) /\ answer[j] = "pending"
  BY <1>1, TakeFromBuf
<1> HIDE DEF j
<1>3. /\ answer' \in [Jobs \cup DirectPuts -> Answers]
      /\ \A k \in Jobs \cup DirectPuts : answer'[k] = IF k \in {j} THEN a ELSE answer[k]
      /\ Pending(answer') = Pending(answer) \ {j}
  <2>1. a \in Answers /\ a # "pending" BY DEF Answers
  <2> QED BY <1>1, <2>1, AnswerFacts
<1>4. Control' BY <1>1, <1>3 DEF Control
<1>5. Lists(waiting', channel', buf', staged') BY <1>1, <1>2 DEF Lists
<1>6. Apart(waiting', channel', buf', staged', Pending(answer'))
  <2>1. Apart(waiting, channel, buf', staged, Pending(answer) \ {j}) BY <1>2, Moves
  <2> QED BY <1>1, <1>3, <2>1
<1>7. \A k \in Jobs : /\ answer'[k] = "true" => answer[k] = "true"
                      /\ answer[k] = "err" => answer'[k] = "err"
                      /\ answer'[k] = "false" => answer[k] = "false" \/ (k = j /\ a = "false")
  BY <1>2, <1>3
<1>8. TrueMeansStored' /\ NovelOnce'
  BY <1>1, <1>7 DEF PipeInv, TrueMeansStored, NovelOnce
<1>9. \A x : Explained(x, answer, staged, rows) => Explained(x, answer', staged', rows')
  BY <1>1, <1>7 DEF Explained
<1>10. Explained(Block[j], answer', staged', rows')
  <2>1. CASE a = "false"
    <3>1. Explained(Block[j], answer, staged, rows) BY <1>1, <2>1 DEF Flush, Explained
    <3> QED BY <1>9, <3>1
  <2>2. CASE a = "err"
    <3>1. answer'[j] = "err" BY <1>2, <1>3, <2>2
    <3> QED BY <1>2, <3>1 DEF Explained
  <2> QED BY <1>1, <2>1, <2>2
<1>11. Flush(answer', worker', buf', staged', seen', rows')
  <2>1. \A x \in seen' : Explained(x, answer', staged', rows')
    BY <1>1, <1>9, <1>10 DEF Flush
  <2>2. \A k \in Jobs : answer'[k] = "false" => Explained(Block[k], answer', staged', rows')
    BY <1>7, <1>9, <1>10 DEF Flush
  <2> QED BY <1>1, <1>7, <2>1, <2>2 DEF Flush
<1> QED BY <1>4, <1>5, <1>6, <1>8, <1>11, FlushFormNext, PipeGoal

\* The batch is written.
LEMMA CommitStep ==
  ASSUME PipeInv, Commit
  PROVE  PipeInv'
<1> PipeForm BY PipeFacts
<1> USE DEF PipeForm
<1>1. /\ worker = "stage" /\ buf = << >> /\ seen' = {}
      /\ rows' = rows \cup {Block[j] : j \in Range(staged)}
      /\ \/ staged = << >> /\ worker' \in {"gone", "recv"}
         \/ staged # << >> /\ worker' = "ack"
      /\ UNCHANGED <<answer, waiting, channel, dropped, closing, buf, staged>>
  BY DEF Commit, AfterFlush
<1>2. rows \subseteq rows' /\ \A i \in DOMAIN staged : Block[staged[i]] \in rows'
  BY <1>1 DEF Range
<1>3. Control' BY <1>1 DEF Control, WorkerStates
<1>4. Lists(waiting', channel', buf', staged') BY <1>1 DEF Lists
<1>5. Apart(waiting', channel', buf', staged', Pending(answer')) BY <1>1
<1>6. TrueMeansStored' /\ NovelOnce'
  BY <1>1, <1>2 DEF PipeInv, TrueMeansStored, NovelOnce
<1>7. \A x : Explained(x, answer, staged, rows) => Explained(x, answer', staged', rows')
  BY <1>1, <1>2 DEF Explained
<1>8. Flush(answer', worker', buf', staged', seen', rows')
  BY <1>1, <1>2, <1>7 DEF Flush
<1> QED BY <1>3, <1>4, <1>5, <1>6, <1>8, FlushFormNext, PipeGoal

\* The write fails: what the staged blocks explained, their errors explain now.
LEMMA CommitFailsStep ==
  ASSUME PipeInv, CommitFails
  PROVE  PipeInv'
<1> PipeForm BY PipeFacts
<1> USE DEF PipeForm
<1> DEFINE H == Range(staged)
<1>1. /\ worker = "stage" /\ buf = << >> /\ staged' = << >> /\ seen' = {}
      /\ answer' = Answer(H, "err") /\ worker' \in {"gone", "recv"}
      /\ rows \subseteq rows'
      /\ UNCHANGED <<waiting, channel, dropped, closing, buf>>
  BY DEF CommitFails, AfterFlush
<1>2. H \subseteq Pending(answer) BY DEF Apart
<1>3. \A i \in DOMAIN staged : staged[i] \in H BY DEF Range
<1> HIDE DEF H
<1>4. /\ answer' \in [Jobs \cup DirectPuts -> Answers]
      /\ \A k \in Jobs \cup DirectPuts : answer'[k] = IF k \in H THEN "err" ELSE answer[k]
      /\ Pending(answer') = Pending(answer) \ H
  BY <1>1, AnswerFacts DEF Answers
<1>5. Control' BY <1>1, <1>4 DEF Control, WorkerStates
<1>6. Lists(waiting', channel', buf', staged') BY <1>1, EmptyList DEF Lists
<1>7. Apart(waiting', channel', buf', staged', Pending(answer'))
  <2>1. Apart(waiting, channel, buf, << >>, Pending(answer) \ H) BY EmptyList, Moves DEF H
  <2> QED BY <1>1, <1>4, <2>1
<1>8. \A k \in Jobs : /\ answer'[k] = "true" => answer[k] = "true"
                      /\ answer'[k] = "false" => answer[k] = "false"
                      /\ answer[k] = "err" => answer'[k] = "err"
                      /\ k \in H => answer'[k] = "err"
  BY <1>4
<1>9. TrueMeansStored' /\ NovelOnce'
  BY <1>1, <1>8 DEF PipeInv, TrueMeansStored, NovelOnce
<1>10. ASSUME NEW x, Explained(x, answer, staged, rows)
       PROVE  Explained(x, answer', staged', rows')
  <2>1. CASE x \in rows BY <1>1, <2>1 DEF Explained
  <2>2. CASE \E i \in DOMAIN staged : Block[staged[i]] = x
    <3>1. \E k \in H : Block[k] = x BY <1>3, <2>2
    <3>2. H \subseteq Jobs BY <1>2 DEF Pending
    <3> QED BY <1>8, <3>1, <3>2 DEF Explained
  <2>3. CASE \E k \in Jobs : answer[k] = "err" /\ Block[k] = x
    BY <1>8, <2>3 DEF Explained
  <2> QED BY <1>10, <2>1, <2>2, <2>3 DEF Explained
<1>11. Flush(answer', worker', buf', staged', seen', rows')
  <2>1. \A k \in Jobs : answer'[k] = "false" => Explained(Block[k], answer', staged', rows')
    BY <1>8, <1>10 DEF Flush
  <2>2. DOMAIN staged' = {} BY <1>1
  <2> QED BY <1>1, <2>1, <2>2 DEF Flush
<1> QED BY <1>5, <1>6, <1>7, <1>9, <1>11, FlushFormNext, PipeGoal

\* One staged job hears of the write.
LEMMA AckStep ==
  ASSUME PipeInv, AckJob
  PROVE  PipeInv'
<1> PipeForm BY PipeFacts
<1> USE DEF PipeForm
<1> DEFINE j == Head(staged)
           t == Tail(staged)
           n == Len(staged)
<1>1. PICK a \in {"true", "err"} :
        /\ worker = "ack" /\ staged' = t /\ answer' = Answer({j}, a)
        /\ worker' = IF n = 1 THEN AfterFlush ELSE "ack"
        /\ UNCHANGED <<waiting, channel, dropped, closing, buf, seen, rows>>
  BY DEF AckJob
<1>2. /\ buf = << >> /\ seen = {} /\ staged # << >>
      /\ \A i \in DOMAIN staged : Block[staged[i]] \in rows
  BY <1>1 DEF Flush
<1>3. staged \in Seq(Jobs) BY DEF Lists
<1>4. /\ t \in Seq(Jobs) /\ j \in Jobs /\ n \in Nat /\ n > 0
      /\ DOMAIN staged = 1..n /\ DOMAIN t = 1..(n - 1) /\ Len(t) = n - 1
      /\ j = staged[1] /\ \A i \in 1..(n - 1) : t[i] = staged[i + 1]
  BY <1>2, <1>3, HeadTailProperties, EmptySeq, LenProperties
<1>5. Removes(t, staged, j) BY <1>2, <1>3, TailList DEF Apart, Removes
<1>6. n = 1 => t = << >> BY <1>4, EmptySeq
<1>7. n # 1 => t # << >> BY <1>4
<1> HIDE DEF j, t, n
<1>8. 1 \in DOMAIN staged BY <1>4
<1>9. \A i \in DOMAIN t : i + 1 \in DOMAIN staged /\ t[i] = staged[i + 1] /\ i + 1 # 1
  BY <1>4
<1>10. \A i \in DOMAIN staged : i = 1 \/ (i - 1 \in DOMAIN t /\ t[i - 1] = staged[i])
  BY <1>4
<1>11. answer[j] = "pending"
  <2>1. j \in Pending(answer) BY <1>5 DEF Removes, Apart
  <2> QED BY <2>1 DEF Pending
<1>12. /\ answer' \in [Jobs \cup DirectPuts -> Answers]
       /\ \A k \in Jobs \cup DirectPuts : answer'[k] = IF k \in {j} THEN a ELSE answer[k]
       /\ Pending(answer') = Pending(answer) \ {j}
  <2>1. a \in Answers /\ a # "pending" BY DEF Answers
  <2> QED BY <1>1, <2>1, AnswerFacts
<1>13. worker' \in {"ack", "recv", "gone"} /\ (worker' # "ack" <=> n = 1)
  BY <1>1 DEF AfterFlush
<1>14. Control' BY <1>1, <1>2, <1>6, <1>12, <1>13 DEF Control, WorkerStates
<1>15. Lists(waiting', channel', buf', staged') BY <1>1, <1>4 DEF Lists
<1>16. Apart(waiting', channel', buf', staged', Pending(answer'))
  <2>1. Apart(waiting, channel, buf, t, Pending(answer) \ {j}) BY <1>5, Moves
  <2> QED BY <1>1, <1>12, <2>1
<1>17. \A k \in Jobs : /\ answer'[k] = "true" => answer[k] = "true" \/ k = j
                       /\ answer'[k] = "false" => answer[k] = "false"
                       /\ answer[k] = "err" => answer'[k] = "err"
  BY <1>11, <1>12
<1>18. TrueMeansStored'
  BY <1>1, <1>2, <1>4, <1>8, <1>17 DEF PipeInv, TrueMeansStored
<1>19. NovelOnce'
  <2>1. \A k \in Jobs : Block[k] = Block[j] => answer[k] # "true"
    BY <1>4, <1>8 DEF Flush
  <2> QED BY <1>17, <2>1 DEF PipeInv, NovelOnce
<1>20. ASSUME NEW x, Explained(x, answer, staged, rows)
       PROVE  Explained(x, answer', staged', rows')
  <2>1. CASE x \in rows BY <1>1, <2>1 DEF Explained
  <2>2. CASE \E i \in DOMAIN staged : Block[staged[i]] = x
    BY <1>1, <1>2, <2>2 DEF Explained
  <2>3. CASE \E k \in Jobs : answer[k] = "err" /\ Block[k] = x
    BY <1>17, <2>3 DEF Explained
  <2> QED BY <1>20, <2>1, <2>2, <2>3 DEF Explained
<1>21. Flush(answer', worker', buf', staged', seen', rows')
  <2>1. \A i, k \in DOMAIN t : Block[t[i]] = Block[t[k]] => i = k
    <3> SUFFICES ASSUME NEW i \in DOMAIN t, NEW k \in DOMAIN t, Block[t[i]] = Block[t[k]]
                 PROVE  i = k
      OBVIOUS
    <3>1. i + 1 = k + 1 BY <1>9 DEF Flush
    <3> QED BY <1>4, <3>1
  <2>2. \A k \in Jobs, i \in DOMAIN t : Block[k] = Block[t[i]] => answer'[k] # "true"
    <3> SUFFICES ASSUME NEW k \in Jobs, NEW i \in DOMAIN t, Block[k] = Block[t[i]]
                 PROVE  answer'[k] # "true"
      OBVIOUS
    <3>1. answer[k] # "true" BY <1>9 DEF Flush
    <3>2. k # j BY <1>4, <1>8, <1>9 DEF Flush
    <3> QED BY <1>17, <3>1, <3>2
  <2>3. \A i \in DOMAIN t : Block[t[i]] \in rows' BY <1>1, <1>2, <1>9
  <2>4. \A k \in Jobs : answer'[k] = "false" => Explained(Block[k], answer', staged', rows')
    BY <1>17, <1>20 DEF Flush
  <2> QED BY <1>1, <1>2, <1>6, <1>7, <1>13, <2>1, <2>2, <2>3, <2>4 DEF Flush
<1> QED BY <1>14, <1>15, <1>16, <1>18, <1>19, <1>21, FlushFormNext, PipeGoal

-----------------------------------------------------------------------------
(***************************************************************************)
(* The theorems.                                                           *)
(***************************************************************************)

LEMMA PipeInit == ASSUME Init PROVE PipeInv
<1> USE DEF Init
<1>1. answer \in [Jobs \cup DirectPuts -> Answers] /\ Pending(answer) = {}
  BY DEF Answers, Pending
<1>2. Lists(waiting, channel, buf, staged) BY EmptyList DEF Lists
<1>3. Control BY <1>1 DEF Control, WorkerStates
<1>4. Apart(waiting, channel, buf, staged, Pending(answer)) BY <1>1, EmptyList DEF Apart
<1>5. \A j \in Jobs : answer[j] = "idle" OBVIOUS
<1>6. DOMAIN staged = {} OBVIOUS
<1>7. Flush(answer, worker, buf, staged, seen, rows) BY <1>5, <1>6 DEF Flush
<1>8. TrueMeansStored /\ NovelOnce BY <1>5 DEF TrueMeansStored, NovelOnce
<1> QED BY <1>2, <1>3, <1>4, <1>7, <1>8, TypeForm, AccountedForm, FlushForm DEF PipeInv

LEMMA PipeStep == ASSUME PipeInv, [Next]_vars PROVE PipeInv'
<1>1. CASE (\E j \in Jobs : PutPipelined(j)) \/ Send \/ SendClosed BY <1>1, CallerStep
<1>2. CASE \/ \E d \in DirectPuts : DirectCheck(d) \/ DirectWrite(d)
           \/ DropStore \/ UNCHANGED vars
  BY <1>2, OtherStep
<1>3. CASE RuntimeShutdown BY <1>3, ShutdownStep
<1>4. CASE Receive \/ Timeout \/ ChannelClosed BY <1>4, CollectStep
<1>5. CASE StageJob
  <2>1. CASE Block[Head(buf)] \notin seen \cup rows BY <1>5, <2>1, StageNewStep
  <2>2. CASE Block[Head(buf)] \in seen \cup rows BY <1>5, <2>2, StageAnswerStep
  <2> QED BY <2>1, <2>2
<1>6. CASE StageFails BY <1>6, StageAnswerStep
<1>7. CASE Commit BY <1>7, CommitStep
<1>8. CASE CommitFails BY <1>8, CommitFailsStep
<1>9. CASE AckJob BY <1>9, AckStep
<1> QED BY <1>1, <1>2, <1>3, <1>4, <1>5, <1>6, <1>7, <1>8, <1>9 DEF Next, WorkerStep

\* The inductive invariant of the pipeline.
THEOREM PipelineInvariant == Spec => []PipeInv
<1>1. Init => PipeInv BY PipeInit
<1>2. PipeInv /\ [Next]_vars => PipeInv' BY PipeStep
<1> QED BY <1>1, <1>2, PTL DEF Spec

\* The pipeline keeps its types, however calls, flushes, failures, the drop of
\* the last handle and a shutdown of the runtime interleave.
THEOREM PipelineTypeCorrect == Spec => []TypeOK
<1>1. PipeInv => TypeOK BY DEF PipeInv
<1> QED BY <1>1, PipelineInvariant, PTL

\* put_pipelined loses no call and answers none twice: a call without an answer
\* is in exactly one place of the pipeline, for any channel capacity and any
\* batch size.
THEOREM PipelineAccountsForJobs == Spec => []JobsAccounted
<1>1. PipeInv => JobsAccounted BY DEF PipeInv
<1> QED BY <1>1, PipelineInvariant, PTL

\* What flush_pipeline_batch has seen and staged is stored, staged or failed.
THEOREM FlushInvariant == Spec => []FlushInv
<1>1. PipeInv => FlushInv BY DEF PipeInv
<1> QED BY <1>1, PipelineInvariant, PTL

\* Ok(true) from put_pipelined means that the block is in CF_BLOCKS.
THEOREM TrueAlwaysStored == Spec => []TrueMeansStored
<1>1. PipeInv => TrueMeansStored BY DEF PipeInv
<1> QED BY <1>1, PipelineInvariant, PTL

\* At most one of the pipelined calls that carry a block hears Ok(true).
THEOREM NovelAtMostOnce == Spec => []NovelOnce
<1>1. PipeInv => NovelOnce BY DEF PipeInv
<1> QED BY <1>1, PipelineInvariant, PTL

\* Ok(false) from put_pipelined means that the block is stored, or that a call
\* with the same block is still pending or has heard an error.
THEOREM FalseAlwaysExplained == Spec => []FalseMeansStored
<1>1. ASSUME PipeInv PROVE FalseMeansStored
  <2> PipeForm BY <1>1, PipeFacts
  <2>1. \A i \in DOMAIN staged : staged[i] \in Jobs /\ answer[staged[i]] = "pending"
    <3>1. \A i \in DOMAIN staged : staged[i] \in Pending(answer)
      BY DEF PipeForm, Apart, Range
    <3> QED BY <3>1 DEF Pending
  <2>2. \A j \in Jobs : answer[j] = "false" => Explained(Block[j], answer, staged, rows)
    BY DEF PipeForm, Flush
  <2> QED BY <2>1, <2>2 DEF Explained, FalseMeansStored
<1> QED BY <1>1, PipelineInvariant, PTL

=============================================================================
