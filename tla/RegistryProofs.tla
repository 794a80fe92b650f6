---------------------------- MODULE RegistryProofs ----------------------------
(***************************************************************************)
(* Proofs about Registry, for any contents, any calls of the policy and    *)
(* any setting of the retry flags, however absurd: an answer is what was   *)
(* asked for, and the three stacked layers of retries over every HTTP      *)
(* exchange of a call stay within their product.                           *)
(***************************************************************************)
EXTENDS Registry, TLAPS

(* Arithmetic *)

LEMMA ProductNat == ASSUME NEW m \in Nat, NEW n \in Nat PROVE m * n \in Nat
  OBVIOUS

LEMMA ProductSucc ==
  ASSUME NEW m \in Nat, NEW n \in Nat PROVE (m + 1) * n = m * n + n
  OBVIOUS

LEMMA ProductMonotone ==
  ASSUME NEW k \in Nat, NEW m \in Int, NEW n \in Int, m + 1 <= n
  PROVE  m * k + k <= n * k /\ m * k \in Int /\ n * k \in Int
  <1>1. (n - m - 1) * k \in Nat
    BY ProductNat
  <1>2. n * k = m * k + k + (n - m - 1) * k
    OBVIOUS
  <1>3. QED
    BY <1>1, <1>2

\* A converted float64 is a Duration, in range or not (internal/http/retry.go, 166).
LEMMA ToDurationInt ==
  ASSUME NEW n, NEW d PROVE ToDuration(n, d) \subseteq Int
  BY RegistryAssumption DEF ToDuration

LEMMA WrapInt ==
  ASSUME NEW n \in Int PROVE Wrap(n) \in Int
  <1>1. MaxInt - MinInt + 1 \in Nat \ {0} /\ n - MinInt \in Int
    BY RegistryAssumption
  <1>2. (n - MinInt) % (MaxInt - MinInt + 1) \in Int
    BY <1>1
  <1>3. QED
    BY <1>2, RegistryAssumption DEF Wrap

LEMMA JitteredInt ==
  ASSUME NEW duration \in Int, NEW r PROVE Jittered(duration, r) \subseteq Int
  <1>1. CASE retry.Jitter <= 0
    BY <1>1 DEF Jittered
  <1>2. CASE ~(retry.Jitter <= 0)
    <2> DEFINE js == ToDuration(duration * retry.Jitter * RandomValue(r), 100 * RandomUnits)
    <2>1. js \subseteq Int
      BY ToDurationInt
    <2>2. Jittered(duration, r) = {Wrap(duration + j) : j \in js}
      BY <1>2 DEF Jittered
    <2> HIDE DEF js
    <2>3. \A j \in js : duration + j \in Int
      BY <2>1
    <2>4. QED
      BY <2>2, <2>3, WrapInt
  <1>3. QED
    BY <1>1, <1>2

\* calculateBackoff (internal/http/retry.go, 158-192): the cap holds whatever overflows.
LEMMA BackoffCapped ==
  ASSUME retry \in Settings, NEW attempt \in Nat, NEW r,
         NEW w \in calculateBackoff(attempt, r)
  PROVE  /\ w \in Int
         /\ IF attempt = 0 THEN w = retry.Duration ELSE w <= retry.MaxWait
  <1>1. retry.Duration \in Int /\ retry.MaxWait \in Int
    BY SettingsAssumption
  <1>2. CASE attempt = 0
    BY <1>1, <1>2 DEF calculateBackoff
  <1>3. CASE attempt # 0
    <2> DEFINE bases == ToDuration(retry.Duration * retry.Factor ^ attempt, 100 ^ attempt)
               all == UNION {Jittered(b, r) : b \in bases}
    <2>1. bases \subseteq Int
      BY ToDurationInt
    <2>2. calculateBackoff(attempt, r) = {IF d > retry.MaxWait THEN retry.MaxWait ELSE d : d \in all}
      BY <1>3 DEF calculateBackoff
    <2> HIDE DEF bases
    <2>3. all \subseteq Int
      BY <2>1, JitteredInt
    <2> HIDE DEF all
    <2>4. PICK d \in all : w = IF d > retry.MaxWait THEN retry.MaxWait ELSE d
      BY <2>2
    <2>5. d \in Int
      BY <2>3
    <2>6. QED
      BY <1>1, <1>3, <2>4, <2>5
  <1>4. QED
    BY <1>2, <1>3

-------------------------------------------------------------------------------
(* The inductive invariant *)

\* The files that ImageFiles has kept after n layers.
KeptUpTo(n) == UNION {Kept(Store[served].layers[i]) : i \in 1 .. n}

\* What is known of a call that reads a body: which content, and how far it is.
ReadInv ==
  /\ call.fn \in {"blob", "config", "files"} /\ call.ref \in Digests
  /\ served \in Digests /\ served = Target(call.fn, call.ref)
  /\ call.fn # "files" => left = 1
  /\ call.fn = "files" =>
       /\ position < Len(Store[served].layers)
       /\ left <= 1 + ConfigReads /\ (position > 0 => left = 1)
       /\ files = KeptUpTo(position)

\* What each stage of a call knows of the call.
ControlInv ==
  /\ call = NoCall <=> step = "idle"
  /\ call = NoCall => round = NoRound /\ sent = 0 /\ waited = 0
  /\ call # NoCall =>
       /\ left >= 1 /\ steps \in 1 .. Tries(call.fn)
       /\ call.ref \in Tags => call.fn \notin NeedsDigest
  /\ step = "resolve" => call.ref \in Tags
  /\ step = "child" =>
       /\ call.fn \in ImageCalls /\ served \in Digests
       /\ call.ref \in Digests => served = Target(call.fn, call.ref)
  /\ step = "read" => ReadInv
  /\ step # "read" => position = 0 /\ files = {}

\* While no tag moves, a call by tag fetches what the tag was resolved to.
TagInv ==
  /\ TagAnswers
  /\ moves = 0 /\ call # NoCall /\ call.ref \in Tags =>
       /\ step \in {"fetch", "child"} => resolved = tags[call.ref]
       /\ step = "child" => served = Target(call.fn, resolved)

\* A round of attempts is one that the loop of RoundTrip and the library's can be in.
RoundInv ==
  IF retry.MaxRetry > 0
  THEN /\ round.attempt <= retry.MaxRetry + 1 /\ round.outer <= retry.MaxRetry - 1
       /\ round.backoff => round.attempt <= retry.MaxRetry
  ELSE round = NoRound

\* The exchanges of the later calls of client.Image that OnError may make.
Rest == (steps - 1) * MethodLength(call.fn)

\* The exchanges, the one under way included, that the call may still make.
Remaining ==
  CASE step = "resolve" -> left + MethodLength(call.fn) + Rest + Reads(call)
    [] step = "fetch"   -> left + (MethodLength(call.fn) - FetchLength(call.fn)) + Rest + Reads(call)
    [] step = "child"   -> left + Rest + Reads(call)
    [] OTHER -> IF call.fn = "files" THEN left + Len(Store[served].layers) - position - 1
                ELSE left

\* The requests of the exchange under way.
Current ==
  round.outer * (retry.MaxRetry + 1) + round.attempt + (IF round.backoff THEN 1 ELSE 0)

\* No request is made that the exchanges gone by and the attempts do not account for.
BudgetInv ==
  call # NoCall =>
    sent <= (MaxExchanges(call) - Remaining) * PerExchange + Current

\* The parts of AnswersSound that hold however the tags move.
AnswersInv == PinnedAnswers /\ WholeFiles /\ TermsDeclared

\* What is known of the state between any two steps of an evaluation.
IInv ==
  TypeOK /\ ControlInv /\ RoundInv /\ BudgetInv /\ AnswersInv /\ WaitsCapped

-------------------------------------------------------------------------------
(* Facts about the operators *)

LEMMA NoCallFresh == NoCall \notin Calls
  BY DEF NoCall, Calls, Builtins, Fetchers

LEMMA FreshRound ==
  /\ NoRound \in [attempt : Nat, err : BOOLEAN, backoff : BOOLEAN, outer : Nat]
  /\ NoRound.backoff = FALSE /\ NoRound.attempt = 0 /\ NoRound.outer = 0
  BY DEF NoRound

LEMMA Lengths ==
  ASSUME NEW fn
  PROVE  /\ FetchLength(fn) \in Nat \ {0} /\ MethodLength(fn) \in Nat \ {0}
         /\ MethodLength(fn) = FetchLength(fn) + (IF fn \in ImageCalls THEN 1 ELSE 0)
         /\ ConfigReads \in {0, 1}
         /\ Tries(fn) \in 1 .. OnErrorSteps
  BY RegistryAssumption DEF FetchLength, MethodLength, ConfigReads, Tries

LEMMA TargetDigest ==
  ASSUME NEW fn, NEW d \in Digests
  PROVE  Target(fn, d) \in Digests \cup {NoDigest}
  BY StoreAssumption DEF Target

LEMMA ReadsNat ==
  ASSUME NEW c \in Calls, c.fn \in NeedsDigest => c.ref \in Digests
  PROVE  Reads(c) \in Nat
  <1>1. CASE c.fn = "files"
    <2>1. c.ref \in Digests
      BY <1>1 DEF NeedsDigest
    <2>2. CASE Target("files", c.ref) = NoDigest
      BY <1>1, <2>2 DEF Reads
    <2>3. CASE Target("files", c.ref) # NoDigest
      <3>1. Target("files", c.ref) \in Digests
        BY <2>1, <2>3, TargetDigest
      <3>2. Len(Store[Target("files", c.ref)].layers) \in Nat
        BY <3>1, StoreAssumption
      <3>3. Reads(c) = ConfigReads + Len(Store[Target("files", c.ref)].layers)
        BY <1>1, <2>3 DEF Reads
      <3>4. QED
        BY <3>2, <3>3, Lengths
    <2>4. QED
      BY <2>2, <2>3
  <1>2. CASE c.fn \in {"blob", "config"}
    BY <1>2 DEF Reads
  <1>3. CASE c.fn \notin {"blob", "config", "files"}
    BY <1>3 DEF Reads
  <1>4. QED
    BY <1>1, <1>2, <1>3

\* The numbers that the budget of a call is made of.
LEMMA CallNumbers ==
  ASSUME TypeOK, ControlInv, call # NoCall
  PROVE  /\ call \in Calls /\ step # "idle"
         /\ Reads(call) \in Nat /\ Rest \in Nat /\ Remaining \in Nat \ {0}
         /\ MaxExchanges(call) \in Nat /\ PerExchange \in Nat
  <1>1. call \in Calls /\ step # "idle" /\ left \in Nat \ {0} /\ steps \in 1 .. Tries(call.fn)
    BY DEF TypeOK, ControlInv
  <1>2. call.fn \in NeedsDigest => call.ref \in Digests
    BY <1>1 DEF ControlInv, Calls
  <1>3. Reads(call) \in Nat
    BY <1>1, <1>2, ReadsNat
  <1>4. Rest \in Nat
    <2>1. steps - 1 \in Nat /\ MethodLength(call.fn) \in Nat
      BY <1>1, Lengths
    <2>2. QED
      BY <2>1, ProductNat DEF Rest
  <1>5. Remaining \in Nat \ {0}
    <2>1. step \in {"resolve", "fetch", "child"} => Remaining \in Nat \ {0}
      <3>1. /\ MethodLength(call.fn) \in Nat /\ FetchLength(call.fn) \in Nat
            /\ MethodLength(call.fn) - FetchLength(call.fn) \in Nat
        BY Lengths
      <3>2. CASE step = "resolve"
        BY <1>1, <1>3, <1>4, <3>1, <3>2 DEF Remaining
      <3>3. CASE step = "fetch"
        BY <1>1, <1>3, <1>4, <3>1, <3>3 DEF Remaining
      <3>4. CASE step = "child"
        BY <1>1, <1>3, <1>4, <3>4 DEF Remaining
      <3>5. QED
        BY <3>2, <3>3, <3>4
    <2>2. step = "read" => Remaining \in Nat \ {0}
      <3>1. CASE step = "read" /\ call.fn = "files"
        <4>1. Len(Store[served].layers) \in Nat /\ position \in Nat
              /\ position < Len(Store[served].layers)
          BY <3>1, StoreAssumption DEF ControlInv, ReadInv, TypeOK
        <4>2. Remaining = left + Len(Store[served].layers) - position - 1
          BY <3>1 DEF Remaining
        <4>3. QED
          BY <1>1, <4>1, <4>2
      <3>2. CASE step = "read" /\ call.fn # "files"
        BY <1>1, <3>2 DEF Remaining
      <3>3. QED
        BY <3>1, <3>2
    <2>3. QED
      BY <1>1, <2>1, <2>2 DEF TypeOK
  <1>6. MaxExchanges(call) \in Nat
    <2>1. Tries(call.fn) * MethodLength(call.fn) \in Nat
      BY Lengths, ProductNat
    <2>2. QED
      BY <1>3, <2>1, RegistryAssumption DEF MaxExchanges
  <1>7. PerExchange \in Nat
    <2>1. retry.MaxRetry \in Int
      BY SettingsAssumption DEF TypeOK
    <2>2. CASE retry.MaxRetry > 0
      <3>1. retry.MaxRetry * (retry.MaxRetry + 1) \in Nat
        BY <2>1, <2>2, ProductNat
      <3>2. QED
        BY <2>2, <3>1 DEF PerExchange
    <2>3. QED
      BY <2>1, <2>2 DEF PerExchange
  <1>8. QED
    BY <1>1, <1>3, <1>4, <1>5, <1>6, <1>7

\* The transport's attempts and the library's steps multiply to PerExchange.
LEMMA CurrentBound ==
  ASSUME TypeOK, ControlInv, RoundInv
  PROVE  /\ Current \in Nat /\ Current <= PerExchange
         /\ Sending => Current + 1 <= PerExchange
  <1>1. retry.MaxRetry \in Int
    BY SettingsAssumption DEF TypeOK
  <1>2. CASE retry.MaxRetry > 0
    <2> DEFINE k == retry.MaxRetry
               m == retry.MaxRetry + 1
               o == round.outer
               n == round.attempt + (IF round.backoff THEN 1 ELSE 0)
    <2>1. k \in Nat /\ m \in Nat /\ o \in Nat /\ o <= k - 1 /\ n \in Nat /\ n <= m
      BY <1>1, <1>2 DEF TypeOK, RoundInv
    <2>2. Sending => n + 1 <= m
      BY <1>1, <1>2 DEF Sending, TypeOK, RoundInv
    <2>3. Current = o * m + n
      <3>1. o * m \in Nat /\ round.attempt \in Nat
        BY <2>1, ProductNat DEF TypeOK
      <3>2. QED
        BY <3>1 DEF Current
    <2>4. PerExchange = k * m
      BY <1>2 DEF PerExchange
    <2> HIDE DEF k, m, o, n
    <2>5. o * m + m <= k * m /\ o * m \in Nat
      BY <2>1, ProductMonotone, ProductNat
    <2>6. QED
      BY <2>1, <2>2, <2>3, <2>4, <2>5
  <1>3. CASE ~(retry.MaxRetry > 0)
    <2>1. round = NoRound /\ PerExchange = 0 /\ ~Sending
      BY <1>3 DEF RoundInv, PerExchange, Sending
    <2>2. Current = 0
      BY <1>1, <2>1, FreshRound DEF Current
    <2>3. QED
      BY <2>1, <2>2
  <1>4. QED
    BY <1>2, <1>3

LEMMA CountedBound ==
  ASSUME TypeOK PROVE Counted \in Nat /\ Counted <= sent + 1
  BY DEF Counted, TypeOK
-------------------------------------------------------------------------------
(* Ways in which a call goes on *)

LEMMA AnswersKept ==
  ASSUME AnswersInv, given' = given PROVE AnswersInv'
  BY DEF AnswersInv, PinnedAnswers, WholeFiles, TermsDeclared

\* The same stage, the same exchange: another attempt or another step of the library.
LEMMA SameExchange ==
  ASSUME IInv, call # NoCall, UNCHANGED <<registryVars, call, stageVars, given>>,
         round' \in [attempt : Nat, err : BOOLEAN, backoff : BOOLEAN, outer : Nat],
         RoundInv', WaitsCapped', sent' \in Nat, waited' \in Int,
         Current' \in Int, sent' - sent <= Current' - Current
  PROVE  IInv'
  <1> USE DEF IInv
  <1>1. /\ UNCHANGED <<retry, tags, moves, expired, step, left, resolved, served, position>>
        /\ UNCHANGED <<files, steps>>
    BY DEF registryVars, stageVars
  <1>2. TypeOK'
    BY <1>1 DEF TypeOK
  <1>3. ControlInv'
    BY <1>1 DEF ControlInv, ReadInv, KeptUpTo
  <1>4. BudgetInv'
    <2> DEFINE x == (MaxExchanges(call) - Remaining) * PerExchange
    <2>1. x \in Int /\ Current \in Nat /\ sent \in Nat
      BY CallNumbers, CurrentBound DEF TypeOK
    <2>2. sent <= x + Current
      BY DEF BudgetInv
    <2>3. x' = x
      BY <1>1 DEF Remaining, Rest, PerExchange
    <2> HIDE DEF x
    <2>4. sent' <= x + Current'
      <3>1. ASSUME NEW s \in Int, NEW t \in Int, NEW c \in Int, NEW d \in Int, NEW y \in Int,
                   t - s <= d - c, s <= y + c
            PROVE  t <= y + d
        BY <3>1
      <3>2. sent' \in Int /\ sent \in Int /\ Current \in Int /\ Current' \in Int /\ x \in Int
        BY <2>1
      <3>3. QED
        BY <2>2, <3>1, <3>2
    <2>5. QED
      BY <2>3, <2>4 DEF BudgetInv, x
  <1>5. AnswersInv'
    BY AnswersKept
  <1>6. QED
    BY <1>2, <1>3, <1>4, <1>5

\* An exchange is over, well or badly: its budget passes to the next one.
LEMMA NextExchange ==
  ASSUME IInv, call # NoCall, UNCHANGED <<registryVars, call, given>>, round' = NoRound,
         sent' = sent \/ (Sending /\ sent' = Counted),
         TypeOK', ControlInv', Remaining' \in Int, Remaining' <= Remaining - 1
  PROVE  IInv'
  <1> USE DEF IInv
  <1>1. retry' = retry /\ retry.MaxRetry \in Int
    BY SettingsAssumption DEF registryVars, TypeOK
  <1>2. RoundInv'
    BY <1>1, FreshRound DEF RoundInv
  <1>3. WaitsCapped'
    BY FreshRound DEF WaitsCapped
  <1>4. BudgetInv'
    <2> DEFINE k == PerExchange
               m == MaxExchanges(call) - Remaining
               n == MaxExchanges(call) - Remaining'
    <2>1. k \in Nat /\ m \in Int /\ n \in Int /\ m + 1 <= n
      BY CallNumbers
    <2>2. m * k + k <= n * k /\ m * k \in Int /\ n * k \in Int
      <3> HIDE DEF k, m, n
      <3>1. QED
        BY <2>1, ProductMonotone
    <2>3. sent <= m * k + Current /\ sent \in Nat /\ sent' \in Nat
      BY DEF BudgetInv, TypeOK
    <2>4. Current \in Nat /\ Current <= k /\ (Sending => Current + 1 <= k)
      BY CurrentBound
    <2>5. sent' = sent \/ (Sending /\ sent' <= sent + 1)
      BY CountedBound
    <2>6. Current' = 0
      <3>1. Current' = 0 * (retry.MaxRetry + 1) + 0 + 0
        BY <1>1, FreshRound DEF Current
      <3>2. QED
        BY <1>1, <3>1
    <2>7. sent' <= n * k
      <3> DEFINE x == m * k
                 y == n * k
      <3>1. x \in Int /\ y \in Int /\ x + k <= y /\ sent <= x + Current
        BY <2>2, <2>3
      <3> HIDE DEF x, y, k
      <3>2. sent' <= y
        BY <2>1, <2>3, <2>4, <2>5, <3>1
      <3>3. QED
        BY <3>2 DEF y
    <2>8. (MaxExchanges(call) - Remaining)' * PerExchange' = n * k
      BY <1>1 DEF PerExchange
    <2>9. QED
      BY <2>2, <2>6, <2>7, <2>8 DEF BudgetInv
  <1>5. AnswersInv'
    BY AnswersKept
  <1>6. QED
    BY <1>2, <1>3, <1>4, <1>5

\* What AnswersInv asks of one answer.
SoundAnswer(c, a) ==
  /\ c.ref \in Digests /\ a.ok => a.digest = Target(c.fn, c.ref)
  /\ c.fn = "files" /\ a.ok =>
       a.value = {f \in UNION {Store[Target("files", c.ref)].layers[i] :
                                 i \in DOMAIN Store[Target("files", c.ref)].layers} :
                    f.dir \in Paths /\ f.supported /\ f.structured}
  /\ c.fn = "descriptor" => a.value \subseteq DescriptorDecl
  /\ c.fn = "manifest" => a.value \subseteq ManifestDecl
  /\ c.fn = "index" => a.value \ {"subject"} \subseteq IndexDecl

LEMMA UndefinedSound == ASSUME NEW c PROVE SoundAnswer(c, Undefined)
  BY DEF SoundAnswer, Undefined

LEMMA AnswersGrow ==
  ASSUME AnswersInv, NEW c, NEW d, NEW a, SoundAnswer(c, a),
         given' = given \cup {[call |-> c, resolved |-> d, answer |-> a]}
  PROVE  AnswersInv'
  <1>1. \A g \in given' : g \in given \/ (g.call = c /\ g.answer = a)
    OBVIOUS
  <1>2. PinnedAnswers'
    BY <1>1 DEF AnswersInv, PinnedAnswers, SoundAnswer
  <1>3. WholeFiles'
    BY <1>1 DEF AnswersInv, WholeFiles, SoundAnswer
  <1>4. TermsDeclared'
    BY <1>1 DEF AnswersInv, TermsDeclared, SoundAnswer
  <1>5. QED
    BY <1>2, <1>3, <1>4 DEF AnswersInv

\* The call under way returns a sound answer.
LEMMA AnswerStep ==
  ASSUME IInv, NEW a, call # NoCall, Answer(a), SoundAnswer(call, a)
  PROVE  IInv'
  <1> USE DEF IInv
  <1>1. /\ call' = NoCall /\ step' = "idle" /\ left' = 0 /\ resolved' = NoDigest
        /\ served' = NoDigest /\ position' = 0 /\ files' = {} /\ round' = NoRound
        /\ steps' = 0 /\ sent' = 0 /\ waited' = 0
        /\ given' = given \cup {[call |-> call, resolved |-> resolved, answer |-> a]}
        /\ UNCHANGED <<retry, tags, moves, expired>>
    BY DEF Answer, registryVars
  <1>2. TypeOK'
    BY <1>1, FreshRound, RegistryAssumption DEF TypeOK
  <1>3. ControlInv'
    BY <1>1 DEF ControlInv
  <1>4. RoundInv' /\ WaitsCapped'
    <2>1. retry.MaxRetry \in Int
      BY SettingsAssumption DEF TypeOK
    <2>2. QED
      BY <1>1, <2>1, FreshRound DEF RoundInv, WaitsCapped
  <1>5. BudgetInv'
    BY <1>1 DEF BudgetInv
  <1>6. AnswersInv'
    BY <1>1, AnswersGrow
  <1>7. QED
    BY <1>2, <1>3, <1>4, <1>5, <1>6

\* The method of the client fails (oci.go, 431-434: OnError may call it again).
LEMMA MethodFailsStep ==
  ASSUME IInv, call # NoCall, NEW n, n = sent \/ (Sending /\ n = Counted), MethodFails(n)
  PROVE  IInv'
  <1> USE DEF IInv
  <1>1. CASE ~(step \in {"fetch", "child"} /\ steps > 1)
    BY <1>1, AnswerStep, UndefinedSound DEF MethodFails
  <1>2. CASE step \in {"fetch", "child"} /\ steps > 1
    <2>1. /\ step' = "fetch" /\ left' = FetchLength(call.fn) /\ steps' = steps - 1
          /\ round' = NoRound /\ waited' = 0 /\ sent' = n
          /\ UNCHANGED <<registryVars, call, resolved, served, position, files, given>>
      BY <1>2 DEF MethodFails
    <2>2. /\ FetchLength(call.fn) \in Nat \ {0} /\ MethodLength(call.fn) \in Nat
          /\ MethodLength(call.fn) - FetchLength(call.fn) \in Nat
      BY Lengths
    <2>3. n \in Nat /\ steps \in 1 .. Tries(call.fn) /\ steps \in 1 .. OnErrorSteps
          /\ left \in Nat \ {0}
      BY CountedBound, Lengths DEF TypeOK, ControlInv
    <2>4. TypeOK'
      <3>1. steps' \in 0 .. OnErrorSteps /\ left' \in Nat
        BY <2>1, <2>2, <2>3, RegistryAssumption
      <3>2. QED
        BY <2>1, <2>3, <3>1, FreshRound DEF TypeOK, registryVars
    <2>5. ControlInv'
      BY <1>2, <2>1, <2>2, <2>3, Lengths DEF ControlInv
    <2>6. Remaining' \in Int /\ Remaining' <= Remaining - 1
      <3> DEFINE ml == MethodLength(call.fn)
                 fl == FetchLength(call.fn)
                 rd == Reads(call)
      <3>1. rd \in Nat /\ Rest \in Nat
        BY CallNumbers
      <3>2. Rest' \in Nat /\ Rest = Rest' + ml
        <4>1. Rest' = (steps - 2) * ml /\ Rest = (steps - 1) * ml
          BY <2>1, <2>3 DEF Rest
        <4>2. steps - 2 \in Nat /\ ml \in Nat /\ steps - 1 = (steps - 2) + 1
          BY <1>2, <2>2, <2>3
        <4> HIDE DEF ml
        <4>3. (steps - 2) * ml \in Nat /\ (steps - 1) * ml = (steps - 2) * ml + ml
          BY <4>2, ProductNat, ProductSucc
        <4>4. QED
          BY <4>1, <4>3
      <3>3. Remaining' = fl + (ml - fl) + Rest' + rd
        BY <2>1 DEF Remaining
      <3>4. Remaining = left + (ml - fl) + Rest + rd \/ Remaining = left + Rest + rd
        BY <1>2 DEF Remaining
      <3> HIDE DEF ml, fl, rd
      <3>5. ml \in Nat /\ fl \in Nat /\ ml - fl \in Nat
        BY <2>2 DEF ml, fl
      <3>6. QED
        BY <2>3, <3>1, <3>2, <3>3, <3>4, <3>5
    <2>7. QED
      BY <2>1, <2>4, <2>5, <2>6, NextExchange
  <1>3. QED
    BY <1>1, <1>2

\* The library around the transport makes the request again (client.go, 69-74).
LEMMA LibraryRetriesStep ==
  ASSUME IInv, call # NoCall, NEW n, n = sent \/ (Sending /\ n = Counted), LibraryRetries(n)
  PROVE  IInv'
  <1> USE DEF IInv
  <1>1. /\ round.outer + 1 < retry.MaxRetry
        /\ round' = [NoRound EXCEPT !.outer = round.outer + 1]
        /\ waited' = 0 /\ sent' = n
        /\ UNCHANGED <<registryVars, call, stageVars, given>>
    BY DEF LibraryRetries
  <1>2. retry' = retry /\ retry.MaxRetry \in Int /\ round.outer \in Nat /\ retry.MaxRetry > 0
    BY <1>1, SettingsAssumption DEF registryVars, TypeOK
  <1>3. /\ round' \in [attempt : Nat, err : BOOLEAN, backoff : BOOLEAN, outer : Nat]
        /\ round'.outer = round.outer + 1 /\ round'.attempt = 0 /\ ~round'.backoff
    <2>1. round' = [attempt |-> 0, err |-> FALSE, backoff |-> FALSE, outer |-> round.outer + 1]
      BY <1>1 DEF NoRound
    <2>2. QED
      BY <1>2, <2>1
  <1>4. RoundInv' /\ WaitsCapped'
    BY <1>1, <1>2, <1>3 DEF RoundInv, WaitsCapped
  <1>5. n \in Nat /\ n <= sent + 1
    BY CountedBound DEF TypeOK
  <1>6. Current' \in Int /\ n - sent <= Current' - Current
    <2> DEFINE m == retry.MaxRetry + 1
               o == round.outer
               a == round.attempt + (IF round.backoff THEN 1 ELSE 0)
    <2>1. m \in Nat /\ o \in Nat /\ a \in Nat /\ a <= m /\ (Sending => a + 1 <= m)
      BY <1>2 DEF TypeOK, RoundInv, Sending
    <2>2. o * m \in Nat /\ (o + 1) * m = o * m + m
      <3> HIDE DEF m, o
      <3>1. QED
        BY <2>1, ProductNat
    <2>3. Current = o * m + a
      BY <2>1, <2>2 DEF Current, TypeOK
    <2>4. Current' = (o + 1) * m
      <3>1. Current' = (o + 1) * m + 0 + 0
        BY <1>2, <1>3 DEF Current
      <3>2. QED
        BY <2>1, <2>2, <3>1
    <2> HIDE DEF m, o, a
    <2>5. QED
      BY <1>5, <2>1, <2>2, <2>3, <2>4 DEF TypeOK
  <1>7. QED
    BY <1>1, <1>3, <1>4, <1>5, <1>6, SameExchange

LEMMA RequestFailsStep ==
  ASSUME IInv, call # NoCall, NEW n, n = sent \/ (Sending /\ n = Counted), RequestFails(n)
  PROVE  IInv'
  BY MethodFailsStep, LibraryRetriesStep DEF RequestFails

-------------------------------------------------------------------------------
(* The actions *)

LEMMA NetworkErrorStep ==
  ASSUME IInv, NetworkError PROVE IInv'
  <1> USE DEF IInv
  <1>1. /\ call # NoCall /\ Sending /\ sent' = Counted /\ waited' = waited
        /\ round' = [round EXCEPT !.err = TRUE, !.attempt = round.attempt + 1]
        /\ UNCHANGED <<registryVars, call, stageVars, given>>
    BY DEF NetworkError, Sending
  <1>2. /\ retry' = retry /\ retry.MaxRetry \in Int /\ retry.MaxRetry > 0
        /\ round.attempt <= retry.MaxRetry /\ ~round.backoff
        /\ round.attempt \in Nat /\ round.outer \in Nat
    BY <1>1, SettingsAssumption DEF Sending, registryVars, TypeOK
  <1>3. /\ round' \in [attempt : Nat, err : BOOLEAN, backoff : BOOLEAN, outer : Nat]
        /\ round'.outer = round.outer /\ round'.attempt = round.attempt + 1 /\ ~round'.backoff
    <2>1. /\ round \in [attempt : Nat, err : BOOLEAN, backoff : BOOLEAN, outer : Nat]
          /\ round.attempt + 1 \in Nat
      BY <1>2 DEF TypeOK
    <2>2. QED
      BY <1>1, <1>2, <2>1
  <1>4. RoundInv' /\ WaitsCapped'
    BY <1>2, <1>3 DEF RoundInv, WaitsCapped
  <1>5. Counted \in Nat /\ Counted <= sent + 1 /\ sent \in Nat /\ waited' \in Int
    BY <1>1, CountedBound DEF TypeOK
  <1>6. Current' \in Int /\ sent' - sent <= Current' - Current
    <2> DEFINE m == round.outer * (retry.MaxRetry + 1)
    <2>1. m \in Nat
      BY <1>2, ProductNat
    <2>2. Current = m + round.attempt + 0 /\ Current' = m + (round.attempt + 1) + 0
      BY <1>2, <1>3 DEF Current
    <2> HIDE DEF m
    <2>3. QED
      BY <1>1, <1>2, <1>5, <2>1, <2>2
  <1>7. QED
    BY <1>1, <1>3, <1>4, <1>5, <1>6, SameExchange

LEMMA UnavailableStep ==
  ASSUME IInv, NEW r \in Randoms, NEW w \in calculateBackoff(round.attempt, r), Unavailable(w)
  PROVE  IInv'
  <1> USE DEF IInv
  <1>1. /\ call # NoCall /\ Sending /\ sent' = Counted /\ waited' = w
        /\ round' = [round EXCEPT !.err = FALSE, !.backoff = TRUE]
        /\ UNCHANGED <<registryVars, call, stageVars, given>>
    BY DEF Unavailable, Sending
  <1>2. /\ retry' = retry /\ retry.MaxRetry \in Int /\ retry.MaxRetry > 0
        /\ round.attempt <= retry.MaxRetry /\ ~round.backoff
        /\ round.attempt \in Nat /\ round.outer \in Nat
    BY <1>1, SettingsAssumption DEF Sending, registryVars, TypeOK
  <1>3. /\ round' \in [attempt : Nat, err : BOOLEAN, backoff : BOOLEAN, outer : Nat]
        /\ round'.outer = round.outer /\ round'.attempt = round.attempt /\ round'.backoff = TRUE
    BY <1>1 DEF TypeOK
  <1>4. w \in Int /\ IF round.attempt = 0 THEN w = retry.Duration ELSE w <= retry.MaxWait
    BY <1>2, BackoffCapped DEF TypeOK
  <1>5. RoundInv' /\ WaitsCapped'
    BY <1>1, <1>2, <1>3, <1>4 DEF RoundInv, WaitsCapped
  <1>6. Counted \in Nat /\ Counted <= sent + 1 /\ sent \in Nat
    BY CountedBound DEF TypeOK
  <1>7. Current' \in Int /\ sent' - sent <= Current' - Current
    <2> DEFINE m == round.outer * (retry.MaxRetry + 1)
    <2>1. m \in Nat
      BY <1>2, ProductNat
    <2>2. Current = m + round.attempt + 0 /\ Current' = m + round.attempt + 1
      BY <1>2, <1>3 DEF Current
    <2> HIDE DEF m
    <2>3. QED
      BY <1>1, <1>2, <1>6, <2>1, <2>2
  <1>8. QED
    BY <1>1, <1>3, <1>4, <1>5, <1>6, <1>7, SameExchange

\* Only a call waits.
LEMMA BackoffOfCall ==
  ASSUME IInv, round.backoff
  PROVE  call # NoCall /\ retry.MaxRetry > 0 /\ round.attempt <= retry.MaxRetry
  <1>1. round # NoRound
    BY FreshRound
  <1>2. QED
    BY <1>1 DEF IInv, ControlInv, RoundInv

LEMMA BackoffOverStep ==
  ASSUME IInv, BackoffOver PROVE IInv'
  <1> USE DEF IInv
  <1>1. /\ round.backoff /\ sent' = sent /\ waited' = 0
        /\ round' = [round EXCEPT !.backoff = FALSE, !.attempt = round.attempt + 1]
        /\ UNCHANGED <<registryVars, call, stageVars, given>>
    BY DEF BackoffOver
  <1>2. /\ call # NoCall /\ retry' = retry /\ retry.MaxRetry \in Int /\ retry.MaxRetry > 0
        /\ round.attempt <= retry.MaxRetry /\ round.attempt \in Nat /\ round.outer \in Nat
    BY <1>1, BackoffOfCall, SettingsAssumption DEF registryVars, TypeOK
  <1>3. /\ round' \in [attempt : Nat, err : BOOLEAN, backoff : BOOLEAN, outer : Nat]
        /\ round'.outer = round.outer /\ round'.attempt = round.attempt + 1 /\ ~round'.backoff
    <2>1. /\ round \in [attempt : Nat, err : BOOLEAN, backoff : BOOLEAN, outer : Nat]
          /\ round.attempt + 1 \in Nat
      BY <1>2 DEF TypeOK
    <2>2. QED
      BY <1>1, <1>2, <2>1
  <1>4. RoundInv' /\ WaitsCapped'
    BY <1>2, <1>3 DEF RoundInv, WaitsCapped
  <1>5. Current' \in Int /\ sent' - sent <= Current' - Current /\ sent' \in Nat
    <2> DEFINE m == round.outer * (retry.MaxRetry + 1)
    <2>1. m \in Nat /\ sent \in Nat
      BY <1>2, ProductNat DEF TypeOK
    <2>2. Current = m + round.attempt + 1 /\ Current' = m + (round.attempt + 1) + 0
      BY <1>1, <1>2, <1>3 DEF Current
    <2> HIDE DEF m
    <2>3. QED
      BY <1>1, <1>2, <2>1, <2>2
  <1>6. QED
    BY <1>1, <1>2, <1>3, <1>4, <1>5, SameExchange

LEMMA FailureStep ==
  ASSUME IInv, Cancelled \/ Exhausted \/ Refused \/ NoSteps PROVE IInv'
  <1>1. CASE Cancelled
    BY <1>1, BackoffOfCall, RequestFailsStep DEF Cancelled
  <1>2. CASE Exhausted
    BY <1>2, RequestFailsStep DEF Exhausted
  <1>3. CASE Refused
    BY <1>3, RequestFailsStep DEF Refused, Sending
  <1>4. CASE NoSteps
    BY <1>4, MethodFailsStep DEF NoSteps
  <1>5. QED
    BY <1>1, <1>2, <1>3, <1>4

LEMMA ExchangedStep ==
  ASSUME IInv, Exchanged PROVE IInv'
  <1> USE DEF IInv
  <1>1. /\ call # NoCall /\ Sending /\ left > 1 /\ left' = left - 1 /\ round' = NoRound
        /\ sent' = Counted
        /\ UNCHANGED <<registryVars, call, step, resolved, served, position, files, steps,
                       waited, given>>
    BY DEF Exchanged, Sending
  <1>2. left \in Nat /\ Counted \in Nat
    BY CountedBound DEF TypeOK
  <1>3. TypeOK'
    BY <1>1, <1>2, FreshRound DEF TypeOK, registryVars
  <1>4. ControlInv'
    <2>1. step = "read" => ReadInv'
      BY <1>1, <1>2, Lengths DEF ControlInv, ReadInv, KeptUpTo
    <2>2. QED
      BY <1>1, <1>2, <2>1 DEF ControlInv
  <1>5. Remaining' \in Int /\ Remaining' <= Remaining - 1
    <2>1. Rest' = Rest
      BY <1>1 DEF Rest
    <2>2. /\ Rest \in Nat /\ Reads(call) \in Nat /\ step # "idle"
          /\ MethodLength(call.fn) \in Nat /\ FetchLength(call.fn) \in Nat
      BY <1>1, CallNumbers, Lengths
    <2>3. CASE step = "resolve"
      BY <1>1, <1>2, <2>1, <2>2, <2>3 DEF Remaining
    <2>4. CASE step = "fetch"
      BY <1>1, <1>2, <2>1, <2>2, <2>4 DEF Remaining
    <2>5. CASE step = "child"
      BY <1>1, <1>2, <2>1, <2>2, <2>5 DEF Remaining
    <2>6. CASE step = "read"
      <3>1. call.fn = "files" => Len(Store[served].layers) \in Nat /\ position \in Nat
        BY <2>6, StoreAssumption DEF ControlInv, ReadInv, TypeOK
      <3>2. QED
        BY <1>1, <1>2, <2>6, <3>1 DEF Remaining
    <2>7. QED
      BY <2>2, <2>3, <2>4, <2>5, <2>6 DEF TypeOK
  <1>6. QED
    BY <1>1, <1>3, <1>4, <1>5, NextExchange

LEMMA ResolveDigestStep ==
  ASSUME IInv, ResolveDigest PROVE IInv'
  <1> USE DEF IInv
  <1>1. /\ call # NoCall /\ Sending /\ step = "resolve" /\ left = 1
        /\ resolved' = tags[call.ref] /\ step' = "fetch" /\ left' = FetchLength(call.fn)
        /\ round' = NoRound /\ sent' = Counted
        /\ UNCHANGED <<registryVars, call, served, position, files, steps, waited, given>>
    BY DEF ResolveDigest, Completes, Sending
  <1>2. call.ref \in Tags /\ tags[call.ref] \in Digests
    BY <1>1 DEF ControlInv, TypeOK
  <1>3. /\ FetchLength(call.fn) \in Nat \ {0} /\ MethodLength(call.fn) \in Nat
        /\ Counted \in Nat
    BY CountedBound, Lengths
  <1>4. TypeOK'
    BY <1>1, <1>2, <1>3, FreshRound DEF TypeOK, registryVars
  <1>5. ControlInv'
    BY <1>1, <1>3 DEF ControlInv
  <1>6. Remaining' \in Int /\ Remaining' <= Remaining - 1
    <2>1. Rest' = Rest /\ Rest \in Nat /\ Reads(call) \in Nat
      BY <1>1, CallNumbers DEF Rest
    <2>2. /\ Remaining = 1 + MethodLength(call.fn) + Rest + Reads(call)
          /\ Remaining' = FetchLength(call.fn) + (MethodLength(call.fn) - FetchLength(call.fn))
                            + Rest + Reads(call)
      BY <1>1, <2>1 DEF Remaining
    <2>3. QED
      BY <1>3, <2>1, <2>2
  <1>7. QED
    BY <1>1, <1>4, <1>5, <1>6, NextExchange

\* What is fetched by digest is what was asked for, by tag anything.
LEMMA FetchesDigest ==
  ASSUME TypeOK, ControlInv, call # NoCall
  PROVE  Fetches \in Digests /\ (call.ref \in Digests => Fetches = call.ref)
  BY RegistryAssumption DEF TypeOK, ControlInv, Fetches, Calls

LEMMA EmptyKept == ASSUME NEW s PROVE UNION {Kept(Store[s].layers[i]) : i \in 1 .. 0} = {}
  <1>1. 1 .. 0 = {}
    OBVIOUS
  <1>2. QED
    BY <1>1

\* The reading of a body begins.
LEMMA BeginRead ==
  ASSUME IInv, call # NoCall, Sending, step \in {"fetch", "child"}, left = 1,
         call.fn \in {"blob", "config", "files"},
         NEW d \in Digests, d = Target(call.fn, call.ref),
         NEW l \in Nat \ {0}, IF call.fn = "files" THEN l = 1 + ConfigReads ELSE l = 1,
         call.fn = "files" => Len(Store[d].layers) > 0,
         Continue("read", l, d)
  PROVE  IInv'
  <1> USE DEF IInv
  <1>1. /\ step' = "read" /\ left' = l /\ served' = d /\ round' = NoRound /\ sent' = Counted
        /\ UNCHANGED <<registryVars, call, resolved, position, files, steps, waited, given>>
    BY DEF Continue
  <1>2. Counted \in Nat /\ position = 0 /\ files = {} /\ ConfigReads \in {0, 1}
    BY CountedBound, Lengths DEF ControlInv
  <1>3. TypeOK'
    BY <1>1, <1>2, FreshRound DEF TypeOK, registryVars
  <1>4. call.ref \in Digests
    BY DEF ControlInv, NeedsDigest, Fetchers, TypeOK, Calls
  <1>5. ControlInv'
    <2>1. KeptUpTo(0)' = {}
      BY <1>1, EmptyKept DEF KeptUpTo
    <2>2. ReadInv'
      BY <1>1, <1>2, <1>4, <2>1 DEF ReadInv
    <2>3. QED
      BY <1>1, <2>2 DEF ControlInv
  <1>6. Remaining' \in Int /\ Remaining' <= Remaining - 1
    <2>1. Rest \in Nat /\ Reads(call) \in Nat /\ Remaining \in Nat
          /\ MethodLength(call.fn) - FetchLength(call.fn) \in Nat
      BY CallNumbers, Lengths
    <2>2. 1 + Reads(call) <= Remaining
      <3>1. CASE step = "fetch"
        BY <2>1, <3>1 DEF Remaining
      <3>2. CASE step = "child"
        BY <2>1, <3>2 DEF Remaining
      <3>3. QED
        BY <3>1, <3>2
    <2>3. Remaining' = Reads(call)
      <3>1. CASE call.fn = "files"
        <4>1. Len(Store[d].layers) \in Nat /\ d # NoDigest
          BY StoreAssumption, RegistryAssumption
        <4>2. Reads(call) = ConfigReads + Len(Store[d].layers)
          BY <3>1, <4>1 DEF Reads
        <4>3. Remaining' = l + Len(Store[d].layers) - 0 - 1
          BY <1>1, <1>2, <3>1 DEF Remaining
        <4>4. QED
          BY <1>2, <3>1, <4>1, <4>2, <4>3
      <3>2. CASE call.fn # "files"
        BY <1>1, <3>2 DEF Remaining, Reads
      <3>3. QED
        BY <3>1, <3>2
    <2>4. QED
      BY <2>1, <2>2, <2>3
  <1>7. QED
    BY <1>1, <1>3, <1>5, <1>6, NextExchange

\* The callers of client.Image, given the image (oci.go, 443-476; config.go, 43-93;
\* files.go, 57-69).
LEMMA UseImageStep ==
  ASSUME IInv, call # NoCall, Sending, step \in {"fetch", "child"}, left = 1,
         call.fn \in ImageCalls, NEW d \in Digests,
         call.ref \in Digests => d = Target(call.fn, call.ref),
         UseImage(d)
  PROVE  IInv'
  <1>1. CASE call.fn = "manifest"
    <2>1. Answer(Defined(d, ManifestTerm(Store[d])))
      BY <1>1 DEF UseImage
    <2>2. SoundAnswer(call, Defined(d, ManifestTerm(Store[d])))
      BY <1>1 DEF SoundAnswer, Defined, ManifestTerm, ManifestDecl
    <2>3. QED
      BY <2>1, <2>2, AnswerStep
  <1>2. CASE call.fn = "parent"
    <2>1. Answer(Defined(d, {})) \/ Answer(Undefined)
      BY <1>2 DEF UseImage
    <2>2. SoundAnswer(call, Defined(d, {}))
      BY <1>2 DEF SoundAnswer, Defined
    <2>3. QED
      BY <2>1, <2>2, AnswerStep, UndefinedSound
  <1>3. CASE call.fn \in {"config", "files"}
    <2>1. call.ref \in Digests
      BY <1>3 DEF IInv, ControlInv, NeedsDigest, Fetchers, TypeOK, Calls
    <2>2. CASE call.fn = "config"
      <3>1. Continue("read", 1, d)
        BY <2>2 DEF UseImage
      <3>2. QED
        BY <2>1, <2>2, <3>1, BeginRead
    <2>3. CASE call.fn = "files" /\ (Paths = {} \/ Len(Store[d].layers) = 0)
      <3>1. Answer(Defined(d, {}))
        BY <2>3 DEF UseImage
      <3>2. DOMAIN Store[d].layers = 1 .. Len(Store[d].layers)
        BY StoreAssumption
      <3>3. {f \in UNION {Store[d].layers[i] : i \in DOMAIN Store[d].layers} :
               f.dir \in Paths /\ f.supported /\ f.structured} = {}
        <4>1. CASE Paths = {}
          BY <4>1
        <4>2. CASE Len(Store[d].layers) = 0
          <5>1. DOMAIN Store[d].layers = {}
            BY <3>2, <4>2
          <5>2. QED
            BY <5>1
        <4>3. QED
          BY <2>3, <4>1, <4>2
      <3>4. SoundAnswer(call, Defined(d, {}))
        BY <2>1, <2>3, <3>3 DEF SoundAnswer, Defined
      <3>5. QED
        BY <3>1, <3>4, AnswerStep
    <2>4. CASE call.fn = "files" /\ ~(Paths = {} \/ Len(Store[d].layers) = 0)
      <3>1. Continue("read", 1 + ConfigReads, d)
        BY <2>4 DEF UseImage
      <3>2. Len(Store[d].layers) > 0 /\ 1 + ConfigReads \in Nat \ {0}
        BY <2>4, StoreAssumption, Lengths
      <3>3. QED
        BY <2>1, <2>4, <3>1, <3>2, BeginRead
    <2>5. QED
      BY <1>3, <2>2, <2>3, <2>4
  <1>4. QED
    BY <1>1, <1>2, <1>3 DEF ImageCalls, Fetchers

LEMMA FetchStep ==
  ASSUME IInv, NotThere \/ FetchLayer \/ FetchHead \/ FetchIndex \/ FetchImage
  PROVE  IInv'
  <1>1. /\ call # NoCall /\ Sending /\ step = "fetch" /\ left = 1
        /\ Fetches \in Digests /\ (call.ref \in Digests => Fetches = call.ref)
    BY FetchesDigest DEF IInv, NotThere, FetchLayer, FetchHead, FetchIndex, FetchImage,
                         Completes, Sending
  <1>2. CASE NotThere
    BY <1>1, <1>2, MethodFailsStep DEF NotThere
  <1>3. CASE FetchLayer
    <2>1. call.fn = "blob" /\ Continue("read", 1, call.ref)
      BY <1>3 DEF FetchLayer
    <2>2. call.ref \in Digests /\ call.ref = Target(call.fn, call.ref)
      BY <1>1, <2>1 DEF IInv, ControlInv, NeedsDigest, TypeOK, Calls, Target, ImageCalls, Fetchers
    <2>3. QED
      BY <1>1, <2>1, <2>2, BeginRead
  <1>4. CASE FetchHead
    <2>1. call.fn = "descriptor" /\ Answer(Defined(Fetches, newDescriptorTerm(Store[Fetches])))
      BY <1>4 DEF FetchHead
    <2>2. SoundAnswer(call, Defined(Fetches, newDescriptorTerm(Store[Fetches])))
      BY <1>1, <2>1 DEF SoundAnswer, Defined, Target, ImageCalls, Fetchers,
                        newDescriptorTerm, DescriptorDecl
    <2>3. QED
      BY <1>1, <2>1, <2>2, AnswerStep
  <1>5. CASE FetchIndex
    <2>1. call.fn = "index" /\ Answer(Defined(Fetches, IndexTerm(Store[Fetches])))
      BY <1>5 DEF FetchIndex
    <2>2. SoundAnswer(call, Defined(Fetches, IndexTerm(Store[Fetches])))
      BY <1>1, <2>1 DEF SoundAnswer, Defined, Target, ImageCalls, Fetchers,
                        IndexTerm, IndexDecl
    <2>3. QED
      BY <1>1, <2>1, <2>2, AnswerStep
  <1>6. CASE FetchImage
    <2>1. call.fn \in ImageCalls /\ Store[Fetches].kind = "image" /\ UseImage(Fetches)
      BY <1>6 DEF FetchImage
    <2>2. call.ref \in Digests => Fetches = Target(call.fn, call.ref)
      BY <1>1, <2>1 DEF Target
    <2>3. QED
      BY <1>1, <2>1, <2>2, UseImageStep
  <1>7. QED
    BY <1>2, <1>3, <1>4, <1>5, <1>6

\* remote.Image follows an index to the image of its platform.
LEMMA ImageOfIndexStep ==
  ASSUME IInv, ImageOfIndex PROVE IInv'
  <1> USE DEF IInv
  <1>1. /\ call # NoCall /\ Sending /\ step = "fetch" /\ left = 1 /\ call.fn \in ImageCalls
        /\ Store[Fetches].kind = "index" /\ Store[Fetches].child # NoDigest
        /\ step' = "child" /\ left' = 1 /\ served' = Store[Fetches].child
        /\ round' = NoRound /\ sent' = Counted
        /\ UNCHANGED <<registryVars, call, resolved, position, files, steps, waited, given>>
    BY DEF ImageOfIndex, Continue, Completes, Sending
  <1>2. Fetches \in Digests /\ (call.ref \in Digests => Fetches = call.ref)
    BY <1>1, FetchesDigest
  <1>3. Store[Fetches].child \in Digests
    BY <1>1, <1>2, StoreAssumption
  <1>4. call.ref \in Digests => Store[Fetches].child = Target(call.fn, call.ref)
    BY <1>1, <1>2 DEF Target
  <1>5. Counted \in Nat
    BY CountedBound
  <1>6. TypeOK'
    BY <1>1, <1>3, <1>5, FreshRound DEF TypeOK, registryVars
  <1>7. ControlInv'
    BY <1>1, <1>3, <1>4 DEF ControlInv
  <1>8. Remaining' \in Int /\ Remaining' <= Remaining - 1
    <2>1. Rest' = Rest /\ Rest \in Nat /\ Reads(call) \in Nat
      BY <1>1, CallNumbers DEF Rest
    <2>2. MethodLength(call.fn) - FetchLength(call.fn) = 1
      BY <1>1, Lengths
    <2>3. Remaining = 1 + 1 + Rest + Reads(call) /\ Remaining' = 1 + Rest + Reads(call)
      BY <1>1, <2>1, <2>2 DEF Remaining
    <2>4. QED
      BY <2>1, <2>3
  <1>9. QED
    BY <1>1, <1>6, <1>7, <1>8, NextExchange

LEMMA ChildStep ==
  ASSUME IInv, Child PROVE IInv'
  <1>1. call # NoCall /\ Sending /\ step = "child" /\ left = 1 /\ UseImage(served)
    BY DEF Child, Completes, Sending
  <1>2. /\ call.fn \in ImageCalls /\ served \in Digests
        /\ call.ref \in Digests => served = Target(call.fn, call.ref)
    BY <1>1 DEF IInv, ControlInv
  <1>3. QED
    BY <1>1, <1>2, UseImageStep

LEMMA KeptSucc ==
  ASSUME NEW n \in Nat
  PROVE  KeptUpTo(n + 1) = KeptUpTo(n) \cup Kept(Store[served].layers[n + 1])
  <1>1. 1 .. n + 1 = (1 .. n) \cup {n + 1}
    OBVIOUS
  <1>2. QED
    BY <1>1 DEF KeptUpTo

\* One more layer of the archive is read (files.go, 75-111).
LEMMA KeepLayerStep ==
  ASSUME IInv, call # NoCall, step = "read", left = 1, call.fn = "files", KeepLayer,
         \/ call' # NoCall => sent' = sent
         \/ Sending /\ (call' # NoCall => sent' = Counted)
  PROVE  IInv'
  <1> USE DEF IInv
  <1> DEFINE kept == files \cup Kept(Store[served].layers[position + 1])
             n == Len(Store[served].layers)
  <1>1. /\ served \in Digests /\ call.ref \in Digests /\ served = Target("files", call.ref)
        /\ n \in Nat /\ DOMAIN Store[served].layers = 1 .. n
        /\ position \in Nat /\ position < n /\ files = KeptUpTo(position)
    BY StoreAssumption DEF ControlInv, ReadInv, TypeOK
  <1>2. kept = KeptUpTo(position + 1)
    BY <1>1, KeptSucc
  <1>3. CASE position + 1 = n
    <2>1. Answer(Defined(served, kept))
      BY <1>3 DEF KeepLayer
    <2>2. kept = UNION {Kept(Store[served].layers[i]) : i \in 1 .. n}
      BY <1>2, <1>3 DEF KeptUpTo
    <2>3. kept = {f \in UNION {Store[served].layers[i] : i \in DOMAIN Store[served].layers} :
                    f.dir \in Paths /\ f.supported /\ f.structured}
      <3> HIDE DEF kept, n
      <3>1. QED
        BY <1>1, <2>2 DEF Kept, Match
    <2>4. SoundAnswer(call, Defined(served, kept))
      <3> HIDE DEF kept
      <3>1. QED
        BY <1>1, <2>3 DEF SoundAnswer, Defined
    <2>5. QED
      BY <2>1, <2>4, AnswerStep
  <1>4. CASE position + 1 # n
    <2>1. /\ position' = position + 1 /\ files' = kept /\ round' = NoRound
          /\ UNCHANGED <<registryVars, call, step, left, resolved, served, steps, waited, given>>
          /\ sent' = sent \/ (Sending /\ sent' = Counted)
      BY <1>4 DEF KeepLayer
    <2>2. TypeOK'
      BY <1>1, <2>1, CountedBound, FreshRound DEF TypeOK, registryVars
    <2>3. ControlInv'
      <3>1. ReadInv'
        <4>1. files' = KeptUpTo(position)'
          BY <1>2, <2>1 DEF KeptUpTo
        <4>2. position' < Len(Store[served'].layers) /\ left' <= 1 + ConfigReads
          BY <1>1, <1>4, <2>1, Lengths
        <4>3. QED
          BY <1>1, <2>1, <4>1, <4>2 DEF ReadInv, KeptUpTo
      <3>2. QED
        BY <2>1, <3>1 DEF ControlInv
    <2>4. Remaining' \in Int /\ Remaining' <= Remaining - 1
      BY <1>1, <2>1 DEF Remaining
    <2>5. QED
      BY <2>1, <2>2, <2>3, <2>4, NextExchange
  <1>5. QED
    BY <1>3, <1>4

LEMMA ReadStep ==
  ASSUME IInv, ReadConfig \/ (\E cut \in BOOLEAN : ReadBlob(cut)) \/ ReadLayer \/ LayerCached
                 \/ BodyFails
  PROVE  IInv'
  <1>1. CASE ReadConfig
    <2>1. call # NoCall /\ step = "read" /\ call.fn = "config" /\ Answer(Defined(served, {}))
      BY <1>1 DEF ReadConfig, Completes, Sending
    <2>2. SoundAnswer(call, Defined(served, {}))
      BY <2>1 DEF IInv, ControlInv, ReadInv, SoundAnswer, Defined
    <2>3. QED
      BY <2>1, <2>2, AnswerStep
  <1>2. ASSUME NEW cut \in BOOLEAN, ReadBlob(cut) PROVE IInv'
    <2>1. /\ call # NoCall /\ call.fn = "blob"
          /\ \/ Answer(Undefined)
             \/ Sum(served, cut) = call.ref /\ Answer(Defined(Sum(served, cut), {}))
      BY <1>2 DEF ReadBlob, Completes, Sending
    <2>2. SoundAnswer(call, Defined(call.ref, {}))
      BY <2>1 DEF SoundAnswer, Defined, Target, ImageCalls, Fetchers
    <2>3. QED
      BY <2>1, <2>2, AnswerStep, UndefinedSound
  <1>3. CASE ReadLayer
    BY <1>3, KeepLayerStep DEF ReadLayer, Completes, Sending
  <1>4. CASE LayerCached
    <2>1. call # NoCall
      BY <1>4 DEF LayerCached, IInv, ControlInv
    <2>2. QED
      BY <1>4, <2>1, KeepLayerStep DEF LayerCached
  <1>5. CASE BodyFails
    BY <1>5, AnswerStep, UndefinedSound DEF BodyFails, Completes, Sending
  <1>6. QED
    BY <1>1, <1>2, <1>3, <1>4, <1>5

LEMMA BeginStep ==
  ASSUME IInv, NEW c \in Policy, Begin(c) PROVE IInv'
  <1> USE DEF IInv
  <1>1. /\ c \in Calls /\ c # NoCall /\ call = NoCall /\ step = "idle" /\ round = NoRound
        /\ sent = 0 /\ waited = 0 /\ position = 0 /\ files = {}
    BY NoCallFresh, RegistryAssumption DEF Begin, ControlInv
  <1>2. /\ call' = c /\ (c.ref \in Tags => c.fn \notin NeedsDigest)
        /\ IF c.ref \in Tags THEN step' = "resolve" /\ left' = Preamble + 1
           ELSE step' = "fetch" /\ left' = FetchLength(c.fn)
        /\ steps' = Tries(c.fn)
        /\ UNCHANGED <<registryVars, resolved, served, position, files, round, sent, waited, given>>
    BY DEF Begin, netVars
  <1>3. /\ left' \in Nat \ {0} /\ Tries(c.fn) \in 1 .. OnErrorSteps
        /\ step' \in {"resolve", "fetch"}
    BY <1>2, Lengths, RegistryAssumption
  <1>4. TypeOK'
    BY <1>1, <1>2, <1>3, RegistryAssumption DEF TypeOK, registryVars
  <1>5. ControlInv'
    BY <1>1, <1>2, <1>3 DEF ControlInv
  <1>6. RoundInv' /\ WaitsCapped'
    BY <1>1, <1>2, FreshRound DEF RoundInv, WaitsCapped, registryVars
  <1>7. BudgetInv'
    <2> DEFINE ml == MethodLength(c.fn)
               fl == FetchLength(c.fn)
               rd == Reads(c)
               ts == Tries(c.fn)
               tg == IF c.ref \in Tags THEN Preamble + 1 ELSE 0
    <2>1. c.fn \in NeedsDigest => c.ref \in Digests
      BY <1>1, <1>2 DEF Calls
    <2>2. rd \in Nat /\ ml \in Nat /\ fl \in Nat /\ ts - 1 \in Nat
      BY <1>1, <1>3, <2>1, ReadsNat, Lengths
    <2>3. MaxExchanges(c) = tg + ts * ml + rd
      BY DEF MaxExchanges
    <2>4. Rest' = (ts - 1) * ml
      BY <1>2 DEF Rest
    <2>5. ts * ml = (ts - 1) * ml + ml /\ (ts - 1) * ml \in Nat
      <3> HIDE DEF ts, ml
      <3>1. ts = (ts - 1) + 1
        BY <1>3 DEF ts
      <3>2. QED
        BY <2>2, <3>1, ProductNat, ProductSucc
    <2>6. Remaining' = IF c.ref \in Tags THEN (Preamble + 1) + ml + Rest' + rd
                       ELSE fl + (ml - fl) + Rest' + rd
      BY <1>2 DEF Remaining
    <2>7. Remaining' = MaxExchanges(c)
      <3> DEFINE p == (ts - 1) * ml
      <3>1. p \in Nat /\ Rest' = p /\ MaxExchanges(c) = tg + (p + ml) + rd
        BY <2>3, <2>4, <2>5
      <3> HIDE DEF p, ml, fl, rd, ts
      <3>2. QED
        BY <2>2, <2>6, <3>1, RegistryAssumption
    <2>8. /\ Current' = 0 /\ PerExchange' \in Int /\ MaxExchanges(c) \in Int
      <3>1. retry'.MaxRetry \in Int
        BY <1>4, SettingsAssumption DEF TypeOK
      <3>2. Current' = 0 * (retry'.MaxRetry + 1) + 0 + 0
        BY <1>1, <1>2, FreshRound DEF Current
      <3>3. PerExchange' \in Int
        BY <3>1 DEF PerExchange
      <3>4. MaxExchanges(c) \in Int
        <4> HIDE DEF ml, fl, rd, ts
        <4>1. QED
          BY <2>2, <2>3, <2>5, RegistryAssumption
      <3>5. QED
        BY <3>1, <3>2, <3>3, <3>4
    <2>9. (MaxExchanges(c) - MaxExchanges(c)) * PerExchange' = 0
      BY <2>8
    <2>10. QED
      BY <1>1, <1>2, <2>7, <2>8, <2>9 DEF BudgetInv
  <1>8. AnswersInv'
    BY <1>2, AnswersKept
  <1>9. QED
    BY <1>4, <1>5, <1>6, <1>7, <1>8

\* Steps outside a call: the tags move, the deadline passes, a reference is refused.
LEMMA OutsideStep ==
  ASSUME IInv,
         \/ \E t \in Tags, d \in Digests : Move(t, d)
         \/ Expire
         \/ \E c \in Policy : BadReference(c)
         \/ UNCHANGED vars
  PROVE  IInv'
  <1> USE DEF IInv
  <1>1. /\ UNCHANGED <<retry, call, step, left, resolved, served, position, files, steps>>
        /\ UNCHANGED <<round, sent, waited>>
    BY DEF Move, Expire, BadReference, vars, registryVars, stageVars, netVars
  <1>2. tags' \in [Tags -> Digests] /\ moves' \in 0 .. MaxMoves /\ expired' \in BOOLEAN
    <2>1. ASSUME NEW t \in Tags, NEW d \in Digests, Move(t, d)
          PROVE  tags' \in [Tags -> Digests] /\ moves' \in 0 .. MaxMoves /\ expired' \in BOOLEAN
      BY <2>1, RegistryAssumption DEF Move, TypeOK
    <2>2. CASE Expire
      BY <2>2 DEF Expire, TypeOK
    <2>3. CASE UNCHANGED registryVars
      BY <2>3 DEF registryVars, TypeOK
    <2>4. QED
      BY <2>1, <2>2, <2>3 DEF BadReference, vars
  <1>3. TypeOK'
    BY <1>1, <1>2 DEF TypeOK
  <1>4. ControlInv' /\ RoundInv' /\ WaitsCapped'
    BY <1>1 DEF ControlInv, ReadInv, KeptUpTo, RoundInv, WaitsCapped
  <1>5. BudgetInv'
    BY <1>1 DEF BudgetInv, Remaining, Rest, Current, PerExchange
  <1>6. AnswersInv'
    <2>1. ASSUME NEW c \in Policy, BadReference(c) PROVE AnswersInv'
      <3>1. given' = given \cup {[call |-> c, resolved |-> NoDigest, answer |-> Undefined]}
        BY <2>1 DEF BadReference
      <3>2. QED
        BY <3>1, UndefinedSound, AnswersGrow
    <2>2. CASE given' = given
      BY <2>2, AnswersKept
    <2>3. QED
      BY <2>1, <2>2 DEF Move, Expire, vars
  <1>7. QED
    BY <1>3, <1>4, <1>5, <1>6

-------------------------------------------------------------------------------
(* Theorems *)

LEMMA InitInv == ASSUME Init PROVE IInv
  <1>1. TypeOK
    <2>1. tags \in [Tags -> Digests]
      BY DEF Init
    <2>2. /\ NoDigest \in Digests \cup {NoDigest} /\ 0 \in 0 .. OnErrorSteps
          /\ 0 \in 0 .. MaxMoves
      BY RegistryAssumption
    <2>3. /\ retry \in Settings /\ moves = 0 /\ expired = FALSE /\ call = NoCall
          /\ step = "idle" /\ left = 0 /\ resolved = NoDigest /\ served = NoDigest
          /\ position = 0 /\ round = NoRound /\ steps = 0 /\ sent = 0 /\ waited = 0
      BY DEF Init
    <2>4. /\ call \in Calls \cup {NoCall}
          /\ step \in {"idle", "resolve", "fetch", "child", "read"}
          /\ left \in Nat /\ position \in Nat /\ sent \in Nat /\ waited \in Int
      BY <2>3
    <2>5. round \in [attempt : Nat, err : BOOLEAN, backoff : BOOLEAN, outer : Nat]
      BY <2>3, FreshRound
    <2>6. /\ {resolved, served} \subseteq Digests \cup {NoDigest}
          /\ steps \in 0 .. OnErrorSteps /\ moves \in 0 .. MaxMoves
      BY <2>2, <2>3
    <2>7. expired \in BOOLEAN
      BY <2>3, Zenon
    <2>8. QED
      BY <2>1, <2>3, <2>4, <2>5, <2>6, <2>7 DEF TypeOK
  <1>2. ControlInv /\ BudgetInv
    BY DEF Init, ControlInv, BudgetInv
  <1>3. RoundInv /\ WaitsCapped
    <2>1. retry.MaxRetry \in Int /\ round = NoRound
      BY SettingsAssumption DEF Init
    <2>2. QED
      BY <2>1, FreshRound DEF RoundInv, WaitsCapped
  <1>4. AnswersInv
    BY DEF Init, AnswersInv, PinnedAnswers, WholeFiles, TermsDeclared
  <1>5. QED
    BY <1>1, <1>2, <1>3, <1>4 DEF IInv

LEMMA NextInv == ASSUME IInv, [Next]_vars PROVE IInv'
  <1>1. CASE Serve
    BY <1>1, NetworkErrorStep, UnavailableStep, BackoffOverStep, FailureStep, ExchangedStep,
       ResolveDigestStep, FetchStep, ImageOfIndexStep, ChildStep, ReadStep DEF Serve
  <1>2. CASE ~Serve
    BY <1>2, BeginStep, OutsideStep DEF Next, Over
  <1>3. QED
    BY <1>1, <1>2

(* References by tag *)

\* What TagAnswers asks of the answer to the call under way.
TagSound(a) ==
  moves = 0 /\ call.ref \in Tags /\ a.ok => a.digest = Target(call.fn, resolved)

LEMMA TagAnswer ==
  ASSUME IInv, TagInv, NEW a, Answer(a), TagSound(a) PROVE TagInv'
  <1>1. /\ call' = NoCall /\ moves' = moves
        /\ given' = given \cup {[call |-> call, resolved |-> resolved, answer |-> a]}
    BY DEF Answer, registryVars
  <1>2. \A g \in given' :
          g \in given \/ (g.call = call /\ g.resolved = resolved /\ g.answer = a)
    BY <1>1
  <1>3. TagAnswers'
    BY <1>1, <1>2 DEF TagInv, TagAnswers, TagSound
  <1>4. QED
    BY <1>1, <1>3 DEF TagInv

LEMMA TagUndefined ==
  ASSUME IInv, TagInv, Answer(Undefined) PROVE TagInv'
  BY TagAnswer DEF TagSound, Undefined

\* Nothing is said of the tag in the stages that resolve it or read a body.
LEMMA TagKept ==
  ASSUME TagInv, UNCHANGED <<moves, tags, call, resolved, given>>,
         \/ step' \notin {"fetch", "child"}
         \/ UNCHANGED <<step, served>>
         \/ step' = "fetch" /\ step \in {"fetch", "child"}
  PROVE  TagInv'
  BY DEF TagInv, TagAnswers

LEMMA TagMethodFails ==
  ASSUME IInv, TagInv, NEW n, MethodFails(n) PROVE TagInv'
  <1>1. CASE step \in {"fetch", "child"} /\ steps > 1
    BY <1>1, TagKept DEF MethodFails, registryVars
  <1>2. CASE ~(step \in {"fetch", "child"} /\ steps > 1)
    BY <1>2, TagUndefined DEF MethodFails
  <1>3. QED
    BY <1>1, <1>2

LEMMA TagUseImage ==
  ASSUME IInv, TagInv, NEW d, UseImage(d),
         moves = 0 /\ call.ref \in Tags => d = Target(call.fn, resolved)
  PROVE  TagInv'
  <1>1. \/ \E v : Answer(Defined(d, v))
        \/ Answer(Undefined)
        \/ \E l : Continue("read", l, d)
    BY DEF UseImage
  <1>2. ASSUME NEW v, Answer(Defined(d, v)) PROVE TagInv'
    BY <1>2, TagAnswer DEF TagSound, Defined
  <1>3. ASSUME NEW l, Continue("read", l, d) PROVE TagInv'
    BY <1>3, TagKept DEF Continue, registryVars
  <1>4. QED
    BY <1>1, <1>2, <1>3, TagUndefined

\* The stages that fetch: the content is that of the digest that the tag still has.
LEMMA TagFetch ==
  ASSUME IInv, TagInv,
         ResolveDigest \/ NotThere \/ FetchLayer \/ FetchHead \/ FetchIndex \/ FetchImage
           \/ ImageOfIndex \/ Child
  PROVE  TagInv'
  <1>1. call # NoCall
    BY DEF ResolveDigest, NotThere, FetchLayer, FetchHead, FetchIndex, FetchImage,
           ImageOfIndex, Child, Completes, Sending
  <1>2. step = "fetch" /\ moves = 0 /\ call.ref \in Tags => Fetches = resolved
    BY <1>1 DEF TagInv, Fetches
  <1>3. CASE ResolveDigest
    <2>1. /\ UNCHANGED <<moves, tags, call, given>> /\ step' = "fetch"
          /\ resolved' = tags[call.ref]
      BY <1>3 DEF ResolveDigest, registryVars
    <2>2. QED
      BY <2>1 DEF TagInv, TagAnswers
  <1>4. CASE NotThere
    BY <1>4, TagMethodFails DEF NotThere
  <1>5. CASE FetchLayer
    BY <1>5, TagKept DEF FetchLayer, Continue, registryVars
  <1>6. CASE FetchHead
    BY <1>2, <1>6, TagAnswer DEF FetchHead, Completes, TagSound, Defined, Target, ImageCalls,
                                 Fetchers
  <1>7. CASE FetchIndex
    BY <1>2, <1>7, TagAnswer DEF FetchIndex, Completes, TagSound, Defined, Target, ImageCalls,
                                 Fetchers
  <1>8. CASE FetchImage
    BY <1>2, <1>8, TagUseImage DEF FetchImage, Completes, Target
  <1>9. CASE ImageOfIndex
    <2>1. /\ UNCHANGED <<moves, tags, call, resolved, given>> /\ step = "fetch"
          /\ step' = "child" /\ served' = Store[Fetches].child
          /\ call.fn \in ImageCalls /\ Store[Fetches].kind = "index"
      BY <1>9 DEF ImageOfIndex, Completes, Continue, registryVars
    <2>2. QED
      BY <1>1, <1>2, <2>1 DEF TagInv, TagAnswers, Target
  <1>10. CASE Child
    BY <1>1, <1>10, TagUseImage DEF Child, Completes, TagInv
  <1>11. QED
    BY <1>3, <1>4, <1>5, <1>6, <1>7, <1>8, <1>9, <1>10

\* A body is only read of a reference by digest (NeedsDigest).
LEMMA TagRead ==
  ASSUME IInv, TagInv, ReadConfig \/ (\E cut \in BOOLEAN : ReadBlob(cut)) \/ ReadLayer
                         \/ LayerCached \/ BodyFails
  PROVE  TagInv'
  <1>1. step = "read" /\ call.ref \notin Tags
    BY RegistryAssumption DEF ReadConfig, ReadBlob, ReadLayer, LayerCached, BodyFails, Completes,
                              IInv, ControlInv, ReadInv
  <1>2. ASSUME NEW a, Answer(a) PROVE TagInv'
    BY <1>1, <1>2, TagAnswer DEF TagSound
  <1>3. ASSUME KeepLayer PROVE TagInv'
    <2>1. \/ \E a : Answer(a)
          \/ UNCHANGED <<moves, tags, call, resolved, given, step, served>>
      BY <1>3 DEF KeepLayer, registryVars
    <2>2. QED
      BY <1>2, <2>1, TagKept
  <1>4. QED
    BY <1>2, <1>3 DEF ReadConfig, ReadBlob, ReadLayer, LayerCached, BodyFails

LEMMA TagNext == ASSUME IInv, TagInv, [Next]_vars PROVE TagInv'
  <1>1. CASE NetworkError \/ BackoffOver \/ Exchanged \/ Expire \/ UNCHANGED vars
    BY <1>1, TagKept DEF NetworkError, BackoffOver, Exchanged, Expire, vars, registryVars,
                         stageVars
  <1>2. ASSUME NEW w, Unavailable(w) PROVE TagInv'
    BY <1>2, TagKept DEF Unavailable, registryVars, stageVars
  <1>3. ASSUME NEW n, LibraryRetries(n) PROVE TagInv'
    BY <1>3, TagKept DEF LibraryRetries, registryVars, stageVars
  <1>4. CASE Cancelled \/ Exhausted \/ Refused \/ NoSteps
    BY <1>3, <1>4, TagMethodFails DEF Cancelled, Exhausted, Refused, NoSteps, RequestFails
  <1>5. ASSUME NEW t \in Tags, NEW d \in Digests, Move(t, d) PROVE TagInv'
    <2>1. moves' # 0
      BY <1>5 DEF Move, IInv, TypeOK
    <2>2. QED
      BY <2>1 DEF TagInv, TagAnswers
  <1>6. ASSUME NEW c \in Policy, Begin(c) PROVE TagInv'
    <2>1. /\ UNCHANGED <<moves, given>> /\ call' = c
          /\ c.ref \in Tags => step' = "resolve"
      BY <1>6 DEF Begin, registryVars
    <2>2. QED
      BY <2>1 DEF TagInv, TagAnswers
  <1>7. ASSUME NEW c \in Policy, BadReference(c) PROVE TagInv'
    <2>1. /\ UNCHANGED <<moves, tags, call, step, resolved, served>>
          /\ given' = given \cup {[call |-> c, resolved |-> NoDigest, answer |-> Undefined]}
      BY <1>7 DEF BadReference, registryVars, stageVars
    <2>2. \A g \in given' : g \in given \/ ~g.answer.ok
      BY <2>1 DEF Undefined
    <2>3. QED
      BY <2>1, <2>2 DEF TagInv, TagAnswers
  <1>8. CASE Serve
    BY <1>1, <1>2, <1>4, <1>8, TagFetch, TagRead DEF Serve
  <1>9. QED
    BY <1>1, <1>5, <1>6, <1>7, <1>8 DEF Next, Over

\* The inductive invariant: in every reachable state the stage of the call, the body it
\* reads, the attempts and the requests sent fit together, and every answer given is sound.
THEOREM Invariance == Spec => []IInv
  <1>1. Init => IInv
    BY InitInv
  <1>2. IInv /\ [Next]_vars => IInv'
    BY NextInv
  <1>3. QED
    BY <1>1, <1>2, PTL DEF Spec

\* Whatever the registry holds and does, a builtin or fetcher answers with the content of
\* the digest asked for (of its platform's image, for an index), whole and as declared, or
\* with nothing; a tag stands for the digest it was resolved to unless a tag is pushed (ociBlob, ociImageManifest, ociImageFiles, FetchImageConfig).
THEOREM AnswersAreSound == Spec => []AnswersSound
  <1>1. Init => TagInv
    BY DEF Init, TagInv, TagAnswers
  <1>2. IInv /\ TagInv /\ [Next]_vars => TagInv'
    BY TagNext
  <1>3. IInv /\ TagInv => AnswersSound
    BY DEF IInv, AnswersInv, TagInv, AnswersSound
  <1>4. QED
    BY <1>1, <1>2, <1>3, Invariance, PTL DEF Spec

\* For every setting of the retry flags the three layers of retries over all HTTP exchanges
\* of a call stay within their product, and waits within the cap (retry.go, 101-192).
THEOREM RetriesAreBounded == Spec => []RetriesBounded
  <1>1. IInv => RetriesBounded
    <2>1. SUFFICES ASSUME IInv, call # NoCall PROVE sent <= MaxSent(call)
      BY DEF IInv, RetriesBounded, RequestsBounded
    <2> DEFINE k == PerExchange
               m == MaxExchanges(call) - Remaining
               n == MaxExchanges(call)
    <2>2. k \in Nat /\ m \in Int /\ n \in Int /\ m + 1 <= n
      BY <2>1, CallNumbers DEF IInv
    <2>3. m * k + k <= n * k /\ m * k \in Int /\ n * k \in Int
      <3> HIDE DEF k, m, n
      <3>1. QED
        BY <2>2, ProductMonotone
    <2>4. sent <= m * k + Current /\ sent \in Nat /\ Current \in Nat /\ Current <= k
      BY <2>1, CurrentBound DEF IInv, BudgetInv, TypeOK
    <2>5. MaxSent(call) = n * k
      BY DEF MaxSent
    <2>6. QED
      <3> DEFINE x == m * k
                 y == n * k
      <3>1. x \in Int /\ y \in Int /\ x + k <= y /\ sent <= x + Current
        BY <2>3, <2>4
      <3> HIDE DEF x, y, k
      <3>2. sent <= y
        BY <2>2, <2>4, <3>1
      <3>3. QED
        BY <2>5, <3>2 DEF y, k
  <1>2. QED
    BY <1>1, Invariance, PTL
=============================================================================
