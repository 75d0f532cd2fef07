----------------------------- MODULE AirlockProofs -----------------------------
(***************************************************************************)
(* Theorems about Airlock, for any ideas, any of them private, any machine *)
(* and any mishaps: nothing of a private idea is in a search, or in memory *)
(* that may be sent off the machine, or with a model the probe did not     *)
(* find; and a query carries no phrase of its sentence.                    *)
(*                                                                         *)
(* The first follows matter from where it is written to where it is read:  *)
(* a run that may leave has seen nothing private, so what it leaves        *)
(* behind, and a later run is shown, has nothing private in it either.     *)
(* The second is about Redaction alone: a rotation is taken only if it is  *)
(* clean, and what has none is cut down to a word, which is no phrase.     *)
(***************************************************************************)
EXTENDS Airlock, FiniteSetTheorems, SequenceTheorems, WellFoundedInduction, TLAPS

\* A run is held to its idea's policy, and one that may leave is clean.
RunIsClean(run) ==
    /\ run.policy = PolicyOf(run.idea)
    /\ run.policy = CloudAssisted => run.matter \cap Private = {}

\* A night at work has a run; one the probe let start, and nothing happened to,
\* has the model it was told of.
NightKnows ==
    /\ night = [at |-> night.at, profile |-> night.profile, source |-> night.source,
                rows |-> night.rows, memory |-> night.memory]
    /\ night.at \in {"search", "turns"} => runs # <<>>
    /\ night.at # "off" /\ night.source = "probe" /\ mishaps = 0 => HasLocalStack

AirlockInv ==
    /\ TypeOK
    /\ \A r \in DOMAIN runs : RunIsClean(runs[r])
    /\ NightKnows
    /\ SearchesArePublic

\* Of what has been written so far, a document that may leave has nothing of a
\* private idea in it.
LEMMA DocumentsAreClean ==
    ASSUME AirlockInv, NEW d \in CollectDocuments, d.policy # LocalOnly
    PROVE  d.matter \subseteq Ideas /\ d.matter \cap Private = {}
<1> USE DEF Document, PolicyOf, LocalOnly, CloudAssisted, BrainPolicy
<1>1. \A r \in DOMAIN runs : runs[r] \in RunMemory /\ RunIsClean(runs[r])
  BY DEF AirlockInv, TypeOK
<1>2. CASE \E i \in Ideas : d = Document(<<"entry", i>>, PolicyOf(i), {i})
  BY <1>2
<1>3. CASE \E r \in Said("decision") : d = Document(<<"decision", r>>, PolicyOf(runs[r].idea), runs[r].matter)
  BY <1>1, <1>3 DEF Said, RunIsClean, RunMemory
<1>4. CASE \E r \in Said("outcome") : d = Document(<<"outcome", r>>, PolicyOf(runs[r].idea), {runs[r].idea})
  BY <1>1, <1>4 DEF Said, RunIsClean, RunMemory
<1>5. CASE d = Document(<<"brain", 0>>, BrainPolicy, topics)
  BY <1>5
<1>6. CASE \E r \in DOMAIN runs : d = Document(<<"night", r>>, NightFilePolicy(r), runs[r].matter)
  BY <1>1, <1>6 DEF NightFilePolicy, Strictest, RunIsClean, RunMemory
<1> QED
  BY <1>2, <1>3, <1>4, <1>5, <1>6 DEF CollectDocuments

\* The memory assembled for an idea that may leave has nothing private in it.
LEMMA MemoryIsClean ==
    ASSUME AirlockInv, NEW i \in Ideas, NEW memory \in Retrieve(i)
    PROVE  LET matter == {i} \cup UNION {d.matter : d \in memory}
           IN  PolicyOf(i) = CloudAssisted => matter \subseteq Ideas /\ matter \cap Private = {}
<1> SUFFICES ASSUME PolicyOf(i) = CloudAssisted
             PROVE  /\ i \notin Private
                    /\ \A d \in memory : d.matter \subseteq Ideas /\ d.matter \cap Private = {}
  OBVIOUS
<1>1. i \notin Private
  BY DEF PolicyOf, LocalOnly, CloudAssisted
<1>2. \A d \in memory : d \in CollectDocuments /\ d.policy # LocalOnly
  BY DEF Retrieve, AssembleContext, Eligible, Index, MayLeave, LocalOnly, CloudAssisted
<1> QED
  BY <1>1, <1>2, DocumentsAreClean

\* What any run is shown is matter of ideas.
LEMMA MemoryIsOfIdeas ==
    ASSUME AirlockInv, NEW i \in Ideas, NEW memory \in Retrieve(i)
    PROVE  {i} \cup UNION {d.matter : d \in memory} \subseteq Ideas
<1>1. \A r \in DOMAIN runs : runs[r].matter \subseteq Ideas /\ runs[r].idea \in Ideas
  <2>1. \A r \in DOMAIN runs : runs[r] \in RunMemory
    BY DEF AirlockInv, TypeOK
  <2> QED
    BY <2>1 DEF RunMemory
<1>2. topics \subseteq Ideas
  BY DEF AirlockInv, TypeOK
<1>3. \A d \in CollectDocuments : d.matter \subseteq Ideas
  BY <1>1, <1>2 DEF CollectDocuments, Document, Said
<1>4. memory \subseteq CollectDocuments
  BY DEF Retrieve, AssembleContext, Eligible, Index
<1> QED
  BY <1>3, <1>4

\* The initial state satisfies the invariant.
LEMMA AirlockInit == Init => AirlockInv
BY AirlockConstants DEF Init, AirlockInv, TypeOK, MachineState, Off, Nothing, NightKnows, SearchesArePublic

-----------------------------------------------------------------------------
(* The steps.                                                              *)

\* A run that is marked, and is otherwise the run it was, stays clean.
LEMMA MarkedRun ==
    ASSUME AirlockInv, NEW r \in DOMAIN runs, NEW new \in RunMemory,
           new.idea = runs[r].idea, new.policy = runs[r].policy, new.matter = runs[r].matter,
           runs' = [runs EXCEPT ![r] = new]
    PROVE  /\ runs' \in Seq(RunMemory) /\ runs' # <<>>
           /\ \A q \in DOMAIN runs' : RunIsClean(runs'[q])
<1>1. runs \in Seq(RunMemory) /\ \A q \in DOMAIN runs : RunIsClean(runs[q])
  BY DEF AirlockInv, TypeOK
<1>2. /\ runs' \in Seq(RunMemory) /\ DOMAIN runs' = DOMAIN runs /\ runs' # <<>>
      /\ \A q \in DOMAIN runs : runs'[q] = IF q = r THEN new ELSE runs[q]
  BY <1>1
<1> QED
  BY <1>1, <1>2 DEF RunIsClean

\* Opening a run shows it memory it may be shown.
LEMMA OpenStep == ASSUME AirlockInv, NEW i \in Ideas, Open(i) PROVE AirlockInv'
<1> USE AirlockConstants
<1>1. PICK memory \in Retrieve(i) :
        /\ runs' = Append(runs, [idea |-> i, policy |-> PolicyOf(i), row |-> TRUE,
                                 matter |-> {i} \cup UNION {d.matter : d \in memory},
                                 filed |-> FALSE, said |-> {}])
        /\ night' = [night EXCEPT !.at = "search", !.rows = night.rows \ {i}, !.memory = memory]
  BY DEF Open
<1> DEFINE matter == {i} \cup UNION {d.matter : d \in memory}
           new == [idea |-> i, policy |-> PolicyOf(i), row |-> TRUE, matter |-> matter,
                   filed |-> FALSE, said |-> {}]
<1>2. matter \subseteq Ideas /\ (PolicyOf(i) = CloudAssisted => matter \cap Private = {})
  BY MemoryIsOfIdeas, MemoryIsClean
<1> HIDE DEF matter
<1>3. new \in RunMemory /\ RunIsClean(new) /\ runs' = Append(runs, new)
  BY <1>1, <1>2 DEF RunMemory, RunIsClean, PolicyOf, matter
<1> HIDE DEF new
<1>4. runs \in Seq(RunMemory) /\ \A r \in DOMAIN runs : RunIsClean(runs[r])
  BY DEF AirlockInv, TypeOK
<1>5. /\ runs' \in Seq(RunMemory) /\ Len(runs') = Len(runs) + 1 /\ runs' # <<>>
      /\ \A r \in DOMAIN runs' : RunIsClean(runs'[r])
  <2>1. /\ runs' \in Seq(RunMemory) /\ Len(runs') = Len(runs) + 1 /\ DOMAIN runs' = 1 .. Len(runs) + 1
        /\ \A r \in 1 .. Len(runs) + 1 : runs'[r] = IF r <= Len(runs) THEN runs[r] ELSE new
    BY <1>3, <1>4
  <2> QED
    BY <1>3, <1>4, <2>1
<1>6. /\ idea' = [idea EXCEPT ![i] = "running"] /\ night.at = "between"
      /\ UNCHANGED <<machine, topics, wire, mishaps>>
  BY DEF Open
<1>7. /\ night' = [at |-> "search", profile |-> night.profile, source |-> night.source,
                   rows |-> night.rows \ {i}, memory |-> memory]
      /\ night.rows \subseteq Ideas
  BY <1>1 DEF AirlockInv, TypeOK, NightKnows
<1>8. TypeOK'
  BY <1>5, <1>6, <1>7 DEF AirlockInv, TypeOK
<1>9. NightKnows'
  BY <1>5, <1>6, <1>7 DEF AirlockInv, NightKnows, HasLocalStack, Probe, LocalReasoner
<1> QED
  BY <1>5, <1>6, <1>8, <1>9 DEF AirlockInv, SearchesArePublic

\* A night that goes on knows what it knew.
LEMMA NightGoesOn ==
    ASSUME NightKnows, UNCHANGED <<machine, mishaps>>, NEW at, NEW rows, NEW memory,
           night' = [at |-> at, profile |-> night.profile, source |-> night.source,
                     rows |-> rows, memory |-> memory],
           at # "off" => night.at # "off", at \in {"search", "turns"} => runs' # <<>>
    PROVE  NightKnows'
<1>1. HasLocalStack' = HasLocalStack
  BY DEF HasLocalStack, Probe, LocalReasoner
<1>2. night'.at = at /\ night'.source = night.source
  OBVIOUS
<1> QED
  BY <1>1, <1>2 DEF NightKnows

\* A search is made for an idea that is not private, or not at all; what comes
\* back, a skip, and the stages that ask the model change no policy.
LEMMA StageSteps ==
    ASSUME AirlockInv,
           \/ SkipSearch \/ \E text \in Texts : Search(text)
           \/ Receive \/ Turns \/ TurnsFail \/ EndNight
    PROVE  AirlockInv'
<1> USE AirlockConstants
<1>1. /\ TypeOK /\ runs \in Seq(RunMemory) /\ NightKnows /\ SearchesArePublic
      /\ \A r \in DOMAIN runs : RunIsClean(runs[r])
  BY DEF AirlockInv, TypeOK
<1>2. runs # <<>> => Current \in RunMemory /\ RunIsClean(Current) /\ Current = runs[Len(runs)]
                     /\ Len(runs) \in DOMAIN runs
  BY <1>1 DEF Current, Last
<1>3. CASE SkipSearch
  <2>1. night' = [at |-> "turns", profile |-> night.profile, source |-> night.source,
                  rows |-> night.rows, memory |-> night.memory] /\ runs # <<>>
    BY <1>1, <1>3 DEF SkipSearch, NightKnows
  <2>2. UNCHANGED <<machine, idea, runs, topics, wire, mishaps>>
    BY <1>3 DEF SkipSearch
  <2>3. TypeOK'
    BY <1>1, <2>1, <2>2 DEF TypeOK
  <2>4. NightKnows'
    BY <1>1, <1>3, <2>1, <2>2, NightGoesOn DEF SkipSearch
  <2> QED
    BY <1>1, <2>2, <2>3, <2>4 DEF AirlockInv, SearchesArePublic, RunIsClean
<1>4. ASSUME NEW text \in Texts, Search(text) PROVE AirlockInv'
  <2>1. night' = [at |-> "turns", profile |-> night.profile, source |-> night.source,
                  rows |-> night.rows, memory |-> night.memory] /\ runs # <<>>
    BY <1>1, <1>4 DEF Search, NightKnows
  <2>2. UNCHANGED <<machine, idea, runs, topics, mishaps>>
        /\ wire'.idea = Current.idea
    BY <1>4 DEF Search
  <2>3. Current.idea \notin Private
    BY <1>2, <1>4, <2>1 DEF Search, Searches, RunIsClean, PolicyOf
  <2>4. TypeOK'
    BY <1>1, <2>1, <2>2 DEF TypeOK
  <2>5. NightKnows'
    BY <1>1, <1>4, <2>1, <2>2, NightGoesOn DEF Search
  <2> QED
    BY <1>1, <2>2, <2>3, <2>4, <2>5 DEF AirlockInv, SearchesArePublic, RunIsClean
<1>5. CASE Receive
  <2>1. wire' = Nothing /\ UNCHANGED <<machine, idea, runs, topics, night, mishaps>>
    BY <1>5 DEF Receive
  <2> QED
    BY <1>1, <2>1 DEF AirlockInv, TypeOK, NightKnows, SearchesArePublic, RunIsClean,
       HasLocalStack, Probe, LocalReasoner
<1>6. CASE Turns
  <2> DEFINE new == [Current EXCEPT !.filed = TRUE]
  <2>1. /\ night' = [at |-> "between", profile |-> night.profile, source |-> night.source,
                     rows |-> night.rows, memory |-> {}]
        /\ runs # <<>> /\ UNCHANGED <<machine, topics, wire, mishaps>>
        /\ idea' = [idea EXCEPT ![Current.idea] = "answered"]
    BY <1>1, <1>6 DEF Turns, NightKnows
  <2>2. /\ new \in RunMemory /\ new.idea = Current.idea /\ new.policy = Current.policy
        /\ new.matter = Current.matter
    BY <1>2, <2>1 DEF RunMemory
  <2>3. runs' = [runs EXCEPT ![Len(runs)] = new]
    BY <1>1, <1>2, <1>6, <2>1 DEF Turns
  <2> HIDE DEF new
  <2>4. runs' \in Seq(RunMemory) /\ runs' # <<>> /\ \A q \in DOMAIN runs' : RunIsClean(runs'[q])
    BY <1>2, <2>1, <2>2, <2>3, MarkedRun
  <2>5. TypeOK'
    BY <1>1, <2>1, <2>4 DEF TypeOK
  <2>6. NightKnows'
    BY <1>1, <1>6, <2>1, <2>4, NightGoesOn DEF Turns
  <2> QED
    BY <1>1, <2>1, <2>4, <2>5, <2>6 DEF AirlockInv, SearchesArePublic
<1>7. CASE TurnsFail
  <2>1. /\ night' = [at |-> "between", profile |-> night.profile, source |-> night.source,
                     rows |-> night.rows, memory |-> {}]
        /\ UNCHANGED <<machine, runs, topics, wire, mishaps>>
        /\ idea' = [idea EXCEPT ![Current.idea] = "queued"]
    BY <1>1, <1>7 DEF TurnsFail, NightKnows, ReleaseFailed
  <2>2. TypeOK'
    BY <1>1, <2>1 DEF TypeOK
  <2>3. NightKnows'
    BY <1>1, <1>7, <2>1, NightGoesOn DEF TurnsFail
  <2> QED
    BY <1>1, <2>1, <2>2, <2>3 DEF AirlockInv, SearchesArePublic, RunIsClean
<1>8. CASE EndNight
  <2>1. night' = Off /\ UNCHANGED <<machine, idea, runs, topics, wire, mishaps>>
    BY <1>8 DEF EndNight
  <2> QED
    BY <1>1, <2>1 DEF AirlockInv, TypeOK, NightKnows, SearchesArePublic, RunIsClean, Off
<1> QED
  BY <1>3, <1>4, <1>5, <1>6, <1>7, <1>8

\* What happens around a night changes no policy and adds no matter to a run; a
\* night starts with the model the probe found, if it asked.
LEMMA WorldSteps ==
    ASSUME AirlockInv,
           \/ \E pin \in Pins : StartNight(pin)
           \/ \E i \in Ideas : Capture(i)
           \/ \E r \in DOMAIN runs : \/ EditTopics(r)
                                     \/ \E what \in {"decision", "outcome"} : PersonSays(r, what)
           \/ MachineChanges \/ RestoreOlder
    PROVE  AirlockInv'
<1> USE AirlockConstants
<1>1. /\ TypeOK /\ runs \in Seq(RunMemory) /\ NightKnows /\ SearchesArePublic
      /\ \A r \in DOMAIN runs : RunIsClean(runs[r])
  BY DEF AirlockInv, TypeOK
<1> mishaps \in Nat /\ MaxMishaps \in Nat /\ mishaps <= MaxMishaps
  BY <1>1 DEF TypeOK
<1>2. ASSUME NEW pin \in Pins, StartNight(pin) PROVE AirlockInv'
  <2>1. /\ night' = [at |-> "between", profile |-> Resolved(pin).profile,
                     source |-> Resolved(pin).source,
                     rows |-> {i \in Ideas : idea[i] = "queued"}, memory |-> {}]
        /\ Bind(Resolved(pin).profile).reasoner # "placeholder"
        /\ UNCHANGED <<machine, idea, runs, topics, wire>>
    BY <1>2 DEF StartNight, Off
  <2>2. Resolved(pin).source = "probe" => HasLocalStack
    BY <2>1 DEF Resolved, Bind
  <2>3. mishaps' \in 0 .. MaxMishaps
    <3>1. /\ pin = "none" \/ HasLocalStack \/ mishaps < MaxMishaps
          /\ mishaps' = IF pin = "none" \/ HasLocalStack THEN mishaps ELSE mishaps + 1
      BY <1>2, Zenon DEF StartNight
    <3>2. mishaps' = mishaps \/ (mishaps < MaxMishaps /\ mishaps' = mishaps + 1)
      BY <3>1, Zenon
    <3> QED
      BY <3>2
  <2>4. TypeOK'
    BY <1>1, <2>1, <2>3 DEF TypeOK
  <2>5. NightKnows'
    BY <2>1, <2>2 DEF NightKnows, HasLocalStack, Probe, LocalReasoner
  <2> QED
    BY <1>1, <2>1, <2>4, <2>5 DEF AirlockInv, SearchesArePublic, RunIsClean
<1>3. ASSUME NEW i \in Ideas, Capture(i) PROVE AirlockInv'
  <2>1. idea' = [idea EXCEPT ![i] = "queued"] /\ UNCHANGED <<machine, runs, topics, night, wire, mishaps>>
    BY <1>3 DEF Capture
  <2> QED
    BY <1>1, <2>1 DEF AirlockInv, TypeOK, NightKnows, SearchesArePublic, RunIsClean,
       HasLocalStack, Probe, LocalReasoner
<1>4. ASSUME NEW r \in DOMAIN runs, EditTopics(r) PROVE AirlockInv'
  <2>1. topics' = topics \cup runs[r].matter /\ UNCHANGED <<machine, idea, runs, night, wire, mishaps>>
    BY <1>4 DEF EditTopics
  <2>2. runs[r] \in RunMemory
    BY <1>1, <1>4
  <2>3. runs[r].matter \subseteq Ideas
    BY <2>2 DEF RunMemory
  <2> QED
    BY <1>1, <2>1, <2>3 DEF AirlockInv, TypeOK, NightKnows, SearchesArePublic, RunIsClean,
       HasLocalStack, Probe, LocalReasoner
<1>5. ASSUME NEW r \in DOMAIN runs, NEW what \in {"decision", "outcome"}, PersonSays(r, what)
      PROVE  AirlockInv'
  <2> DEFINE run == runs[r]
             new == [run EXCEPT !.said = run.said \cup {what}]
  <2>1. /\ runs' = [runs EXCEPT ![r] = new]
        /\ UNCHANGED <<machine, idea, topics, night, wire, mishaps>>
    BY <1>5 DEF PersonSays
  <2>2. run \in RunMemory
    BY <1>1, <1>5
  <2>3. /\ new \in RunMemory /\ new.idea = run.idea /\ new.policy = run.policy
        /\ new.matter = run.matter
    <3> HIDE DEF run
    <3> QED
      BY <2>2 DEF RunMemory
  <2> HIDE DEF new
  <2>4. runs' \in Seq(RunMemory) /\ runs' # <<>> /\ \A q \in DOMAIN runs' : RunIsClean(runs'[q])
    BY <2>1, <2>3, MarkedRun
  <2> QED
    BY <1>1, <2>1, <2>4 DEF AirlockInv, TypeOK, NightKnows, SearchesArePublic,
       HasLocalStack, Probe, LocalReasoner
<1>6. CASE MachineChanges
  <2>1. /\ machine' \in MachineState /\ UNCHANGED <<idea, runs, topics, night, wire>>
        /\ \/ night.at = "off" /\ mishaps' = mishaps
           \/ mishaps < MaxMishaps /\ mishaps' = mishaps + 1
    BY <1>6 DEF MachineChanges, MachineState
  <2>2. TypeOK'
    BY <1>1, <2>1 DEF TypeOK
  <2>3. NightKnows'
    BY <1>1, <2>1 DEF NightKnows
  <2> QED
    BY <1>1, <2>1, <2>2, <2>3 DEF AirlockInv, SearchesArePublic, RunIsClean
<1>7. CASE RestoreOlder
  <2> DEFINE run == runs[Len(runs)]
             new == [run EXCEPT !.row = FALSE]
  <2>1. /\ runs' = [runs EXCEPT ![Len(runs)] = new] /\ Len(runs) \in DOMAIN runs
        /\ idea' = [idea EXCEPT ![Current.idea] = "queued"]
        /\ night.at = "off" /\ mishaps < MaxMishaps /\ mishaps' = mishaps + 1
        /\ UNCHANGED <<machine, topics, night, wire>>
    BY <1>1, <1>7 DEF RestoreOlder
  <2>2. run \in RunMemory
    BY <1>1, <2>1
  <2>3. /\ new \in RunMemory /\ new.idea = run.idea /\ new.policy = run.policy
        /\ new.matter = run.matter
    <3> HIDE DEF run
    <3> QED
      BY <2>2 DEF RunMemory
  <2> HIDE DEF new
  <2>4. runs' \in Seq(RunMemory) /\ runs' # <<>> /\ \A q \in DOMAIN runs' : RunIsClean(runs'[q])
    BY <2>1, <2>3, MarkedRun
  <2>5. TypeOK'
    <3>1. mishaps' \in 0 .. MaxMishaps
      BY <2>1
    <3>2. idea' \in [Ideas -> {"absent", "queued", "running", "answered"}]
      BY <1>1, <2>1 DEF TypeOK
    <3> QED
      BY <1>1, <2>1, <2>4, <3>1, <3>2 DEF TypeOK
  <2>6. NightKnows'
    BY <1>1, <2>1, <2>4 DEF NightKnows
  <2> QED
    BY <1>1, <2>1, <2>4, <2>5, <2>6 DEF AirlockInv, SearchesArePublic
<1> QED
  BY <1>2, <1>3, <1>4, <1>5, <1>6, <1>7

\* Every step keeps the invariant.
LEMMA AirlockStep == AirlockInv /\ [Next]_vars => AirlockInv'
<1> SUFFICES ASSUME AirlockInv, [Next]_vars PROVE AirlockInv'
  OBVIOUS
<1>1. CASE UNCHANGED vars
  BY <1>1 DEF vars, AirlockInv, TypeOK, NightKnows, SearchesArePublic, RunIsClean,
     HasLocalStack, Probe, LocalReasoner
<1>2. CASE NightStep
  BY <1>2, OpenStep, StageSteps DEF NightStep, ResearchStage
<1> QED
  BY <1>1, <1>2, WorldSteps DEF Next

\* The invariant holds in every reachable state.
LEMMA AirlockInvariant == Spec => []AirlockInv
BY AirlockInit, AirlockStep, PTL DEF Spec

\* The machine, the tables and the night hold values of their types.
THEOREM AirlockTypes == Spec => []TypeOK
<1>1. AirlockInv => TypeOK
  BY DEF AirlockInv
<1> QED
  BY <1>1, AirlockInvariant, PTL

\* Nothing of a private idea is in what a search carries, in memory that may be
\* sent off the machine, or with a model the probe did not find by its name
\* (airlock/policy.py, retrieval/index.py, night/research.py).
THEOREM PrivateStaysHome == Spec => []NothingPrivateLeaves
<1>1. ASSUME AirlockInv PROVE NothingPrivateLeaves
  <2>1. SearchesArePublic
    BY <1>1 DEF AirlockInv
  <2>2. MemoryMayLeave
    BY <1>1 DEF AirlockInv, NightKnows, TypeOK, RunIsClean, MemoryMayLeave, Current, Last
  <2>3. ProbeSaidSo
    <3> SUFFICES ASSUME night.at # "off", night.source = "probe", mishaps = 0
                 PROVE  Answers /\ Blocked = {}
      BY DEF ProbeSaidSo
    <3>1. HasLocalStack
      BY <1>1 DEF AirlockInv, NightKnows
    <3>2. LocalOk
      BY <3>1 DEF LocalOk, Resolved, LocalProfile
    <3> QED
      BY <3>1, <3>2 DEF Answers, Blocked, Permitted, HasLocalStack, Probe, LocalReasoner
  <2> QED
    BY <2>1, <2>2, <2>3 DEF NothingPrivateLeaves
<1> QED
  BY <1>1, AirlockInvariant, PTL

-----------------------------------------------------------------------------
(* What a query is made of.                                                *)

\* A set of numbers that is not empty has a least one.
LEMMA LeastNumber ==
    ASSUME NEW S, S \subseteq Nat, S # {}
    PROVE  \E v \in S : \A w \in S : v <= w
<1> DEFINE Below == {p \in Nat \X Nat : p[1] < p[2]}
<1>1. IsWellFoundedOn(Below, Nat)
  BY NatLessThanWellFounded DEF OpToRel
<1>2. \A v, w \in Nat : <<w, v>> \in Below <=> w < v
  OBVIOUS
<1> HIDE DEF Below
<1>3. PICK v \in S : \A w \in S : <<w, v>> \notin Below
  BY <1>1, WFMin, Zenon
<1>4. \A w \in S : ~ (w < v)
  BY <1>2, <1>3
<1>5. \A w \in S : v <= w
  BY <1>4
<1> QED
  BY <1>5

\* Some of the first `n` numbers have a greatest one.
LEMMA GreatestNumber ==
    ASSUME NEW n \in Nat, NEW S, S \subseteq 1 .. n, S # {}
    PROVE  \E v \in S : \A w \in S : w <= v
<1> DEFINE Short == {n - w : w \in S}
<1>1. Short \subseteq Nat /\ Short # {}
  <2>1. \A w \in S : n - w \in Nat
    OBVIOUS
  <2>2. PICK w \in S : TRUE
    OBVIOUS
  <2>3. n - w \in Short
    BY <2>2
  <2> QED
    BY <2>1, <2>3
<1>2. PICK d \in Short : \A e \in Short : d <= e
  BY <1>1, LeastNumber
<1>3. PICK v \in S : d = n - v
  BY <1>2
<1>4. \A w \in S : w <= v
  BY <1>2, <1>3
<1> QED
  BY <1>4

Increasing(terms) == \A j, k \in DOMAIN terms : j < k => terms[j] < terms[k]

\* The least word first, and then the others in their order.
LEMMA OneMoreWord ==
    ASSUME NEW S \in SUBSET Nat, IsFiniteSet(S), NEW m \in S, \A w \in S : m <= w,
           NEW terms \in [1 .. Cardinality(S \ {m}) -> S \ {m}], Increasing(terms)
    PROVE  \E more \in [1 .. Cardinality(S) -> S] : Increasing(more)
<1> DEFINE n == Cardinality(S)
           more == [k \in 1 .. n |-> IF k = 1 THEN m ELSE terms[k - 1]]
<1>1. Cardinality(S \ {m}) = n - 1 /\ n \in Nat
  BY FS_RemoveElement, FS_CardinalityType
<1> HIDE DEF n
<1>2. \A k \in 1 .. n : k # 1 => k - 1 \in 1 .. n - 1
  BY <1>1
<1>3. \A k \in 1 .. n : k # 1 => terms[k - 1] \in S \ {m}
  BY <1>1, <1>2
<1>4. more \in [1 .. n -> S]
  BY <1>3
<1>5. \A k \in 1 .. n : more[k] = IF k = 1 THEN m ELSE terms[k - 1]
  OBVIOUS
<1> HIDE DEF more
<1>6. ASSUME NEW j \in 1 .. n, NEW k \in 1 .. n, j < k PROVE more[j] < more[k]
  <2>1. k # 1 /\ j \in Nat /\ k \in Nat
    BY <1>1, <1>6
  <2>2. k - 1 \in 1 .. n - 1 /\ more[k] = terms[k - 1] /\ more[k] \in S \ {m}
    BY <1>2, <1>3, <1>5, <2>1
  <2>3. CASE j = 1
    <3>1. more[j] = m /\ m \in Nat /\ more[k] \in Nat /\ m <= more[k] /\ more[k] # m
      BY <1>5, <2>2, <2>3
    <3> QED
      BY <3>1
  <2>4. CASE j # 1
    <3>1. j - 1 \in 1 .. n - 1 /\ more[j] = terms[j - 1]
      BY <1>2, <1>5, <2>4
    <3>2. j - 1 < k - 1
      BY <1>6, <2>1
    <3>3. DOMAIN terms = 1 .. n - 1
      BY <1>1
    <3> QED
      BY <2>2, <3>1, <3>2, <3>3 DEF Increasing
  <2> QED
    BY <2>3, <2>4
<1>7. Increasing(more)
  BY <1>4, <1>6 DEF Increasing
<1> QED
  BY <1>4, <1>7 DEF n

\* The words of a finite set have an order of the alphabet: of the sets that
\* have none, a smallest one would have one after all.
LEMMA SortedExists ==
    ASSUME NEW S \in SUBSET Nat, IsFiniteSet(S)
    PROVE  \E terms \in [1 .. Cardinality(S) -> S] : Increasing(terms)
<1> DEFINE Sortable(R) == \E terms \in [1 .. Cardinality(R) -> R] : Increasing(terms)
           Bad == {n \in Nat : \E R \in SUBSET Nat :
                     IsFiniteSet(R) /\ Cardinality(R) = n /\ ~Sortable(R)}
<1>1. SUFFICES ASSUME Bad # {} PROVE FALSE
  <2>1. Cardinality(S) \in Nat
    BY FS_CardinalityType
  <2> QED
    BY <1>1, <2>1
<1>2. Bad \subseteq Nat
  OBVIOUS
<1>3. PICK n \in Bad : \A k \in Bad : n <= k
  BY <1>1, <1>2, LeastNumber
<1>4. PICK R \in SUBSET Nat : IsFiniteSet(R) /\ Cardinality(R) = n /\ ~Sortable(R)
  BY <1>3
<1>5. CASE R = {}
  <2>1. 1 .. Cardinality(R) = {}
    BY <1>5, FS_EmptySet
  <2>2. [k \in {} |-> 0] \in [{} -> R] /\ Increasing([k \in {} |-> 0])
    BY DEF Increasing
  <2> QED
    BY <1>4, <2>1, <2>2
<1>6. CASE R # {}
  <2>1. PICK m \in R : \A w \in R : m <= w
    BY <1>4, <1>6, LeastNumber
  <2>2. R \ {m} \in SUBSET Nat /\ IsFiniteSet(R \ {m}) /\ Cardinality(R \ {m}) = n - 1
    BY <1>4, <2>1, FS_RemoveElement
  <2>3. n \in Nat /\ n - 1 \in Nat /\ n - 1 \notin Bad
    BY <1>2, <1>3, <2>2, FS_CardinalityType
  <2>4. Sortable(R \ {m})
    BY <2>2, <2>3
  <2> QED
    BY <1>4, <2>1, <2>4, OneMoreWord
<1> QED
  BY <1>5, <1>6

\* Every term earned its way in, and they are few, each once.
LEMMA TermsEarned ==
    ASSUME NEW text \in Seq(Tokens), MaxTerms \in Nat
    PROVE  /\ Terms(text) \in Seq(Nat)
           /\ Len(Terms(text)) <= MaxTerms /\ Increasing(Terms(text))
           /\ \A n \in 1 .. Len(Terms(text)) : \E k \in DOMAIN text :
                text[k].word = Terms(text)[n] /\ EarnsItsPlace(text, k)
<1> DEFINE earned == {k \in DOMAIN text : EarnsItsPlace(text, k)}
           once   == {k \in earned : \A j \in earned : j < k => text[j].word # text[k].word}
           first  == {k \in once : Cardinality({j \in once : j <= k}) <= MaxTerms}
           words  == {text[k].word : k \in first}
<1>1. \A k \in first : k \in DOMAIN text /\ EarnsItsPlace(text, k) /\ text[k].word \in Nat
  <2>1. \A k \in first : k \in DOMAIN text /\ EarnsItsPlace(text, k)
    OBVIOUS
  <2>2. \A k \in DOMAIN text : text[k] \in Tokens
    OBVIOUS
  <2> HIDE DEF first
  <2> QED
    BY <2>1, <2>2 DEF Tokens
<1>2. IsFiniteSet(words) /\ Cardinality(words) <= MaxTerms
  <2>1. /\ IsFiniteSet(1 .. Len(text)) /\ Len(text) \in Nat
        /\ first \subseteq once /\ once \subseteq 1 .. Len(text)
        /\ \A k \in first : Cardinality({j \in once : j <= k}) <= MaxTerms
    BY FS_Interval
  <2> HIDE DEF first, once
  <2>2. IsFiniteSet(first) /\ IsFiniteSet(once) /\ first \subseteq 1 .. Len(text)
    BY <2>1, FS_Subset
  <2>3. [k \in first |-> text[k].word] \in Surjection(first, words)
    BY DEF Surjection
  <2>4. IsFiniteSet(words) /\ Cardinality(words) <= Cardinality(first)
    BY <2>2, <2>3, FS_Surjection
  <2>5. Cardinality(first) <= MaxTerms
    <3>1. CASE first = {}
      BY <3>1, FS_EmptySet
    <3>2. CASE first # {}
      <4>1. PICK k \in first : \A j \in first : j <= k
        BY <2>1, <2>2, <3>2, GreatestNumber
      <4> DEFINE upTo == {j \in once : j <= k}
      <4>2. IsFiniteSet(upTo) /\ first \in SUBSET upTo
        <5>1. upTo \in SUBSET once
          OBVIOUS
        <5> QED
          BY <2>1, <2>2, <4>1, <5>1, FS_Subset
      <4>3. Cardinality(upTo) <= MaxTerms
        BY <2>1
      <4>4. Cardinality(upTo) \in Nat /\ Cardinality(first) \in Nat
        BY <2>2, <4>2, FS_CardinalityType
      <4> HIDE DEF upTo
      <4>5. Cardinality(first) <= Cardinality(upTo)
        BY <4>2, FS_Subset
      <4> QED
        BY <4>3, <4>4, <4>5
    <3> QED
      BY <3>1, <3>2
  <2>6. Cardinality(words) \in Nat /\ Cardinality(first) \in Nat
    BY <2>2, <2>4, FS_CardinalityType
  <2> HIDE DEF words
  <2> QED
    BY <2>4, <2>5, <2>6
<1>3. Terms(text) = Sorted(words)
  BY DEF Terms
<1>4. words \in SUBSET Nat /\ \A w \in words : \E k \in DOMAIN text :
        text[k].word = w /\ EarnsItsPlace(text, k)
  BY <1>1
<1> HIDE DEF words
<1>5. Sorted(words) \in [1 .. Cardinality(words) -> words] /\ Increasing(Sorted(words))
  BY <1>2, <1>4, SortedExists DEF Sorted, Increasing
<1>6. Cardinality(words) \in Nat
  BY <1>2, FS_CardinalityType
<1>7. Sorted(words) \in Seq(words) /\ Len(Sorted(words)) = Cardinality(words)
  BY <1>5, <1>6
<1> DEFINE terms == Sorted(words)
<1>8. /\ Terms(text) = terms /\ terms \in [1 .. Cardinality(words) -> words]
      /\ Len(terms) = Cardinality(words) /\ Increasing(terms)
  BY <1>3, <1>5, <1>7
<1> HIDE DEF terms
<1>9. \A n \in 1 .. Len(terms) : terms[n] \in words
  BY <1>8
<1>10. terms \in Seq(Nat)
  <2>1. terms \in [1 .. Cardinality(words) -> Nat]
    BY <1>4, <1>8
  <2> QED
    BY <1>6, <2>1
<1> QED
  BY <1>2, <1>4, <1>8, <1>9, <1>10


Words(terms) == {terms[k] : k \in 1 .. Len(terms)}

\* No word is there twice.
Distinct(terms) == \A j, k \in 1 .. Len(terms) : terms[j] = terms[k] => j = k

\* A rotation is as long as what it is of, and has its words, each as often.
LEMMA RotationIsDistinct ==
    ASSUME NEW S, NEW terms \in Seq(S), Distinct(terms), NEW turn \in 0 .. Len(terms) - 1
    PROVE  Len(Rotated(terms, turn)) = Len(terms) /\ Distinct(Rotated(terms, turn))
<1> DEFINE n     == Len(terms)
           back  == SubSeq(terms, turn + 1, n)
           front == SubSeq(terms, 1, turn)
           query == Rotated(terms, turn)
<1>1. n \in Nat /\ turn \in Nat /\ turn < n /\ \A k \in 1 .. n : terms[k] \in S
  OBVIOUS
<1>2. back \in Seq(S) /\ Len(back) = n - turn /\ \A k \in 1 .. n - turn : back[k] = terms[turn + k]
  <2>1. turn + 1 \in Int /\ n \in Int /\ \A k \in turn + 1 .. n : terms[k] \in S
    BY <1>1
  <2>2. /\ back \in Seq(S) /\ Len(back) = IF turn + 1 <= n THEN n - (turn + 1) + 1 ELSE 0
        /\ \A k \in 1 .. n - (turn + 1) + 1 : back[k] = terms[(turn + 1) + k - 1]
    BY <2>1, SubSeqProperties
  <2>3. n - (turn + 1) + 1 = n - turn /\ \A k \in 1 .. n - turn : (turn + 1) + k - 1 = turn + k
    BY <1>1
  <2> HIDE DEF back
  <2> QED
    BY <1>1, <2>2, <2>3
<1>3. front \in Seq(S) /\ Len(front) = turn /\ \A k \in 1 .. turn : front[k] = terms[k]
  <2>1. 1 \in Int /\ turn \in Int /\ \A k \in 1 .. turn : terms[k] \in S
    BY <1>1
  <2>2. /\ front \in Seq(S) /\ Len(front) = IF 1 <= turn THEN turn - 1 + 1 ELSE 0
        /\ \A k \in 1 .. turn - 1 + 1 : front[k] = terms[1 + k - 1]
    BY <2>1, SubSeqProperties
  <2> HIDE DEF front
  <2> QED
    BY <1>1, <2>2
<1>4. query = back \o front
  BY DEF Rotated
<1> HIDE DEF back, front, query
<1>5. /\ Len(query) = n
      /\ \A k \in 1 .. n : query[k] = IF k <= n - turn THEN terms[turn + k] ELSE terms[k - (n - turn)]
  <2>1. back \in Seq(S) /\ front \in Seq(S)
    BY <1>2, <1>3
  <2>2. /\ Len(query) = Len(back) + Len(front)
        /\ \A k \in 1 .. Len(back) + Len(front) :
             query[k] = IF k <= Len(back) THEN back[k] ELSE front[k - Len(back)]
    BY <1>4, <2>1, ConcatProperties
  <2> HIDE DEF n
  <2>3. Len(back) = n - turn /\ Len(back) + Len(front) = n
    BY <1>1, <1>2, <1>3
  <2>4. ASSUME NEW k \in 1 .. n
        PROVE  query[k] = IF k <= n - turn THEN terms[turn + k] ELSE terms[k - (n - turn)]
    <3>1. query[k] = IF k <= n - turn THEN back[k] ELSE front[k - (n - turn)]
      BY <2>2, <2>3
    <3>2. CASE k <= n - turn
      <4>1. k \in 1 .. n - turn
        BY <1>1, <3>2
      <4> QED
        BY <1>2, <3>1, <3>2, <4>1
    <3>3. CASE ~(k <= n - turn)
      <4>1. k - (n - turn) \in 1 .. turn
        BY <1>1, <3>3
      <4> QED
        BY <1>3, <3>1, <3>3, <4>1
    <3> QED
      BY <3>2, <3>3
  <2> QED
    BY <2>2, <2>3, <2>4
<1>6. \A j, k \in 1 .. n : terms[j] = terms[k] => j = k
  BY DEF Distinct
<1> HIDE DEF n
<1>7. ASSUME NEW j \in 1 .. n, NEW k \in 1 .. n, query[j] = query[k] PROVE j = k
  <2> DEFINE At(m) == IF m <= n - turn THEN turn + m ELSE m - (n - turn)
  <2>1. At(j) \in 1 .. n /\ At(k) \in 1 .. n /\ query[j] = terms[At(j)] /\ query[k] = terms[At(k)]
    BY <1>1, <1>5
  <2>2. At(j) = At(k)
    BY <1>6, <1>7, <2>1
  <2> QED
    BY <1>1, <2>2
<1> QED
  BY <1>5, <1>7 DEF Distinct, n, query

\* A query is clean, each of its words is one of the terms, and there is none twice.
LEMMA BrokenIsClean ==
    ASSUME MaxRun \in Nat, MaxRun > 1, NEW text, Len(text) \in Nat, NEW terms \in Seq(Nat),
           Distinct(terms)
    PROVE  /\ BreakRuns(terms, text) \in Seq(Words(terms))
           /\ Len(BreakRuns(terms, text)) <= Len(terms) /\ Distinct(BreakRuns(terms, text))
           /\ Clean(BreakRuns(terms, text), text)
<1> DEFINE kept == {n \in 1 .. Len(terms) :
                      n = 1 \/ CleanRotations(SubSeq(terms, 1, n), text) # {}}
           size == CHOOSE k \in kept : \A j \in kept : j <= k
           best == SubSeq(terms, 1, size)
           ways == CleanRotations(best, text)
           turn == CHOOSE o \in ways : \A p \in ways : o <= p
           words == Words(terms)
<1>1. BreakRuns(terms, text) =
        IF terms = <<>> THEN <<>> ELSE IF ways = {} THEN best ELSE Rotated(best, turn)
  BY DEF BreakRuns
<1>2. \A k \in 1 .. Len(terms) : terms[k] \in words
  BY DEF Words
<1> HIDE DEF words
<1>3. ASSUME NEW query \in Seq(words), Len(query) < 2 PROVE Clean(query, text)
  <2>1. 0 .. Len(query) - MaxRun = {}
    BY <1>3
  <2> QED
    BY <2>1 DEF Clean, Occurs
<1>4. CASE terms = <<>>
  <2>1. <<>> \in Seq(words) /\ Len(<<>>) < 2 /\ Distinct(<<>>) /\ Len(<<>>) <= Len(terms)
    BY <1>4 DEF Distinct
  <2>2. BreakRuns(terms, text) = <<>> /\ Clean(<<>>, text)
    BY <1>1, <1>3, <1>4, <2>1
  <2> QED
    BY <2>1, <2>2 DEF words
<1>5. CASE terms # <<>>
  <2>1. kept \subseteq 1 .. Len(terms) /\ 1 \in kept /\ Len(terms) \in Nat
    BY <1>5
  <2>2. \E k \in kept : \A j \in kept : j <= k
    <3> HIDE DEF kept
    <3> QED
      BY <2>1, GreatestNumber
  <2>3. size \in kept
    BY <2>2
  <2>4. size \in 1 .. Len(terms) /\ (size = 1 \/ ways # {})
    BY <2>3
  <2> HIDE DEF kept, size
  <2>5. \A k \in 1 .. size : terms[k] \in words
    BY <1>2, <2>1, <2>4
  <2>6. best \in Seq(words) /\ Len(best) = size /\ \A k \in 1 .. size : best[k] = terms[k]
    BY <2>4, <2>5, SubSeqProperties
  <2> HIDE DEF best
  <2>10. Len(best) <= Len(terms) /\ Distinct(best)
    <3>1. \A k \in 1 .. size : k \in 1 .. Len(terms)
      BY <2>1, <2>4
    <3> QED
      BY <2>1, <2>4, <2>6, <3>1 DEF Distinct
  <2>7. CASE ways = {}
    <3>1. Len(best) < 2
      BY <2>4, <2>6, <2>7
    <3>2. Clean(best, text)
      BY <1>3, <2>6, <3>1
    <3> QED
      BY <1>1, <1>5, <2>6, <2>7, <2>10, <3>2 DEF words
  <2>8. CASE ways # {}
    <3>1. ways \subseteq Nat /\ ways \subseteq 0 .. size - 1
      BY <2>4, <2>6 DEF CleanRotations
    <3>2. \E o \in ways : \A p \in ways : o <= p
      <4> HIDE DEF ways
      <4> QED
        BY <2>8, <3>1, LeastNumber
    <3>3. turn \in ways
      BY <3>2
    <3>4. turn \in 0 .. size - 1 /\ Clean(Rotated(best, turn), text)
      BY <3>1, <3>3 DEF CleanRotations
    <3> HIDE DEF ways, turn
    <3>5. \A k \in 1 .. size : best[k] \in words
      BY <2>6
    <3>6. SubSeq(best, turn + 1, size) \in Seq(words)
      <4>1. turn + 1 \in Int /\ size \in Int /\ \A k \in turn + 1 .. size : best[k] \in words
        BY <2>4, <3>4, <3>5
      <4> QED
        BY <4>1, SubSeqProperties
    <3>7. SubSeq(best, 1, turn) \in Seq(words)
      <4>1. turn \in Int /\ \A k \in 1 .. turn : best[k] \in words
        BY <2>4, <3>4, <3>5
      <4> QED
        BY <4>1, SubSeqProperties
    <3>8. Rotated(best, turn) = SubSeq(best, turn + 1, size) \o SubSeq(best, 1, turn)
      BY <2>6 DEF Rotated
    <3>9. Rotated(best, turn) \in Seq(words)
      BY <3>6, <3>7, <3>8, ConcatProperties
    <3>10. Len(Rotated(best, turn)) <= Len(terms) /\ Distinct(Rotated(best, turn))
      BY <2>6, <2>10, <3>4, RotationIsDistinct
    <3> QED
      BY <1>1, <1>5, <2>8, <3>4, <3>9, <3>10 DEF words
  <2> QED
    BY <2>7, <2>8
<1> QED
  BY <1>4, <1>5

\* What there is in the order of the alphabet is there once.
LEMMA TermsAreDistinct ==
    ASSUME NEW terms \in Seq(Nat), Increasing(terms)
    PROVE  Distinct(terms)
<1> SUFFICES ASSUME NEW j \in 1 .. Len(terms), NEW k \in 1 .. Len(terms), terms[j] = terms[k]
             PROVE  j = k
  BY DEF Distinct
<1>1. terms[j] \in Nat /\ terms[k] \in Nat /\ j \in DOMAIN terms /\ k \in DOMAIN terms
  OBVIOUS
<1>2. ~ (j < k) /\ ~ (k < j)
  BY <1>1 DEF Increasing
<1> QED
  BY <1>2

\* What is on the wire is what was built from the idea it is for, and enough to
\* search for.
QueryIsBuilt ==
    wire # Nothing =>
        /\ wire.text \in Texts /\ wire.query = BuildQuery(wire.text)
        /\ Len(wire.query) >= MinTerms

LEMMA WireStep == QueryIsBuilt /\ [Next]_vars => QueryIsBuilt'
<1> SUFFICES ASSUME QueryIsBuilt, [Next]_vars PROVE QueryIsBuilt'
  OBVIOUS
<1>1. ASSUME NEW text \in Texts, Search(text) PROVE QueryIsBuilt'
  BY <1>1 DEF Search, QueryIsBuilt
<1>2. CASE Receive
  BY <1>2 DEF Receive, QueryIsBuilt
<1>3. CASE UNCHANGED wire
  BY <1>3 DEF QueryIsBuilt
<1> QED
  BY <1>1, <1>2, <1>3 DEF Next, vars, NightStep, ResearchStage, StartNight, Open, SkipSearch,
     Turns, TurnsFail, EndNight, Capture, EditTopics, PersonSays, MachineChanges, RestoreOlder

\* A query carries no phrase of the idea it is for, no name and nothing that is
\* itself the disclosure, for any sentences and any words of either kind, and
\* phrases of any length: "a verified postcondition" (redact.py).
THEOREM QueriesAreClean == Spec => []QueryCarriesNoPhrase
<1>1. Init => QueryIsBuilt
  BY DEF Init, QueryIsBuilt
<1>2. QueryIsBuilt => QueryCarriesNoPhrase
  <2> SUFFICES ASSUME QueryIsBuilt, wire # Nothing PROVE
        /\ Clean(wire.query, wire.text)
        /\ \A n \in DOMAIN wire.query :
             /\ wire.query[n] \notin Sensitive
             /\ \E k \in DOMAIN wire.text :
                  wire.text[k].word = wire.query[n] /\ EarnsItsPlace(wire.text, k)
    BY DEF QueryCarriesNoPhrase
  <2> DEFINE text == wire.text
             terms == Terms(text)
  <2>1. text \in Seq(Tokens) /\ Len(text) \in Nat /\ wire.query = BreakRuns(terms, text)
    BY AirlockConstants DEF QueryIsBuilt, BuildQuery
  <2>2. /\ terms \in Seq(Nat)
        /\ \A n \in 1 .. Len(terms) : \E k \in DOMAIN text :
             text[k].word = terms[n] /\ EarnsItsPlace(text, k)
        /\ Distinct(terms)
    BY <2>1, TermsEarned, TermsAreDistinct, AirlockConstants
  <2> HIDE DEF text, terms
  <2>3. /\ Clean(wire.query, text)
        /\ wire.query \in Seq(Words(terms))
    BY <2>1, <2>2, BrokenIsClean, AirlockConstants
  <2>4. ASSUME NEW n \in DOMAIN wire.query
        PROVE  \E k \in DOMAIN text : text[k].word = wire.query[n] /\ EarnsItsPlace(text, k)
    <3>1. wire.query[n] \in Words(terms)
      BY <2>3, <2>4
    <3> QED
      BY <2>2, <3>1 DEF Words
  <2>5. \A n \in DOMAIN wire.query : wire.query[n] \notin Sensitive
    BY <2>4 DEF EarnsItsPlace
  <2> QED
    BY <2>3, <2>4, <2>5 DEF text
<1> QED
  BY <1>1, <1>2, WireStep, PTL DEF Spec

\* A query has no more than MAX_TERMS words, past which "the query starts being a
\* fingerprint of the sentence it came from" (redact.py:142-145), no word twice, and
\* no fewer than are worth a search (research.py, _MIN_TERMS), whatever repairing
\* its order gave up.
THEOREM QueriesAreShort ==
    Spec => [](wire # Nothing =>
                 Len(wire.query) \in MinTerms .. MaxTerms /\ Distinct(wire.query))
<1>1. Init => QueryIsBuilt
  BY DEF Init, QueryIsBuilt
<1>2. QueryIsBuilt =>
        (wire # Nothing => Len(wire.query) \in MinTerms .. MaxTerms /\ Distinct(wire.query))
  <2> SUFFICES ASSUME QueryIsBuilt, wire # Nothing
               PROVE  Len(wire.query) \in MinTerms .. MaxTerms /\ Distinct(wire.query)
    OBVIOUS
  <2> DEFINE text == wire.text
             terms == Terms(text)
  <2>1. /\ text \in Seq(Tokens) /\ Len(text) \in Nat /\ wire.query = BreakRuns(terms, text)
        /\ Len(wire.query) >= MinTerms
    BY AirlockConstants DEF QueryIsBuilt, BuildQuery
  <2>2. terms \in Seq(Nat) /\ Len(terms) <= MaxTerms /\ Distinct(terms)
    BY <2>1, TermsEarned, TermsAreDistinct, AirlockConstants
  <2> HIDE DEF text, terms
  <2>3. /\ wire.query \in Seq(Words(terms))
        /\ Len(wire.query) <= Len(terms) /\ Distinct(wire.query)
    BY <2>1, <2>2, BrokenIsClean, AirlockConstants
  <2>4. Len(wire.query) \in Nat /\ Len(terms) \in Nat
    BY <2>2, <2>3
  <2> QED
    BY <2>1, <2>2, <2>3, <2>4, AirlockConstants
<1> QED
  BY <1>1, <1>2, WireStep, PTL DEF Spec
=============================================================================
