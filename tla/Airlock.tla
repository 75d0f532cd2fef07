------------------------------ MODULE Airlock ------------------------------
(***************************************************************************)
(* What a night may do with an idea, and what of it may leave the machine: *)
(* the profile the probe resolves (config.py), the policy a run is held to *)
(* (airlock/policy.py, night/run.py), the memory assembled for it          *)
(* (retrieval/index.py), the search made for it (night/research.py,        *)
(* airlock/redact.py) and the model it is handed to (providers/).          *)
(*                                                                         *)
(* Text is abstracted to its matter: the ideas something of which is in    *)
(* it.  Relevance is left open: any order of the corpus may be the ranked  *)
(* one.  Nights follow one another (NightLoop has the lock, the recovery   *)
(* and the release); a run is its retrieval, its search, and its turns.    *)
(***************************************************************************)
EXTENDS Naturals, Sequences, FiniteSets, SequencesExt

CONSTANTS
    Ideas,
    Private,    \* those captured under `local-only`
    HasSpeech,  \* whether the speech stack is importable
    Pins,       \* values of SECOND_SHIFT_PROFILE, "none" for unset
    Texts,      \* the sentences an idea may be
    Openers, Dull, Sensitive, MaxTerms, MaxRun,  \* see Redaction
    MinTerms,   \* _MIN_TERMS
    MaxPieces,  \* max_pieces of assemble_context
    MaxRuns,    \* bound: runs opened
    MaxMishaps  \* bound: restores, pins against the probe, servers lost in a night

INSTANCE Redaction

ASSUME AirlockConstants ==
    /\ Private \subseteq Ideas
    /\ HasSpeech \in BOOLEAN
    /\ Pins \subseteq {"none", "cloud", "workstation", "spark"}
    /\ Texts \subseteq Seq(Tokens)
    /\ {MaxTerms, MaxRun, MinTerms, MaxPieces, MaxRuns, MaxMishaps} \subseteq Nat
    /\ MaxRun > 1   \* a word by itself is not a phrase

VARIABLES
    machine,  \* the accelerator, and what answers on the reasoner's port
    idea,     \* the entries: their status
    runs,     \* the runs, in the order they were opened
    topics,   \* the matter of the brain's topic files
    night,    \* the night at work
    wire,     \* the search on its way out, if there is one
    mishaps

vars == <<machine, idea, runs, topics, night, wire, mishaps>>

LocalOnly == "local-only"
CloudAssisted == "cloud-assisted"
BrainPolicy == LocalOnly

PolicyOf(i) == IF i \in Private THEN LocalOnly ELSE CloudAssisted

Nothing == [idea |-> "none", text |-> <<>>, query |-> <<>>]
Off == [at |-> "off", profile |-> "none", source |-> "none", rows |-> {}, memory |-> {}]

Init ==
    /\ machine \in [cuda : BOOLEAN, serves : {"expected", "other", "nothing"}]
    /\ idea = [i \in Ideas |-> "absent"]
    /\ runs = <<>>
    /\ topics = {}
    /\ night = Off
    /\ wire = Nothing
    /\ mishaps = 0

-----------------------------------------------------------------------------
(* The probe, the profile, the policy.                                     *)

\* The endpoint answers with the name of the expected model.
LocalReasoner == machine.serves = "expected"

\* Every capability is looked at, whatever the others are found to be.
Probe == [cuda |-> machine.cuda, reasoner |-> LocalReasoner, speech |-> HasSpeech]

HasLocalStack == Probe.cuda /\ Probe.reasoner

LocalProfile == IF Probe.speech THEN "spark" ELSE "workstation"

Resolved(pin) ==
    IF pin # "none" THEN [profile |-> pin, source |-> "environment"]
    ELSE [profile |-> IF HasLocalStack THEN LocalProfile ELSE "cloud", source |-> "probe"]

\* resolve_policy: a run is never wider than its entry.
Permitted(policy, available) == policy = LocalOnly => available

\* What the API's screening holds back: queued, and not to be honoured by what
\* the probe finds.
LocalOk == HasLocalStack /\ Resolved("none").profile # "cloud"

Blocked == {i \in Ideas : idea[i] = "queued" /\ ~Permitted(PolicyOf(i), LocalOk)}

\* What a profile binds: the embedder is local on every one of them.
Bind(profile) ==
    [reasoner |-> IF profile = "cloud" THEN "placeholder" ELSE "vllm", embedder |-> "vllm"]

\* The server names what it serves, so a request that names another model is
\* refused.
Answers == Bind(night.profile).reasoner = "vllm" => machine.serves = "expected"

-----------------------------------------------------------------------------
(* Memory: what is indexed, under which policy, and what a run may see.    *)

Document(source, policy, matter) == [source |-> source, policy |-> policy, matter |-> matter]

Strictest(one, other) == IF LocalOnly \in {one, other} THEN LocalOnly ELSE CloudAssisted

\* Mutant: a night file whose run is gone may leave.
UnresolvedIsOpen(r) ==
    IF runs[r].row THEN Strictest(runs[r].policy, PolicyOf(runs[r].idea)) ELSE CloudAssisted

\* A night file is under the stricter policy of its run and its entry; one
\* whose run cannot be resolved is private.
NightFilePolicy(r) ==
    IF runs[r].row THEN Strictest(runs[r].policy, PolicyOf(runs[r].idea)) ELSE BrainPolicy

Said(what) == {r \in DOMAIN runs : runs[r].row /\ what \in runs[r].said}

CollectDocuments ==
    UNION {
        {Document(<<"entry", i>>, PolicyOf(i), {i}) : i \in {k \in Ideas : idea[k] # "absent"}},
        {Document(<<"decision", r>>, PolicyOf(runs[r].idea), runs[r].matter) : r \in Said("decision")},
        {Document(<<"outcome", r>>, PolicyOf(runs[r].idea), {runs[r].idea}) : r \in Said("outcome")},
        {Document(<<"brain", 0>>, BrainPolicy, topics) : t \in {k \in {0} : topics # {}}},
        {Document(<<"night", r>>, NightFilePolicy(r), runs[r].matter) :
            r \in {k \in DOMAIN runs : runs[k].filed}}}

MayLeave(documentPolicy, runPolicy) == runPolicy = LocalOnly \/ documentPolicy # LocalOnly

\* Read and embedded again for every retrieval: nothing of an index is stored.
Index == CollectDocuments

\* Everything a run of idea `i` may see, but the idea itself.
Eligible(i) ==
    {d \in Index : MayLeave(d.policy, PolicyOf(i)) /\ d.source # <<"entry", i>>}

\* The bound comes after the filter: the closest of what is eligible, whichever
\* those are.
AssembleContext(i) ==
    {S \in SUBSET Eligible(i) :
        Cardinality(S) = IF Cardinality(Eligible(i)) < MaxPieces THEN Cardinality(Eligible(i))
                                                                 ELSE MaxPieces}

\* The embedder may be down, and a night is not lost for it.
Retrieve(i) == AssembleContext(i) \cup {{}}

-----------------------------------------------------------------------------
(* A night.                                                                *)

\* A night whose profile is `cloud` refuses, after recovery and before all
\* else: it has no reasoner.  The rows are selected once.
StartNight(pin) ==
    /\ night.at = "off"
    /\ Bind(Resolved(pin).profile).reasoner # "placeholder"
    /\ pin = "none" \/ HasLocalStack \/ mishaps < MaxMishaps
    /\ night' = [Off EXCEPT !.at = "between", !.profile = Resolved(pin).profile,
                            !.source = Resolved(pin).source,
                            !.rows = {i \in Ideas : idea[i] = "queued"}]
    /\ mishaps' = IF pin = "none" \/ HasLocalStack THEN mishaps ELSE mishaps + 1
    /\ UNCHANGED <<machine, idea, runs, topics, wire>>

\* The memory is retrieved, then the policy is resolved: what is not permitted
\* opens no run and stays queued.
Open(i) ==
    /\ night.at = "between" /\ i \in night.rows
    /\ Len(runs) < MaxRuns
    /\ Permitted(PolicyOf(i), night.profile # "cloud")
    /\ \E memory \in Retrieve(i) :
         /\ runs' = Append(runs, [idea |-> i, policy |-> PolicyOf(i), row |-> TRUE,
                                  matter |-> {i} \cup UNION {d.matter : d \in memory},
                                  filed |-> FALSE, said |-> {}])
         /\ night' = [night EXCEPT !.at = "search", !.rows = @ \ {i}, !.memory = memory]
    /\ idea' = [idea EXCEPT ![i] = "running"]
    /\ UNCHANGED <<machine, topics, wire, mishaps>>

Current == Last(runs)

\* Refused before a query is built: a private idea's text is not looked at.
Searches == Current.policy # LocalOnly

\* No credential, or nothing searchable: a skip with its reason.
SkipSearch ==
    /\ night.at = "search"
    /\ night' = [night EXCEPT !.at = "turns"]
    /\ UNCHANGED <<machine, idea, runs, topics, wire, mishaps>>

Search(text) ==
    /\ night.at = "search" /\ Searches
    /\ Len(BuildQuery(text)) >= MinTerms
    /\ wire' = [idea |-> Current.idea, text |-> text, query |-> BuildQuery(text)]
    /\ night' = [night EXCEPT !.at = "turns"]
    /\ UNCHANGED <<machine, idea, runs, topics, mishaps>>

\* Results, a refusal, or no answer: each ends the stage and not the run.
Receive ==
    /\ wire # Nothing
    /\ wire' = Nothing
    /\ UNCHANGED <<machine, idea, runs, topics, night, mishaps>>

\* The one stage that talks outward: a skip, or a search and what came of it.
ResearchStage == SkipSearch \/ (\E text \in Texts : Search(text)) \/ Receive

\* The stages that ask the model, the night file, the interviewer's questions.
Turns ==
    /\ night.at = "turns" /\ wire = Nothing
    /\ Answers
    /\ runs' = [runs EXCEPT ![Len(runs)].filed = TRUE]
    /\ idea' = [idea EXCEPT ![Current.idea] = "answered"]
    /\ night' = [night EXCEPT !.at = "between", !.memory = {}]
    /\ UNCHANGED <<machine, topics, wire, mishaps>>

\* Mutant: an idea whose run failed rests as one whose run worked.
ReleaseAnswered == "answered"

ReleaseFailed == "queued"
\* The endpoint answers nothing or does not serve the model it is asked for.
TurnsFail ==
    /\ night.at = "turns" /\ wire = Nothing
    /\ ~Answers
    /\ idea' = [idea EXCEPT ![Current.idea] = ReleaseFailed]
    /\ night' = [night EXCEPT !.at = "between", !.memory = {}]
    /\ UNCHANGED <<machine, runs, topics, wire, mishaps>>

EndNight ==
    /\ night.at = "between" /\ night.rows = {}
    /\ night' = Off
    /\ UNCHANGED <<machine, idea, runs, topics, wire, mishaps>>

-----------------------------------------------------------------------------
(* The rest of the world.                                                  *)

\* The policy is recorded as intent, whatever the profile can honour.
Capture(i) ==
    /\ idea[i] = "absent"
    /\ idea' = [idea EXCEPT ![i] = "queued"]
    /\ UNCHANGED <<machine, runs, topics, night, wire, mishaps>>

\* In the morning: a question about a run is answered, or what came of it is
\* said.
PersonSays(r, what) ==
    /\ runs[r].row /\ runs[r].filed /\ what \notin runs[r].said
    /\ runs' = [runs EXCEPT ![r].said = @ \cup {what}]
    /\ UNCHANGED <<machine, idea, topics, night, wire, mishaps>>

\* A person edits the topic files by what a night proposed.
EditTopics(r) ==
    /\ runs[r].filed
    /\ ~(runs[r].matter \subseteq topics)
    /\ topics' = topics \cup runs[r].matter
    /\ UNCHANGED <<machine, idea, runs, night, wire, mishaps>>

\* The model server is restarted with this model or another, or the machine is.
MachineChanges ==
    /\ night.at = "off" \/ mishaps < MaxMishaps
    /\ machine' \in [cuda : BOOLEAN, serves : {"expected", "other", "nothing"}] \ {machine}
    /\ mishaps' = IF night.at = "off" THEN mishaps ELSE mishaps + 1
    /\ UNCHANGED <<idea, runs, topics, night, wire>>

\* The database is restored from a backup older than the last run; the brain
\* is not part of it.
RestoreOlder ==
    /\ night.at = "off" /\ mishaps < MaxMishaps
    /\ runs # <<>> /\ Current.row
    /\ runs' = [runs EXCEPT ![Len(runs)].row = FALSE]
    /\ idea' = [idea EXCEPT ![Current.idea] = "queued"]
    /\ mishaps' = mishaps + 1
    /\ UNCHANGED <<machine, topics, night, wire>>

NightStep ==
    \/ \E i \in Ideas : Open(i)
    \/ ResearchStage
    \/ Turns \/ TurnsFail \/ EndNight

Next ==
    \/ \E pin \in Pins : StartNight(pin)
    \/ NightStep
    \/ \E i \in Ideas : Capture(i)
    \/ \E r \in DOMAIN runs : EditTopics(r) \/ \E what \in {"decision", "outcome"} : PersonSays(r, what)
    \/ MachineChanges
    \/ RestoreOlder

Spec == Init /\ [][Next]_vars

\* A night goes on as long as it can; the timer starts nights for ever, and if
\* the local stack is up again and again one of them finds it so.
FairSpec == Spec /\ WF_vars(NightStep) /\ SF_vars(StartNight("none"))

-----------------------------------------------------------------------------

MachineState == [cuda : BOOLEAN, serves : {"expected", "other", "nothing"}]

RunMemory ==
    [idea : Ideas, policy : {LocalOnly, CloudAssisted}, row : BOOLEAN, matter : SUBSET Ideas,
     filed : BOOLEAN, said : SUBSET {"decision", "outcome"}]

\* The machine, the tables and the night hold values of their types.
TypeOK ==
    /\ machine \in MachineState
    /\ idea \in [Ideas -> {"absent", "queued", "running", "answered"}]
    /\ runs \in Seq(RunMemory)
    /\ topics \subseteq Ideas
    /\ night.at \in {"off", "between", "search", "turns"} /\ night.rows \subseteq Ideas
    /\ mishaps \in 0 .. MaxMishaps

\* Nothing of a `local-only` idea is in what a search carries, in the memory a
\* run is given that may be sent off the machine, or, unless a profile was
\* pinned, in the hands of a model the probe did not find by its name.
SearchesArePublic == wire # Nothing => wire.idea \notin Private

MemoryMayLeave ==
    night.at \in {"search", "turns"} /\ Current.policy = CloudAssisted
        => Current.matter \cap Private = {}

ProbeSaidSo ==
    night.at # "off" /\ night.source = "probe" /\ mishaps = 0 =>
        Answers /\ Blocked = {}

NothingPrivateLeaves == SearchesArePublic /\ MemoryMayLeave /\ ProbeSaidSo

\* A query carries no phrase of the idea it is for, no name, and nothing that
\* is itself the disclosure: "a verified postcondition" (redact.py).
QueryCarriesNoPhrase ==
    wire # Nothing =>
        /\ Clean(wire.query, wire.text)
        /\ \A n \in DOMAIN wire.query :
             /\ wire.query[n] \notin Sensitive
             /\ \E k \in DOMAIN wire.text :
                  wire.text[k].word = wire.query[n] /\ EarnsItsPlace(wire.text, k)

\* An idea held back while the machine could not honour its policy is worked
\* once it can, with nobody re-entering it, and so is one whose run failed.
BlockedIsReleased ==
    \A i \in Ideas :
        idea[i] = "queued" ~>
            \/ [](~HasLocalStack)
            \/ \E r \in DOMAIN runs : runs[r].idea = i /\ runs[r].filed
=============================================================================
