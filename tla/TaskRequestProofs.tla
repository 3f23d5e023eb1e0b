------------------------- MODULE TaskRequestProofs --------------------------
(***************************************************************************)
(* What a request is worth before the provider takes it, for any requests  *)
(* and any number of keys, tasks, media, downloads, accounts and prices:   *)
(* an idempotency key names one task, what is accepted is served, what is  *)
(* submitted are the media of the task, resolved for its account, a host   *)
(* is not asked while it has failed too often, and the credits a task is   *)
(* submitted with are there to be charged.                                 *)
(***************************************************************************)
EXTENDS TaskCreation, Admission, MediaResolution, HostCircuit, CreditSettlement, SumLemmas, SequenceTheorems

-----------------------------------------------------------------------------
(* Keys name one task.                                                     *)

Stage == {"idle", "selected", "inserted", "committed", "repeats"}
Row == [key : Key, digest : Digest, uuid : Nat]

(* What a call in progress knows.  A row that is inserted is alone with    *)
(* its key, and a duplicate was found because the key has a task.          *)
CallOK(c) ==
    /\ c.stage \in Stage
    /\ c.stage # "idle" => c.row \in Row /\ c.row.uuid \in 1 .. calls
    /\ c.seen \subseteq OfKey(created, c.row.key)
    /\ c.stage = "committed" => c.row \in created
    /\ c.stage = "inserted" => OfKey(created, c.row.key) = {}
    /\ c.stage = "repeats" => OfKey(created, c.row.key) # {}

CallRow == [stage : Stage, row : [key : Key \cup {"none"}, digest : Digest \cup {"none"}, uuid : Nat],
            seen : SUBSET Row]

Exclusive ==
    \A u, v \in Server :
      call[u].stage = "inserted" /\ call[v].stage = "inserted" /\ call[u].row.key = call[v].row.key => u = v

CreatedOK == created \subseteq Row /\ \A r \in created : r.uuid \in 1 .. calls

CreationInv ==
    /\ calls \in Nat
    /\ CreatedOK
    /\ waiting = {r.uuid : r \in created}
    /\ call \in [Server -> CallRow]
    /\ \A v \in Server : CallOK(call[v])
    /\ Exclusive
    /\ OneTaskPerKey

LEMMA InvImpliesTypeOK == CreationInv => CreationTypeOK
<1> SUFFICES ASSUME CreationInv PROVE CreationTypeOK
  OBVIOUS
<1>1. created \subseteq [key : Key, digest : Digest, uuid : 1 .. calls]
  BY DEF CreationInv, CreatedOK, Row
<1>2. ASSUME NEW v \in Server, call[v].stage = "inserted"
      PROVE  Uncommitted(call[v].row.key) = {v}
  BY <1>2 DEF CreationInv, Exclusive, Uncommitted
<1> QED BY <1>1, <1>2 DEF CreationInv, CallOK, CreationTypeOK, Stage

LEMMA InitEstablishes == CreationInit => CreationInv
<1> SUFFICES ASSUME CreationInit PROVE CreationInv
  OBVIOUS
<1>1. Idle \in CallRow /\ CallOK(Idle)
  BY DEF CreationInit, Idle, CallRow, CallOK, Stage, OfKey
<1> QED BY <1>1 DEF CreationInit, CreationInv, CreatedOK, Exclusive, OneTaskPerKey, Idle

-----------------------------------------------------------------------------
(* Steps that leave the rows alone.                                        *)

(* Steps of one call that inserts nothing and answers nobody.              *)
LEMMA QuietCall ==
    ASSUME CreationInv, NEW v \in Server, NEW c \in CallRow, call' = [call EXCEPT ![v] = c],
           c.stage # "inserted", CallOK(c)', calls' \in Nat, calls' >= calls,
           UNCHANGED <<created, waiting>>,
           OneTaskPerKey'
    PROVE  CreationInv'
<1>1. CreatedOK'
  BY DEF CreationInv, CreatedOK, Row
<1>2. ASSUME NEW u \in Server PROVE CallOK(call[u])'
  <2>1. CASE u = v
    BY <2>1 DEF CreationInv
  <2>2. CASE u # v
    <3>1. call'[u] = call[u] /\ CallOK(call[u])
      BY <2>2 DEF CreationInv
    <3> QED BY <3>1 DEF CreationInv, CallOK, OfKey, Row
  <2> QED BY <2>1, <2>2
<1>3. Exclusive'
  BY DEF CreationInv, Exclusive
<1> QED BY <1>1, <1>2, <1>3 DEF CreationInv

LEMMA Restaged ==
    ASSUME NEW c \in CallRow, NEW s \in Stage
    PROVE  LET d == [c EXCEPT !.stage = s] IN
           d \in CallRow /\ d.stage = s /\ d.row = c.row /\ d.seen = c.seen
  BY DEF CallRow

LEMMA IdleIsOK == Idle \in CallRow /\ CallOK(Idle)'
  BY DEF Idle, CallRow, CallOK, Stage, OfKey

(* An answer that is right: the task of the key, or a conflict with it.    *)
LEMMA RightAnswer ==
    ASSUME CreationInv, NEW v \in Server, call[v].stage # "idle", NEW told, Answer(v, told),
           UNCHANGED <<created, waiting, calls>>,
           IF told = Conflict
           THEN \E r \in created : r.key = call[v].row.key /\ r.digest # call[v].row.digest
           ELSE [key |-> call[v].row.key, digest |-> call[v].row.digest, uuid |-> told] \in created
    PROVE  CreationInv'
<1>1. OneTaskPerKey'
  <2>1. \A a \in answered : IF a.told = Conflict
          THEN \E r \in created : r.key = a.key /\ r.digest # a.digest
          ELSE [key |-> a.key, digest |-> a.digest, uuid |-> a.told] \in created
    BY DEF CreationInv, OneTaskPerKey
  <2>2. answered' = answered \cup {[key |-> call[v].row.key, digest |-> call[v].row.digest, told |-> told]}
    BY DEF Answer
  <2>3. \A r, s \in created' : r.key = s.key => r = s
    BY DEF CreationInv, OneTaskPerKey
  <2> QED BY <2>1, <2>2, <2>3 DEF OneTaskPerKey
<1>2. calls' \in Nat /\ calls' >= calls /\ Idle.stage # "inserted"
  BY DEF CreationInv, Idle
<1> QED BY <1>1, <1>2, IdleIsOK, QuietCall DEF Answer

(* The task of a row of the key is the right answer.                       *)
LEMMA JudgedIsRight ==
    ASSUME CreationInv, NEW v \in Server, NEW r \in created, r.key = call[v].row.key
    PROVE  IF Judged(v, r) = Conflict
           THEN \E s \in created : s.key = call[v].row.key /\ s.digest # call[v].row.digest
           ELSE [key |-> call[v].row.key, digest |-> call[v].row.digest, uuid |-> Judged(v, r)] \in created
<1>1. r \in Row /\ r.uuid # 0
  BY DEF CreationInv, CreatedOK
<1>2. r = [key |-> r.key, digest |-> r.digest, uuid |-> r.uuid]
  BY <1>1 DEF Row
<1> QED BY <1>1, <1>2 DEF Judged, Conflict

-----------------------------------------------------------------------------
(* The steps of a call.                                                    *)

LEMMA PostKeeps ==
    ASSUME CreationInv, NEW v \in Server, NEW k \in Key, NEW d \in Digest, Post(v, k, d)
    PROVE  CreationInv'
<1>1. calls' = calls + 1 /\ calls \in Nat
  BY DEF Post, CreationInv
<1>2. PICK c \in CallRow :
        /\ call' = [call EXCEPT ![v] = c]
        /\ c = [stage |-> "selected", row |-> [key |-> k, digest |-> d, uuid |-> calls'],
                seen |-> OfKey(created, k)]
  <2> DEFINE d0 == [stage |-> "selected", row |-> [key |-> k, digest |-> d, uuid |-> calls'],
                    seen |-> OfKey(created, k)]
  <2>1. OfKey(created, k) \subseteq Row
    BY DEF OfKey, CreationInv, CreatedOK
  <2>2. d0 \in CallRow
    BY <1>1, <2>1 DEF CallRow, Stage
  <2>3. call' = [call EXCEPT ![v] = d0]
    BY DEF Post
  <2> QED BY <2>2, <2>3
<1>3. CallOK(c)'
  BY <1>1, <1>2 DEF CallOK, Post, OfKey, Row, Stage
<1>4. OneTaskPerKey'
  BY DEF Post, CreationInv, OneTaskPerKey
<1>5. c.stage # "inserted" /\ calls' \in Nat /\ calls' >= calls
  BY <1>1, <1>2
<1>6. UNCHANGED <<created, waiting>>
  BY DEF Post
<1> QED BY <1>2, <1>3, <1>4, <1>5, <1>6, QuietCall

LEMMA AnswersKeep ==
    ASSUME CreationInv, NEW v \in Server, AnswerExisting(v) \/ AnswerRepeated(v) \/ AnswerCreated(v)
    PROVE  CreationInv'
<1>1. UNCHANGED <<created, waiting, calls>> /\ call[v].stage # "idle" /\ CallOK(call[v])
  BY DEF AnswerExisting, AnswerRepeated, AnswerCreated, CreationInv
<1>2. ASSUME NEW r \in created, r.key = call[v].row.key, Answer(v, Judged(v, r))
      PROVE  CreationInv'
  BY <1>1, <1>2, JudgedIsRight, RightAnswer
<1>3. CASE AnswerExisting(v)
  BY <1>1, <1>2, <1>3 DEF AnswerExisting, CallOK, OfKey
<1>4. CASE AnswerRepeated(v)
  <2>1. Repeated(v) # {}
    BY <1>1, <1>4 DEF AnswerRepeated, CallOK, Repeated
  <2> QED BY <1>2, <1>4, <2>1 DEF AnswerRepeated, Repeated, OfKey
<1>5. CASE AnswerCreated(v)
  <2>1. call[v].row \in created /\ Answer(v, call[v].row.uuid)
    BY <1>1, <1>5 DEF AnswerCreated, CallOK
  <2>2. Judged(v, call[v].row) = call[v].row.uuid
    BY DEF Judged
  <2> QED BY <1>2, <2>1, <2>2
<1> QED BY <1>3, <1>4, <1>5

LEMMA QuietStepsKeep ==
    ASSUME CreationInv, NEW v \in Server, InsertIsDuplicate(v) \/ CallBreaks(v)
    PROVE  CreationInv'
<1>1. calls' \in Nat /\ calls' >= calls /\ UNCHANGED <<created, waiting, calls, answered>>
  BY DEF InsertIsDuplicate, CallBreaks, CreationInv
<1>2. OneTaskPerKey'
  BY <1>1 DEF CreationInv, OneTaskPerKey
<1>3. CASE InsertIsDuplicate(v)
  <2>1. call[v] \in CallRow /\ CallOK(call[v])
    BY DEF CreationInv
  <2>2. PICK c \in CallRow :
          /\ call' = [call EXCEPT ![v] = c]
          /\ c.stage = "repeats" /\ c.row = call[v].row /\ c.seen = call[v].seen
    BY <1>3, <2>1, Restaged DEF InsertIsDuplicate, Stage
  <2>3. CallOK(c)'
    BY <1>1, <1>3, <2>1, <2>2 DEF InsertIsDuplicate, CallOK, OfKey, Stage
  <2> QED BY <1>1, <1>2, <2>1, <2>2, <2>3, QuietCall
<1>4. CASE CallBreaks(v)
  <2>1. call' = [call EXCEPT ![v] = Idle] /\ Idle.stage # "inserted"
    BY <1>4 DEF CallBreaks, Idle
  <2> QED BY <1>1, <1>2, <2>1, IdleIsOK, QuietCall
<1> QED BY <1>3, <1>4

LEMMA InsertKeeps ==
    ASSUME CreationInv, NEW v \in Server, InsertTask(v)
    PROVE  CreationInv'
<1>1. /\ call[v] \in CallRow /\ CallOK(call[v])
      /\ UNCHANGED <<created, waiting, calls, answered>>
  BY DEF InsertTask, CreationInv
<1>2. PICK c \in CallRow :
        /\ call' = [call EXCEPT ![v] = c]
        /\ c.stage = "inserted" /\ c.row = call[v].row /\ c.seen = call[v].seen
  BY <1>1, Restaged DEF InsertTask, Stage
<1>3. CallOK(c)'
  BY <1>1, <1>2 DEF InsertTask, CallOK, OfKey, Stage
<1>4. ASSUME NEW u \in Server PROVE CallOK(call[u])' /\ call'[u] \in CallRow
  <2>1. CASE u = v
    BY <1>2, <1>3, <2>1 DEF CreationInv
  <2>2. CASE u # v
    BY <1>1, <1>2, <2>2 DEF CreationInv, CallOK, OfKey
  <2> QED BY <2>1, <2>2
<1>5. Exclusive'
  <2>1. \A u \in Server : call[u].stage = "inserted" => call[u].row.key # call[v].row.key
    BY DEF InsertTask, Uncommitted
  <2> QED BY <1>1, <1>2, <2>1 DEF CreationInv, Exclusive
<1>6. call' \in [Server -> CallRow]
  BY <1>1, <1>2 DEF CreationInv
<1> QED BY <1>1, <1>4, <1>5, <1>6 DEF CreationInv, CreatedOK, OneTaskPerKey

LEMMA CommitKeeps ==
    ASSUME CreationInv, NEW v \in Server, CommitTask(v)
    PROVE  CreationInv'
<1>0. PICK row : row = call[v].row
  OBVIOUS
<1>1. /\ call[v] \in CallRow /\ CallOK(call[v])
      /\ created' = created \cup {row} /\ waiting' = waiting \cup {row.uuid}
      /\ UNCHANGED <<calls, answered>>
      /\ call[v].stage = "inserted"
  BY <1>0 DEF CommitTask, CreationInv
<1>2. row \in Row /\ row.uuid \in 1 .. calls /\ OfKey(created, row.key) = {}
  BY <1>0, <1>1 DEF CallOK
<1>3. PICK c \in CallRow :
        /\ call' = [call EXCEPT ![v] = c]
        /\ c.stage = "committed" /\ c.row = row /\ c.seen = call[v].seen
  BY <1>0, <1>1, Restaged DEF CommitTask, Stage
<1>4. CallOK(c)'
  BY <1>0, <1>1, <1>2, <1>3 DEF CallOK, OfKey, Stage
<1>5. ASSUME NEW u \in Server PROVE CallOK(call[u])'
  <2>1. CASE u = v
    BY <1>3, <1>4, <2>1 DEF CreationInv
  <2>2. CASE u # v
    <3>1. call'[u] = call[u] /\ CallOK(call[u])
      BY <1>3, <2>2 DEF CreationInv
    <3>2. call[u].stage = "inserted" => call[u].row.key # row.key
      BY <1>0, <1>1, <2>2 DEF CreationInv, Exclusive
    <3>3. OfKey(created, call[u].row.key) \subseteq OfKey(created', call[u].row.key)
      BY <1>1 DEF OfKey
    <3>4. call[u].row.key # row.key => OfKey(created', call[u].row.key) = OfKey(created, call[u].row.key)
      BY <1>1 DEF OfKey
    <3> QED BY <1>1, <3>1, <3>2, <3>3, <3>4 DEF CallOK, OfKey
  <2> QED BY <2>1, <2>2
<1>6. Exclusive'
  BY <1>1, <1>3 DEF CreationInv, Exclusive
<1>7. OneTaskPerKey'
  <2>1. \A r \in created : r.key # row.key
    BY <1>2 DEF OfKey
  <2>2. \A r, s \in created' : r.key = s.key => r = s
    BY <1>1, <2>1 DEF CreationInv, OneTaskPerKey
  <2> QED BY <1>1, <2>2 DEF CreationInv, OneTaskPerKey
<1>8. CreatedOK' /\ waiting' = {r.uuid : r \in created'}
  BY <1>1, <1>2 DEF CreationInv, CreatedOK
<1>9. call' \in [Server -> CallRow]
  BY <1>1, <1>3 DEF CreationInv
<1> QED BY <1>1, <1>5, <1>6, <1>7, <1>8, <1>9 DEF CreationInv

LEMMA NextKeeps == CreationInv /\ [CreationNext]_creationVars => CreationInv'
<1> SUFFICES ASSUME CreationInv, [CreationNext]_creationVars PROVE CreationInv'
  OBVIOUS
<1>1. CASE UNCHANGED creationVars
  BY <1>1 DEF creationVars, CreationInv, CreatedOK, CallOK, OfKey, Exclusive, OneTaskPerKey
<1>2. CASE CreationNext
  <2>1. PICK v \in Server :
          \/ \E k \in Key, d \in Digest : Post(v, k, d)
          \/ AnswerExisting(v) \/ AnswerRepeated(v) \/ AnswerCreated(v)
          \/ InsertTask(v)
          \/ CommitTask(v)
          \/ InsertIsDuplicate(v) \/ CallBreaks(v)
    BY <1>2 DEF CreationNext
  <2> QED BY <2>1, PostKeeps, AnswersKeep, InsertKeeps, CommitKeeps, QuietStepsKeep
<1> QED BY <1>1, <1>2

(* What the calls of create_task have read, inserted and told stays true   *)
(* of the rows that are committed.                                         *)
THEOREM CreationInvariant == CreationSpecification => []CreationInv
  BY InitEstablishes, NextKeeps, PTL DEF CreationSpecification

(* An idempotency key names one task.  However many calls of create_task   *)
(* overlap, break and are repeated, for any number of keys, no key gets    *)
(* two rows of tasks; a client of the request is told its task, and only a *)
(* client with a different request is told of a conflict.                  *)
THEOREM KeysNameOneTask == CreationSpecification => []OneTaskPerKey
<1>1. CreationInv => OneTaskPerKey
  BY DEF CreationInv
<1> QED BY <1>1, CreationInvariant, PTL

(* Rows of tasks and of their queue agree, and each call of create_task    *)
(* stands where the rows it has read allow.                                *)
THEOREM CreationTypeCorrect == CreationSpecification => []CreationTypeOK
  BY InvImpliesTypeOK, CreationInvariant, PTL

-----------------------------------------------------------------------------
(* What is accepted is served.                                             *)

Fields == {"resolution", "aspect_ratio", "duration", "audio", "image_url", "end_image_url",
           "reference_images", "reference_image_urls", "reference_video_urls",
           "reference_audio_urls", "reference_video_id", "size", "quality", "width", "height",
           "quantity"}

Counts == {"reference_images", "reference_image_urls", "reference_video_urls", "reference_audio_urls"}

Families == {"h3", "seedance", "seedance25", "kling", "gemini", "veo", "gpt", "nano", "seedaudio"}

\* An accepted request, and what is stored of it.
Accepted(r, f, mode, d) ==
    /\ DOMAIN r = DOMAIN NoRequest
    /\ Admitted(r)
    /\ f = FamilyOfModel(r.model)
    /\ mode = ModeOf(r)
    /\ d = Parsed(r, mode)

LEMMA FieldNames ==
    /\ DOMAIN Nothing = Fields
    /\ DOMAIN NoRequest = Fields \cup {"task_type", "model", "mode"}
    /\ DOMAIN Models = Families
  BY DEF Nothing, NoRequest, Fields, Models, Families, Joined

\* A field has the value that was given and admitted, or its default.
LEMMA ValueOfField ==
    ASSUME NEW r, NEW f, NEW mode, NEW d, Accepted(r, f, mode, d), NEW x \in Fields
    PROVE  \/ /\ x \in DOMAIN Form(f, mode)
              /\ d[x] \in Form(f, mode)[x]
           \/ x \in DOMAIN Defaults(f, mode) /\ d[x] = Defaults(f, mode)[x]
           \/ x \notin DOMAIN Defaults(f, mode) /\ d[x] = Nothing[x]
<1>1. x \in DOMAIN r /\ x \in DOMAIN Nothing
  BY FieldNames DEF Accepted
<1>2. d[x] = IF x \in DOMAIN Defaults(f, mode) /\ x \notin Given(r)
             THEN Defaults(f, mode)[x] ELSE r[x]
  BY <1>1 DEF Accepted, Parsed
<1>3. x \in Given(r) => x \in DOMAIN Form(f, mode) /\ r[x] \in Form(f, mode)[x]
  BY DEF Accepted, Admitted
<1>4. x \notin Given(r) => r[x] = Nothing[x]
  BY <1>1 DEF Given
<1> QED
  BY <1>2, <1>3, <1>4

\* The family has the model, and no other has.
LEMMA FamilyHasModel ==
    ASSUME NEW r, NEW f, NEW mode, NEW d, Accepted(r, f, mode, d)
    PROVE  f \in Families /\ r.model \in Models[f]
  BY FieldNames DEF Accepted, Admitted, IsModel, FamilyOfModel

\* References are counted within the limits of the form, and 0 by default.
LEMMA CountsOfForm ==
    ASSUME NEW r, NEW f, NEW mode, NEW d, Accepted(r, f, mode, d), NEW limit,
           \A x \in Counts :
             x \in DOMAIN Form(f, mode) => Form(f, mode)[x] \subseteq 0 .. limit[x],
           \A x \in Counts : limit[x] \in Nat
    PROVE  \A x \in Counts : d[x] \in 0 .. limit[x]
<1>1. SUFFICES ASSUME NEW x \in Counts PROVE d[x] \in 0 .. limit[x]
  OBVIOUS
<1>2. Counts \subseteq Fields
  BY DEF Counts, Fields
<1>3. Nothing[x] = 0
  <2>1. /\ Nothing.reference_images = 0 /\ Nothing.reference_image_urls = 0
        /\ Nothing.reference_video_urls = 0 /\ Nothing.reference_audio_urls = 0
    BY DEF Nothing
  <2> QED
    BY <1>1, <2>1 DEF Counts
<1>4. f \in Families
  BY FamilyHasModel
<1>5. x \notin DOMAIN Defaults(f, mode)
  BY <1>1, <1>4 DEF Families, Counts, Defaults
<1> QED
  BY <1>1, <1>2, <1>3, <1>5, ValueOfField

\* What a worker resolves.
LEMMA SpecsOfMode ==
    ASSUME NEW mode, NEW d
    PROVE  LET a == MediaSpecs(mode, d) IN
           /\ mode = "image-to-video" => a.start
           /\ mode \in {"reference-to-video", "image-to-image"} =>
                /\ a.images = IF d.reference_images > 0 THEN d.reference_images
                              ELSE d.reference_image_urls
                /\ a.videos = d.reference_video_urls
                /\ a.audios = d.reference_audio_urls
           /\ mode \notin {"reference-to-video", "image-to-image"} =>
                a.images = 0 /\ a.videos = 0 /\ a.audios = 0
  BY DEF MediaSpecs

-----------------------------------------------------------------------------
(* Seedance.                                                               *)

LEMMA SeedanceForm ==
    ASSUME NEW mode \in Modes("seedance")
    PROVE  LET form == Form("seedance", mode) IN
           /\ form.duration = 4 .. 15 /\ form.aspect_ratio = Wide
           /\ "reference_images" \notin DOMAIN form
           /\ mode = "reference-to-video" =>
                /\ form.reference_image_urls = 1 .. 4
                /\ form.reference_video_urls = 1 .. 3
                /\ form.reference_audio_urls = {1}
           /\ Defaults("seedance", mode) =
                [duration |-> 4, resolution |-> "480P", aspect_ratio |-> "16:9"]
  BY DEF Form, Defaults, Modes, Basics, References, StartFrames, Joined

LEMMA SeedanceIsServed ==
    ASSUME NEW r, NEW mode, NEW d, Accepted(r, "seedance", mode, d)
    PROVE  IsPriced(r.model, d) /\ IsBuilt(r.model, mode, d)
<1> DEFINE m == r.model
           form == Form("seedance", mode)
           defaults == Defaults("seedance", mode)
           limit == [reference_images |-> 0, reference_image_urls |-> 4,
                     reference_video_urls |-> 3, reference_audio_urls |-> 1]
<1>1. /\ mode \in Modes("seedance") /\ FamilyOfModel(m) = "seedance"
      /\ Consistent("seedance", mode, d) /\ d.resolution \in Tiers[m]
      /\ m \in {"seedance-2.0-mini", "seedance-2.0", "seedance-2.0-fast"}
  BY FamilyHasModel DEF Accepted, Admitted, Models
<1>2. ASSUME NEW x \in Fields
      PROVE  \/ x \in DOMAIN form /\ d[x] \in form[x]
             \/ x \in DOMAIN defaults /\ d[x] = defaults[x]
             \/ x \notin DOMAIN defaults /\ d[x] = Nothing[x]
  BY <1>2, ValueOfField
<1>3. d.duration \in 4 .. 15 /\ d.aspect_ratio \in Wide
  BY <1>1, <1>2, SeedanceForm DEF Fields, Wide
<1>4. ASSUME mode = "reference-to-video" PROVE \A x \in Counts : d[x] \in 0 .. limit[x]
  <2>1. \A x \in Counts : limit[x] \in Nat
    BY DEF Counts
  <2>2. \A x \in Counts : x \in DOMAIN form => form[x] \subseteq 0 .. limit[x]
    BY <1>1, <1>4, SeedanceForm DEF Counts
  <2> HIDE DEF limit
  <2> QED
    BY <2>1, <2>2, CountsOfForm
<1>5. IsPriced(m, d)
  BY <1>1, <1>3 DEF IsPriced
<1>6. BuildsSeedance(m, mode, d, MediaSpecs(mode, d))
  <2> DEFINE a == MediaSpecs(mode, d)
  <2>1. mode = "image-to-video" => a.start
    BY SpecsOfMode
  <2>2. ASSUME mode = "reference-to-video"
        PROVE  a.images \in 0 .. 4 /\ a.videos \in 0 .. 3 /\ a.audios \in 0 .. 1
               /\ (a.images > 0 \/ a.videos > 0)
    <3>1. /\ d.reference_images = 0 /\ d.reference_image_urls \in 0 .. 4
          /\ d.reference_video_urls \in 0 .. 3 /\ d.reference_audio_urls \in 0 .. 1
      BY <1>4, <2>2 DEF Counts
    <3>2. a.images = d.reference_image_urls /\ a.videos = d.reference_video_urls
          /\ a.audios = d.reference_audio_urls
      BY <2>2, <3>1, SpecsOfMode
    <3>3. d.reference_images + d.reference_image_urls + d.reference_video_urls > 0
      BY <1>1, <2>2 DEF Consistent
    <3> QED
      BY <3>1, <3>2, <3>3
  <2>3. m \notin Models.seedance25
    BY <1>1 DEF Models
  <2>4. mode = "reference-to-video" => a.images <= 4 /\ a.videos <= 3 /\ a.audios <= 1
    BY <2>2
  <2> HIDE DEF a
  <2>5. BuildsSeedance(m, mode, d, a)
    BY <1>1, <1>3, <2>1, <2>2, <2>3, <2>4 DEF BuildsSeedance
  <2> QED
    BY <2>5 DEF a
<1>7. IsBuilt(m, mode, d)
  BY <1>1, <1>6 DEF IsBuilt, SchemaVersion, TypedVersions, Models
<1> QED
  BY <1>5, <1>7
-----------------------------------------------------------------------------
(* Seedance 2.5.                                                           *)

LEMMA RecentForm ==
    ASSUME NEW mode \in Modes("seedance25")
    PROVE  LET form == Form("seedance25", mode) IN
           /\ form.duration = 4 .. 30 /\ form.aspect_ratio = Wide /\ form.resolution = {"480P", "720P"}
           /\ mode = "reference-to-video" =>
                /\ form.reference_images = 1 .. 30 /\ form.reference_image_urls = 1 .. 30
                /\ form.reference_video_urls = 1 .. 10 /\ form.reference_audio_urls = 1 .. 10
           /\ Defaults("seedance25", mode) =
                [duration |-> 8, resolution |-> "720P", aspect_ratio |-> "16:9", audio |-> "on"]
  BY DEF Form, Defaults, Modes, Basics, References, StartFrames, Joined

LEMMA RecentIsServed ==
    ASSUME NEW r, NEW mode, NEW d, Accepted(r, "seedance25", mode, d)
    PROVE  IsPriced(r.model, d) /\ IsBuilt(r.model, mode, d)
<1> DEFINE m == r.model
           form == Form("seedance25", mode)
           defaults == Defaults("seedance25", mode)
           limit == [reference_images |-> 30, reference_image_urls |-> 30,
                     reference_video_urls |-> 10, reference_audio_urls |-> 10]
<1>1. /\ mode \in Modes("seedance25") /\ FamilyOfModel(m) = "seedance25"
      /\ Consistent("seedance25", mode, d)
      /\ m \in {"bytedance/seedance-2.5"}
  BY FamilyHasModel DEF Accepted, Admitted, Models
<1>2. ASSUME NEW x \in Fields
      PROVE  \/ x \in DOMAIN form /\ d[x] \in form[x]
             \/ x \in DOMAIN defaults /\ d[x] = defaults[x]
             \/ x \notin DOMAIN defaults /\ d[x] = Nothing[x]
  BY <1>2, ValueOfField
<1>3. d.duration \in 4 .. 30 /\ d.aspect_ratio \in Wide /\ d.resolution \in Tiers[m]
  <2>1. d.duration \in 4 .. 30 /\ d.aspect_ratio \in Wide
    BY <1>1, <1>2, RecentForm DEF Fields, Wide
  <2>2. d.resolution \in {"480P", "720P"}
    BY <1>1, <1>2, RecentForm DEF Fields
  <2>3. Tiers[m] = {"480P", "720P"}
    BY <1>1 DEF Tiers, Models
  <2> QED
    BY <2>1, <2>2, <2>3
<1>4. ASSUME mode = "reference-to-video" PROVE \A x \in Counts : d[x] \in 0 .. limit[x]
  <2>1. \A x \in Counts : limit[x] \in Nat
    BY DEF Counts
  <2>2. \A x \in Counts : x \in DOMAIN form => form[x] \subseteq 0 .. limit[x]
    BY <1>1, <1>4, RecentForm DEF Counts
  <2> HIDE DEF limit
  <2> QED
    BY <2>1, <2>2, CountsOfForm
<1>5. IsPriced(m, d)
  BY <1>1, <1>3 DEF IsPriced
<1>6. BuildsSeedance(m, mode, d, MediaSpecs(mode, d))
  <2> DEFINE a == MediaSpecs(mode, d)
  <2>1. mode = "image-to-video" => a.start
    BY SpecsOfMode
  <2>2. ASSUME mode = "reference-to-video"
        PROVE  a.images \in 0 .. 30 /\ a.videos \in 0 .. 10 /\ a.audios \in 0 .. 10
               /\ (a.images > 0 \/ a.videos > 0)
    <3>1. /\ d.reference_images \in 0 .. 30 /\ d.reference_image_urls \in 0 .. 30
          /\ d.reference_video_urls \in 0 .. 10 /\ d.reference_audio_urls \in 0 .. 10
      BY <1>4, <2>2 DEF Counts
    <3>2. /\ a.images = IF d.reference_images > 0 THEN d.reference_images ELSE d.reference_image_urls
          /\ a.videos = d.reference_video_urls /\ a.audios = d.reference_audio_urls
      BY <2>2, SpecsOfMode
    <3>3. d.reference_images + d.reference_image_urls + d.reference_video_urls > 0
      BY <1>1, <2>2 DEF Consistent
    <3> HIDE DEF a
    <3> QED
      BY <3>1, <3>2, <3>3
  <2>3. m \in Models.seedance25
    BY <1>1 DEF Models
  <2>4. mode = "reference-to-video" => a.images <= 30 /\ a.videos <= 10 /\ a.audios <= 10
    BY <2>2
  <2> HIDE DEF a
  <2>5. BuildsSeedance(m, mode, d, a)
    BY <1>1, <1>3, <2>1, <2>2, <2>3, <2>4 DEF BuildsSeedance
  <2> QED
    BY <2>5 DEF a
<1>7. IsBuilt(m, mode, d)
  BY <1>1, <1>6 DEF IsBuilt, SchemaVersion, TypedVersions, Models
<1> QED
  BY <1>5, <1>7

-----------------------------------------------------------------------------
(* Kling.                                                                  *)

LEMMA KlingForm ==
    ASSUME NEW mode \in Modes("kling")
    PROVE  LET form == Form("kling", mode) IN
           /\ form.duration = 3 .. 15 /\ form.resolution = {"720P", "1080P", "4K"}
           /\ form.aspect_ratio = Screen \cup {"1:1"} /\ form.audio = {"on", "off"}
           /\ "reference_images" \notin DOMAIN form
           /\ "reference_video_urls" \notin DOMAIN form /\ "reference_audio_urls" \notin DOMAIN form
           /\ mode = "reference-to-video" => form.reference_image_urls = 1 .. 7
           /\ Defaults("kling", mode) =
                [duration |-> 3, resolution |-> "1080P", aspect_ratio |-> "16:9", audio |-> "on"]
  BY DEF Form, Defaults, Modes, Basics, References, StartFrames, Joined

LEMMA KlingIsServed ==
    ASSUME NEW r, NEW mode, NEW d, Accepted(r, "kling", mode, d)
    PROVE  IsPriced(r.model, d) /\ IsBuilt(r.model, mode, d)
<1> DEFINE m == r.model
           form == Form("kling", mode)
           defaults == Defaults("kling", mode)
           limit == [reference_images |-> 0, reference_image_urls |-> 7,
                     reference_video_urls |-> 0, reference_audio_urls |-> 0]
<1>1. /\ mode \in Modes("kling") /\ FamilyOfModel(m) = "kling"
      /\ Consistent("kling", mode, d)
      /\ m \in {"kling-video-o-3"}
  BY FamilyHasModel DEF Accepted, Admitted, Models
<1>2. ASSUME NEW x \in Fields
      PROVE  \/ x \in DOMAIN form /\ d[x] \in form[x]
             \/ x \in DOMAIN defaults /\ d[x] = defaults[x]
             \/ x \notin DOMAIN defaults /\ d[x] = Nothing[x]
  BY <1>2, ValueOfField
<1>3. /\ d.duration \in 3 .. 15 /\ d.resolution \in {"720P", "1080P", "4K"}
      /\ d.aspect_ratio \in Screen \cup {"1:1"} /\ d.audio \in {"on", "off"}
  <2>1. d.duration \in 3 .. 15
    BY <1>1, <1>2, KlingForm DEF Fields
  <2>2. d.resolution \in {"720P", "1080P", "4K"}
    BY <1>1, <1>2, KlingForm DEF Fields
  <2>3. d.aspect_ratio \in Screen \cup {"1:1"}
    BY <1>1, <1>2, KlingForm DEF Fields, Screen
  <2>4. d.audio \in {"on", "off"}
    BY <1>1, <1>2, KlingForm DEF Fields
  <2> QED
    BY <2>1, <2>2, <2>3, <2>4
<1>4. ASSUME mode = "reference-to-video" PROVE \A x \in Counts : d[x] \in 0 .. limit[x]
  <2>1. \A x \in Counts : limit[x] \in Nat
    BY DEF Counts
  <2>2. \A x \in Counts : x \in DOMAIN form => form[x] \subseteq 0 .. limit[x]
    BY <1>1, <1>4, KlingForm DEF Counts
  <2> HIDE DEF limit
  <2> QED
    BY <2>1, <2>2, CountsOfForm
<1>5. IsPriced(m, d)
  BY <1>1, <1>3 DEF IsPriced
<1>6. BuildsKling(mode, d, MediaSpecs(mode, d))
  <2> DEFINE a == MediaSpecs(mode, d)
  <2>1. mode = "image-to-video" => a.start
    BY SpecsOfMode
  <2>2. ASSUME mode = "reference-to-video"
        PROVE  /\ a.images > 0 \/ d.reference_video_id
               /\ ~(d.resolution = "4K" /\ a.images > 0)
               /\ a.images <= (IF d.reference_video_id THEN 4 ELSE 7)
    <3>1. d.reference_images = 0 /\ d.reference_image_urls \in 0 .. 7
      BY <1>4, <2>2 DEF Counts
    <3>2. a.images = d.reference_image_urls
      BY <2>2, <3>1, SpecsOfMode
    <3>3. /\ a.images > 0 \/ d.reference_video_id
          /\ d.reference_video_id => a.images <= 4
          /\ a.images > 0 => d.resolution # "4K"
      BY <1>1, <2>2, <3>1, <3>2 DEF Consistent
    <3> HIDE DEF a
    <3> QED
      BY <3>1, <3>2, <3>3
  <2> HIDE DEF a
  <2>3. BuildsKling(mode, d, a)
    BY <1>3, <2>1, <2>2 DEF BuildsKling
  <2> QED
    BY <2>3 DEF a
<1>7. IsBuilt(m, mode, d)
  BY <1>1, <1>6 DEF IsBuilt, SchemaVersion, TypedVersions, Models
<1> QED
  BY <1>5, <1>7

-----------------------------------------------------------------------------
(* Gemini Omni.                                                            *)

LEMMA GeminiForm ==
    ASSUME NEW mode \in Modes("gemini")
    PROVE  LET form == Form("gemini", mode) IN
           /\ form.duration = 3 .. 10 /\ form.resolution = {"720P"} /\ form.aspect_ratio = Screen
           /\ "reference_images" \notin DOMAIN form
           /\ "reference_video_urls" \notin DOMAIN form /\ "reference_audio_urls" \notin DOMAIN form
           /\ mode = "reference-to-video" => form.reference_image_urls = 1 .. 5
           /\ Defaults("gemini", mode) =
                [duration |-> 5, resolution |-> "720P", aspect_ratio |-> "16:9"]
  BY DEF Form, Defaults, Modes, Basics, References, StartFrames, Joined

LEMMA GeminiIsServed ==
    ASSUME NEW r, NEW mode, NEW d, Accepted(r, "gemini", mode, d)
    PROVE  IsPriced(r.model, d) /\ IsBuilt(r.model, mode, d)
<1> DEFINE m == r.model
           form == Form("gemini", mode)
           defaults == Defaults("gemini", mode)
           limit == [reference_images |-> 0, reference_image_urls |-> 5,
                     reference_video_urls |-> 0, reference_audio_urls |-> 0]
<1>1. /\ mode \in Modes("gemini") /\ FamilyOfModel(m) = "gemini"
      /\ Consistent("gemini", mode, d)
      /\ m \in {"gemini-omni-flash"}
  BY FamilyHasModel DEF Accepted, Admitted, Models
<1>2. ASSUME NEW x \in Fields
      PROVE  \/ x \in DOMAIN form /\ d[x] \in form[x]
             \/ x \in DOMAIN defaults /\ d[x] = defaults[x]
             \/ x \notin DOMAIN defaults /\ d[x] = Nothing[x]
  BY <1>2, ValueOfField
<1>3. d.duration \in 3 .. 10 /\ d.resolution = "720P" /\ d.aspect_ratio \in Screen
  BY <1>1, <1>2, GeminiForm DEF Fields, Screen
<1>4. ASSUME mode = "reference-to-video" PROVE \A x \in Counts : d[x] \in 0 .. limit[x]
  <2>1. \A x \in Counts : limit[x] \in Nat
    BY DEF Counts
  <2>2. \A x \in Counts : x \in DOMAIN form => form[x] \subseteq 0 .. limit[x]
    BY <1>1, <1>4, GeminiForm DEF Counts
  <2> HIDE DEF limit
  <2> QED
    BY <2>1, <2>2, CountsOfForm
<1>5. IsPriced(m, d)
  BY <1>1, <1>3 DEF IsPriced
<1>6. BuildsGemini(mode, d, MediaSpecs(mode, d))
  <2> DEFINE a == MediaSpecs(mode, d)
  <2>1. mode \in {"text-to-video", "reference-to-video"}
    BY <1>1 DEF Modes
  <2>2. ASSUME mode = "reference-to-video" PROVE a.images \in 1 .. 5
    <3>1. d.reference_images = 0 /\ d.reference_image_urls \in 0 .. 5
      BY <1>4, <2>2 DEF Counts
    <3>2. a.images = d.reference_image_urls
      BY <2>2, <3>1, SpecsOfMode
    <3>3. d.reference_images + d.reference_image_urls > 0
      BY <1>1, <2>2 DEF Consistent
    <3> HIDE DEF a
    <3> QED
      BY <3>1, <3>2, <3>3
  <2> HIDE DEF a
  <2>3. BuildsGemini(mode, d, a)
    BY <1>3, <2>1, <2>2 DEF BuildsGemini
  <2> QED
    BY <2>3 DEF a
<1>7. IsBuilt(m, mode, d)
  BY <1>1, <1>6 DEF IsBuilt, SchemaVersion, TypedVersions, Models
<1> QED
  BY <1>5, <1>7

-----------------------------------------------------------------------------
(* Veo.                                                                    *)

LEMMA VeoForm ==
    ASSUME NEW mode \in Modes("veo")
    PROVE  LET form == Form("veo", mode) IN
           /\ form.duration = {4, 6, 8} /\ form.aspect_ratio = Screen /\ form.audio = {"on", "off"}
           /\ "reference_images" \notin DOMAIN form
           /\ "reference_video_urls" \notin DOMAIN form /\ "reference_audio_urls" \notin DOMAIN form
           /\ mode = "reference-to-video" => form.reference_image_urls = 1 .. 3
           /\ Defaults("veo", mode) =
                [duration |-> 8, resolution |-> "720P", aspect_ratio |-> "16:9", audio |-> "on"]
  BY DEF Form, Defaults, Modes, Basics, References, StartFrames, Joined

LEMMA VeoIsServed ==
    ASSUME NEW r, NEW mode, NEW d, Accepted(r, "veo", mode, d)
    PROVE  IsPriced(r.model, d) /\ IsBuilt(r.model, mode, d)
<1> DEFINE m == r.model
           form == Form("veo", mode)
           defaults == Defaults("veo", mode)
           limit == [reference_images |-> 0, reference_image_urls |-> 3,
                     reference_video_urls |-> 0, reference_audio_urls |-> 0]
<1>1. /\ mode \in Modes("veo") /\ FamilyOfModel(m) = "veo"
      /\ Consistent("veo", mode, d)
      /\ d.resolution \in Tiers[m] /\ mode \in VeoModes(m)
      /\ m \in {"veo-3.1-generate-001", "veo-3.1-fast-generate-001", "veo-3.1-lite"}
  BY FamilyHasModel DEF Accepted, Admitted, Models
<1>2. ASSUME NEW x \in Fields
      PROVE  \/ x \in DOMAIN form /\ d[x] \in form[x]
             \/ x \in DOMAIN defaults /\ d[x] = defaults[x]
             \/ x \notin DOMAIN defaults /\ d[x] = Nothing[x]
  BY <1>2, ValueOfField
<1>3. d.duration \in {4, 6, 8} /\ d.aspect_ratio \in Screen /\ d.audio \in {"on", "off"}
  <2>1. d.duration \in {4, 6, 8}
    BY <1>1, <1>2, VeoForm DEF Fields
  <2>2. d.aspect_ratio \in Screen
    BY <1>1, <1>2, VeoForm DEF Fields, Screen
  <2>3. d.audio \in {"on", "off"}
    BY <1>1, <1>2, VeoForm DEF Fields
  <2> QED
    BY <2>1, <2>2, <2>3
<1>4. ASSUME mode = "reference-to-video" PROVE \A x \in Counts : d[x] \in 0 .. limit[x]
  <2>1. \A x \in Counts : limit[x] \in Nat
    BY DEF Counts
  <2>2. \A x \in Counts : x \in DOMAIN form => form[x] \subseteq 0 .. limit[x]
    BY <1>1, <1>4, VeoForm DEF Counts
  <2> HIDE DEF limit
  <2> QED
    BY <2>1, <2>2, CountsOfForm
<1>5. IsPriced(m, d)
  BY <1>1, <1>3 DEF IsPriced
<1>6. BuildsVeo(m, mode, d, MediaSpecs(mode, d))
  <2> DEFINE a == MediaSpecs(mode, d)
  <2>1. mode = "image-to-video" => a.start
    BY SpecsOfMode
  <2>2. ASSUME mode = "reference-to-video" PROVE a.images \in 1 .. 3
    <3>1. d.reference_images = 0 /\ d.reference_image_urls \in 0 .. 3
      BY <1>4, <2>2 DEF Counts
    <3>2. a.images = d.reference_image_urls
      BY <2>2, <3>1, SpecsOfMode
    <3>3. d.reference_images + d.reference_image_urls > 0
      BY <1>1, <2>2 DEF Consistent
    <3> HIDE DEF a
    <3> QED
      BY <3>1, <3>2, <3>3
  <2> HIDE DEF a
  <2>3. BuildsVeo(m, mode, d, a)
    BY <1>1, <1>3, <2>1, <2>2 DEF BuildsVeo
  <2> QED
    BY <2>3 DEF a
<1>7. IsBuilt(m, mode, d)
  BY <1>1, <1>6 DEF IsBuilt, SchemaVersion, TypedVersions, Models
<1> QED
  BY <1>5, <1>7

-----------------------------------------------------------------------------
(* GPT Image.                                                              *)

LEMMA GptForm ==
    ASSUME NEW mode \in Modes("gpt")
    PROVE  LET form == Form("gpt", mode) IN
           /\ form.quality = Qualities /\ form.aspect_ratio = Pictures /\ form.size = Sizes
           /\ "reference_images" \notin DOMAIN form
           /\ "reference_video_urls" \notin DOMAIN form /\ "reference_audio_urls" \notin DOMAIN form
           /\ mode = "image-to-image" => form.reference_image_urls = 1 .. 6
           /\ Defaults("gpt", mode) =
                [quality |-> "MEDIUM", aspect_ratio |-> "1:1", size |-> "SMALL", resolution |-> "matching"]
  BY DEF Form, Defaults, Modes, Basics, References, StartFrames, Joined

LEMMA GptIsServed ==
    ASSUME NEW r, NEW mode, NEW d, Accepted(r, "gpt", mode, d)
    PROVE  IsPriced(r.model, d) /\ IsBuilt(r.model, mode, d)
<1> DEFINE m == r.model
           form == Form("gpt", mode)
           defaults == Defaults("gpt", mode)
           limit == [reference_images |-> 0, reference_image_urls |-> 6,
                     reference_video_urls |-> 0, reference_audio_urls |-> 0]
<1>1. /\ mode \in Modes("gpt") /\ FamilyOfModel(m) = "gpt"
      /\ Consistent("gpt", mode, d)
      /\ m \in {"gpt-image-2"}
  BY FamilyHasModel DEF Accepted, Admitted, Models
<1>2. ASSUME NEW x \in Fields
      PROVE  \/ x \in DOMAIN form /\ d[x] \in form[x]
             \/ x \in DOMAIN defaults /\ d[x] = defaults[x]
             \/ x \notin DOMAIN defaults /\ d[x] = Nothing[x]
  BY <1>2, ValueOfField
<1>3. d.quality \in Qualities /\ d.aspect_ratio \in Pictures /\ d.size \in Sizes
  <2>1. d.quality \in Qualities
    BY <1>1, <1>2, GptForm DEF Fields, Qualities
  <2>2. d.aspect_ratio \in Pictures
    BY <1>1, <1>2, GptForm DEF Fields, Pictures, Wide
  <2>3. d.size \in Sizes
    BY <1>1, <1>2, GptForm DEF Fields, Sizes
  <2> QED
    BY <2>1, <2>2, <2>3
<1>4. ASSUME mode = "image-to-image" PROVE \A x \in Counts : d[x] \in 0 .. limit[x]
  <2>1. \A x \in Counts : limit[x] \in Nat
    BY DEF Counts
  <2>2. \A x \in Counts : x \in DOMAIN form => form[x] \subseteq 0 .. limit[x]
    BY <1>1, <1>4, GptForm DEF Counts
  <2> HIDE DEF limit
  <2> QED
    BY <2>1, <2>2, CountsOfForm
<1>5. IsPriced(m, d)
  BY <1>1, <1>3 DEF IsPriced
<1>6. BuildsImage("gpt", mode, d, MediaSpecs(mode, d))
  <2> DEFINE a == MediaSpecs(mode, d)
  <2>1. mode \in {"text-to-image", "image-to-image"}
    BY <1>1 DEF Modes
  <2>2. (d.width <=> d.height) /\ (d.width \/ d.resolution = "matching")
    BY <1>1 DEF Consistent
  <2>3. ASSUME mode = "image-to-image" PROVE a.images \in 1 .. 6 /\ a.videos = 0
    <3>1. d.reference_images = 0 /\ d.reference_image_urls \in 0 .. 6 /\ d.reference_video_urls = 0
      BY <1>4, <2>3 DEF Counts
    <3>2. a.images = d.reference_image_urls /\ a.videos = 0
      BY <2>3, <3>1, SpecsOfMode
    <3>3. d.reference_images + d.reference_image_urls > 0
      BY <1>1, <2>3 DEF Consistent
    <3> HIDE DEF a
    <3> QED
      BY <3>1, <3>2, <3>3
  <2>4. mode = "text-to-image" => a.images = 0 /\ a.videos = 0
    BY SpecsOfMode
  <2> HIDE DEF a
  <2>5. BuildsImage("gpt", mode, d, a)
    BY <1>3, <2>1, <2>2, <2>3, <2>4 DEF BuildsImage
  <2> QED
    BY <2>5 DEF a
<1>7. IsBuilt(m, mode, d)
  BY <1>1, <1>6 DEF IsBuilt, SchemaVersion, TypedVersions, Models
<1> QED
  BY <1>5, <1>7

-----------------------------------------------------------------------------
(* Nano images.                                                            *)

LEMMA NanoForm ==
    ASSUME NEW mode \in Modes("nano")
    PROVE  LET form == Form("nano", mode) IN
           /\ form.aspect_ratio = Pictures /\ form.size = Sizes
           /\ "reference_images" \notin DOMAIN form
           /\ "reference_video_urls" \notin DOMAIN form /\ "reference_audio_urls" \notin DOMAIN form
           /\ mode = "image-to-image" => form.reference_image_urls = 1 .. 6
           /\ Defaults("nano", mode) =
                [aspect_ratio |-> "1:1", size |-> "SMALL", resolution |-> "matching"]
  BY DEF Form, Defaults, Modes, Basics, References, StartFrames, Joined

LEMMA NanoIsServed ==
    ASSUME NEW r, NEW mode, NEW d, Accepted(r, "nano", mode, d)
    PROVE  IsPriced(r.model, d) /\ IsBuilt(r.model, mode, d)
<1> DEFINE m == r.model
           form == Form("nano", mode)
           defaults == Defaults("nano", mode)
           limit == [reference_images |-> 0, reference_image_urls |-> 6,
                     reference_video_urls |-> 0, reference_audio_urls |-> 0]
<1>1. /\ mode \in Modes("nano") /\ FamilyOfModel(m) = "nano"
      /\ Consistent("nano", mode, d)
      /\ m \in {"nano-banana-2", "nano-banana-pro"}
  BY FamilyHasModel DEF Accepted, Admitted, Models
<1>2. ASSUME NEW x \in Fields
      PROVE  \/ x \in DOMAIN form /\ d[x] \in form[x]
             \/ x \in DOMAIN defaults /\ d[x] = defaults[x]
             \/ x \notin DOMAIN defaults /\ d[x] = Nothing[x]
  BY <1>2, ValueOfField
<1>3. d.aspect_ratio \in Pictures /\ d.size \in Sizes
  <2>1. d.aspect_ratio \in Pictures
    BY <1>1, <1>2, NanoForm DEF Fields, Pictures, Wide
  <2>2. d.size \in Sizes
    BY <1>1, <1>2, NanoForm DEF Fields, Sizes
  <2> QED
    BY <2>1, <2>2
<1>4. ASSUME mode = "image-to-image" PROVE \A x \in Counts : d[x] \in 0 .. limit[x]
  <2>1. \A x \in Counts : limit[x] \in Nat
    BY DEF Counts
  <2>2. \A x \in Counts : x \in DOMAIN form => form[x] \subseteq 0 .. limit[x]
    BY <1>1, <1>4, NanoForm DEF Counts
  <2> HIDE DEF limit
  <2> QED
    BY <2>1, <2>2, CountsOfForm
<1>5. IsPriced(m, d)
  BY <1>1, <1>3 DEF IsPriced
<1>6. BuildsImage("nano", mode, d, MediaSpecs(mode, d))
  <2> DEFINE a == MediaSpecs(mode, d)
  <2>1. mode \in {"text-to-image", "image-to-image"}
    BY <1>1 DEF Modes
  <2>2. (d.width <=> d.height) /\ (d.width \/ d.resolution = "matching")
    BY <1>1 DEF Consistent
  <2>3. ASSUME mode = "image-to-image" PROVE a.images \in 1 .. 6 /\ a.videos = 0
    <3>1. d.reference_images = 0 /\ d.reference_image_urls \in 0 .. 6 /\ d.reference_video_urls = 0
      BY <1>4, <2>3 DEF Counts
    <3>2. a.images = d.reference_image_urls /\ a.videos = 0
      BY <2>3, <3>1, SpecsOfMode
    <3>3. d.reference_images + d.reference_image_urls > 0
      BY <1>1, <2>3 DEF Consistent
    <3> HIDE DEF a
    <3> QED
      BY <3>1, <3>2, <3>3
  <2>4. mode = "text-to-image" => a.images = 0 /\ a.videos = 0
    BY SpecsOfMode
  <2> HIDE DEF a
  <2>5. BuildsImage("nano", mode, d, a)
    BY <1>3, <2>1, <2>2, <2>3, <2>4 DEF BuildsImage
  <2> QED
    BY <2>5 DEF a
<1>7. IsBuilt(m, mode, d)
  BY <1>1, <1>6 DEF IsBuilt, SchemaVersion, TypedVersions, Models
<1> QED
  BY <1>5, <1>7

-----------------------------------------------------------------------------
(* Seed Audio.                                                             *)

LEMMA AudioForm ==
    ASSUME NEW mode \in Modes("seedaudio")
    PROVE  LET form == Form("seedaudio", mode) IN
           /\ form.quantity = 1 .. 4
           /\ Defaults("seedaudio", mode) =
                [quantity |-> 1]
  BY DEF Form, Defaults, Modes, Basics, References, StartFrames, Joined

LEMMA AudioIsServed ==
    ASSUME NEW r, NEW mode, NEW d, Accepted(r, "seedaudio", mode, d)
    PROVE  IsPriced(r.model, d) /\ IsBuilt(r.model, mode, d)
<1> DEFINE m == r.model
           form == Form("seedaudio", mode)
           defaults == Defaults("seedaudio", mode)
<1>1. /\ mode \in Modes("seedaudio") /\ FamilyOfModel(m) = "seedaudio"
      /\ Consistent("seedaudio", mode, d)
      /\ m \in {"seed-audio-1.0"}
  BY FamilyHasModel DEF Accepted, Admitted, Models
<1>2. ASSUME NEW x \in Fields
      PROVE  \/ x \in DOMAIN form /\ d[x] \in form[x]
             \/ x \in DOMAIN defaults /\ d[x] = defaults[x]
             \/ x \notin DOMAIN defaults /\ d[x] = Nothing[x]
  BY <1>2, ValueOfField
<1>3. d.quantity \in 1 .. 4
  BY <1>1, <1>2, AudioForm DEF Fields
<1>5. IsPriced(m, d)
  BY <1>1, <1>3 DEF IsPriced
<1>6. mode = "text-to-speech"
  BY <1>1 DEF Modes
<1>7. IsBuilt(m, mode, d)
  BY <1>1, <1>6 DEF IsBuilt, SchemaVersion, TypedVersions, Models
<1> QED
  BY <1>5, <1>7

-----------------------------------------------------------------------------
(* Hailuo.                                                                 *)

LEMMA H3Form ==
    ASSUME NEW mode \in Modes("h3")
    PROVE  LET form == Form("h3", mode) IN
           /\ form.duration = 5 .. 15 /\ form.resolution = {"768P", "2K"}
           /\ "reference_images" \notin DOMAIN form
           /\ mode = "text-to-video" => form.aspect_ratio = Wide
           /\ mode = "reference-to-video" =>
                /\ form.aspect_ratio = Wide \cup {"adaptive"}
                /\ form.reference_image_urls = 1 .. 9
                /\ form.reference_video_urls = 1 .. 3 /\ form.reference_audio_urls = 1 .. 3
           /\ mode # "reference-to-video" => Counts \cap DOMAIN form = {}
<1>1. mode \in {"text-to-video", "image-to-video", "reference-to-video"}
  BY DEF Modes
<1>2. Basics("h3") = [duration |-> 5 .. 15, resolution |-> {"768P", "2K"}]
  BY DEF Basics
<1>3. CASE mode = "text-to-video"
  <2>1. Form("h3", mode) = Joined([aspect_ratio |-> Wide], Basics("h3"))
    BY <1>3 DEF Form
  <2> QED
    BY <1>2, <1>3, <2>1 DEF Joined, Counts
<1>4. CASE mode = "image-to-video"
  <2>1. Form("h3", mode) = Joined(Basics("h3"), StartFrames)
    BY <1>4 DEF Form
  <2> QED
    BY <1>2, <1>4, <2>1 DEF Joined, StartFrames, Counts
<1>5. CASE mode = "reference-to-video"
  <2>1. Form("h3", mode) = Joined(References("h3"), Basics("h3"))
    BY <1>5 DEF Form
  <2> QED
    BY <1>2, <1>5, <2>1 DEF Joined, References, Counts
<1> QED
  BY <1>1, <1>3, <1>4, <1>5

LEMMA H3Defaults ==
    ASSUME NEW mode \in Modes("h3")
    PROVE  LET defaults == Defaults("h3", mode) IN
           /\ DOMAIN defaults = {"duration", "resolution", "aspect_ratio"}
           /\ defaults.duration = 5 /\ defaults.resolution = "2K"
           /\ mode = "text-to-video" => defaults.aspect_ratio = "16:9"
           /\ mode = "reference-to-video" => defaults.aspect_ratio = "adaptive"
  BY DEF Defaults

\* Of what is accepted, all is served but what the provider is not asked for.
LEMMA H3IsServed ==
    ASSUME NEW r, NEW mode, NEW d, Accepted(r, "h3", mode, d)
    PROVE  /\ r.model = "hailuo-03"
           /\ IsPriced(r.model, d) /\ IsBuilt(r.model, mode, d) <=> ~ BeyondH3(d)
<1> DEFINE m == r.model
           a == MediaSpecs(mode, d)
           form == Form("h3", mode)
           defaults == Defaults("h3", mode)
           reference == mode = "reference-to-video"
           limit == [reference_images |-> 0, reference_image_urls |-> IF reference THEN 9 ELSE 0,
                     reference_video_urls |-> IF reference THEN 3 ELSE 0,
                     reference_audio_urls |-> IF reference THEN 3 ELSE 0]
<1>1. /\ mode \in Modes("h3") /\ FamilyOfModel(m) = "h3"
      /\ m = "hailuo-03"
  BY FamilyHasModel DEF Accepted, Admitted, Models
<1>2. ASSUME NEW x \in Fields
      PROVE  \/ x \in DOMAIN form /\ d[x] \in form[x]
             \/ x \in DOMAIN defaults /\ d[x] = defaults[x]
             \/ x \notin DOMAIN defaults /\ d[x] = Nothing[x]
  BY <1>2, ValueOfField
<1>3. /\ d.duration \in 5 .. 15 /\ d.resolution \in {"768P", "2K"}
      /\ mode = "text-to-video" => d.aspect_ratio \in Wide
      /\ reference => d.aspect_ratio \in Wide \cup {"adaptive"}
  <2>1. d.duration \in 5 .. 15
    BY <1>1, <1>2, H3Form, H3Defaults DEF Fields
  <2>2. d.resolution \in {"768P", "2K"}
    BY <1>1, <1>2, H3Form, H3Defaults DEF Fields
  <2>3. mode = "text-to-video" => d.aspect_ratio \in Wide
    BY <1>1, <1>2, H3Form, H3Defaults DEF Fields, Wide
  <2>4. reference => d.aspect_ratio \in Wide \cup {"adaptive"}
    BY <1>1, <1>2, H3Form, H3Defaults DEF Fields
  <2> QED
    BY <2>1, <2>2, <2>3, <2>4
<1>4. \A x \in Counts : d[x] \in 0 .. limit[x]
  <2>1. \A x \in Counts : limit[x] \in Nat
    BY DEF Counts
  <2>2. \A x \in Counts : x \in DOMAIN form => form[x] \subseteq 0 .. limit[x]
    <3>1. CASE reference
      BY <1>1, <3>1, H3Form DEF Counts
    <3>2. CASE ~ reference
      BY <1>1, <3>2, H3Form
    <3> QED
      BY <3>1, <3>2
  <2> HIDE DEF limit
  <2> QED
    BY <2>1, <2>2, CountsOfForm
<1>5. IsPriced(m, d) <=> d.resolution = "2K"
  BY <1>1, <1>3 DEF IsPriced
<1>6. IsBuilt(m, mode, d) <=> a.videos = 0 /\ BuildsH3(mode, d, a)
  <2>1. SchemaVersion(m) \in TypedVersions
    BY <1>1 DEF SchemaVersion, TypedVersions, Models
  <2> QED
    BY <1>1, <2>1 DEF IsBuilt, Models
<1>7. mode = "image-to-video" => a.start
  BY SpecsOfMode
<1>8. CASE reference
  <2>1. /\ d.reference_images = 0 /\ d.reference_image_urls \in 0 .. 9
        /\ d.reference_video_urls \in 0 .. 3 /\ d.reference_audio_urls \in 0 .. 3
    BY <1>4, <1>8 DEF Counts
  <2>2. /\ a.images = d.reference_image_urls /\ a.videos = d.reference_video_urls
        /\ a.audios = d.reference_audio_urls
    BY <1>8, <2>1, SpecsOfMode
  <2> HIDE DEF a
  <2>3. BuildsH3(mode, d, a) <=> /\ d.resolution = "2K"
                                 /\ a.images <= 5 /\ a.videos = 0
                                 /\ a.audios > 0 => a.images > 0
    BY <1>3, <1>8 DEF BuildsH3
  <2> QED
    BY <1>1, <1>3, <1>5, <1>6, <2>1, <2>2, <2>3 DEF BeyondH3
<1>9. CASE ~ reference
  <2>1. /\ d.reference_images = 0 /\ d.reference_image_urls = 0
        /\ d.reference_video_urls = 0 /\ d.reference_audio_urls = 0
    BY <1>4, <1>9 DEF Counts
  <2>2. a.videos = 0
    <3>1. mode # "image-to-image"
      BY <1>1 DEF Modes
    <3> QED
      BY <1>9, <3>1, SpecsOfMode
  <2> HIDE DEF a
  <2>3. BuildsH3(mode, d, a) <=> d.resolution = "2K"
    BY <1>3, <1>7, <1>9 DEF BuildsH3
  <2>4. BeyondH3(d) <=> d.resolution = "768P"
    BY <2>1 DEF BeyondH3
  <2> QED
    BY <1>1, <1>3, <1>5, <1>6, <2>2, <2>3, <2>4
<1> QED
  BY <1>8, <1>9

-----------------------------------------------------------------------------
(* All families.                                                           *)

(* AdmittedIsServed, for every request that has the fields of a typed one: *)
(* what the schemas of schemas.py accept has a price and is built by the   *)
(* worker, and of hailuo-03 exactly what its builder refuses is not.       *)
THEOREM TheAdmittedAreServed == AdmissionInit => AdmittedIsServed
<1> DEFINE m == request.model
           f == FamilyOfModel(m)
           mode == ModeOf(request)
           d == Parsed(request, mode)
<1>1. SUFFICES ASSUME AdmissionInit, Admitted(request)
               PROVE  IsPriced(m, d) /\ IsBuilt(m, mode, d) <=> ~(m = "hailuo-03" /\ BeyondH3(d))
  BY DEF AdmittedIsServed
<1>2. Accepted(request, f, mode, d)
  BY <1>1, RequestAssumption DEF AdmissionInit, Accepted
<1>3. f \in Families /\ m \in Models[f]
  BY <1>2, FamilyHasModel
<1>4. f # "h3" => m # "hailuo-03"
  BY <1>3 DEF Families, Models
<1> HIDE DEF m, f, mode, d
<1>5. CASE f = "h3"
  BY <1>2, <1>5, H3IsServed DEF m
<1>6. CASE f \in Families \ {"h3"}
  <2>1. IsPriced(m, d) /\ IsBuilt(m, mode, d)
    BY <1>2, <1>6, SeedanceIsServed, RecentIsServed, KlingIsServed, GeminiIsServed, VeoIsServed,
       GptIsServed, NanoIsServed, AudioIsServed DEF m, Families
  <2> QED
    BY <1>4, <1>6, <2>1
<1> QED
  BY <1>3, <1>5, <1>6

-----------------------------------------------------------------------------
(* What is submitted are the media of the task.                            *)

-----------------------------------------------------------------------------
(* The invariant.                                                          *)

Reference == [kind : {"IMAGE", "AUDIO", "VIDEO"}, url : DOMAIN Seconds]

Uploader == MediaAccount \cup {"none"}

MediaRow == [family : {"seedance", "seedance25", "hailuo"}, specs : SUBSET Reference, tries : Nat,
             status : MediaStatus, attempt : Nat, resolved : Nat, total : Nat]
AssetRow == [status : {"ABSENT", "PENDING", "READY", "FAILED"}, account : Uploader,
             upload : Uploader, reused : BOOLEAN]
UploadAnswer == [state : {"waits", "loads", "got", "error"}, upload : Uploader, reused : BOOLEAN]

\* Every attempt has a row of each reference and a handler.
MediaShape ==
    /\ media \in [MediaTask -> MediaRow]
    /\ \A t \in MediaTask : IsFiniteSet(SpecsOf(t))
    /\ asset = [t \in MediaTask |-> [n \in Try(t) |-> [s \in SpecsOf(t) |-> asset[t][n][s]]]]
    /\ \A t \in MediaTask : \A n \in Try(t), s \in SpecsOf(t) : asset[t][n][s] \in AssetRow
    /\ resolver = [t \in MediaTask |->
                     [n \in Try(t) |-> [stage |-> resolver[t][n].stage,
                                        account |-> resolver[t][n].account,
                                        got |-> resolver[t][n].got]]]

\* What is ready on an account was uploaded by it, and a sound was probed then.
RowIsReady(row, s) ==
    row.status = "READY" =>
      /\ row.upload = row.account
      /\ s.kind = "AUDIO" => Seconds[s.url] \in 2 .. 30

RowsAreReady ==
    \A t \in MediaTask : \A n \in Try(t), s \in SpecsOf(t) : RowIsReady(asset[t][n][s], s)

\* A handler works for the account of its rows and holds what is theirs.
HandlerHolds(t, work, rows) ==
    /\ work.stage # "idle" => work.account \in MediaAccount
    /\ work.stage = "resolving" =>
         /\ work.got \in [SpecsOf(t) -> UploadAnswer]
         /\ \A s \in SpecsOf(t) :
              /\ rows[s].account = work.account
              /\ FamilyOf(t) = "hailuo" => s.kind # "VIDEO"
              /\ work.got[s].state = "got" =>
                   /\ work.got[s].upload = work.account
                   /\ s.kind = "AUDIO" =>
                        Seconds[s.url] \in 2 .. (IF work.got[s].reused \/ IsRecent(t) THEN 30 ELSE 15)

HandlersHold ==
    \A t \in MediaTask : \A n \in Try(t) : HandlerHolds(t, resolver[t][n], asset[t][n])

SentAreOfTasks == \A x \in sent : x.task \in MediaTask

MediaInvariant ==
    MediaShape /\ RowsAreReady /\ HandlersHold /\ SentAreOfTasks /\ SubmittedMediaFit
-----------------------------------------------------------------------------
(* A task keeps its case; what was submitted keeps its limits.             *)

\* A step that leaves the cases of the tasks alone.
SameCases ==
    /\ media' \in [MediaTask -> MediaRow]
    /\ \A t \in MediaTask :
         /\ media'[t].family = media[t].family /\ media'[t].specs = media[t].specs
         /\ media'[t].tries = media[t].tries

LEMMA CasesStay ==
    ASSUME SameCases, NEW t \in MediaTask
    PROVE  /\ FamilyOf(t)' = FamilyOf(t) /\ SpecsOf(t)' = SpecsOf(t) /\ Try(t)' = Try(t)
           /\ IsRecent(t)' = IsRecent(t)
  BY DEF SameCases, FamilyOf, SpecsOf, Try, IsRecent

\* SubmittedMediaFit, for one submission.
SubmissionFits(x) ==
    /\ \A s \in SpecsOf(x.task) :
         /\ x.got[s].upload = x.account
         /\ \/ WithinLimits(x.task, s.kind, s)
            \/ /\ FamilyOf(x.task) = "seedance" /\ s.kind = "AUDIO"
               /\ x.got[s].reused /\ Seconds[s.url] <= 30
    /\ Total(OfKind(x.task, "VIDEO")) <= (IF IsRecent(x.task) THEN 30 ELSE 15)

LEMMA SubmissionsFit ==
    SubmittedMediaFit <=> \A x \in sent : SubmissionFits(x)
  BY DEF SubmittedMediaFit, SubmissionFits

LEMMA LimitsStay ==
    ASSUME SameCases, NEW x, x.task \in MediaTask
    PROVE  SubmissionFits(x)' <=> SubmissionFits(x)
<1>1. /\ FamilyOf(x.task)' = FamilyOf(x.task) /\ SpecsOf(x.task)' = SpecsOf(x.task)
      /\ IsRecent(x.task)' = IsRecent(x.task)
  BY CasesStay
<1>2. OfKind(x.task, "VIDEO")' = OfKind(x.task, "VIDEO")
  BY <1>1 DEF OfKind
<1>3. Total(OfKind(x.task, "VIDEO"))' = Total(OfKind(x.task, "VIDEO"))
  BY <1>2 DEF Total
<1>4. \A s : WithinLimits(x.task, s.kind, s)' <=> WithinLimits(x.task, s.kind, s)
  BY <1>1 DEF WithinLimits
<1> QED BY <1>1, <1>3, <1>4 DEF SubmissionFits

-----------------------------------------------------------------------------
(* A step of one attempt's handler.                                        *)

WorkShape(work) == work = [stage |-> work.stage, account |-> work.account, got |-> work.got]

\* A handler with other answers.
LEMMA WorkGets ==
    ASSUME NEW old, WorkShape(old), NEW got
    PROVE  [old EXCEPT !.got = got] = [stage |-> old.stage, account |-> old.account, got |-> got]
  BY DEF WorkShape

\* A handler in another stage.
LEMMA WorkTurns ==
    ASSUME NEW old, WorkShape(old), NEW stage, NEW account, NEW got
    PROVE  /\ [old EXCEPT !.stage = stage, !.account = account]
                = [stage |-> stage, account |-> account, got |-> old.got]
           /\ [old EXCEPT !.stage = stage, !.got = got]
                = [stage |-> stage, account |-> old.account, got |-> got]
<1> DEFINE Work == [stage : {old.stage, stage}, account : {old.account, account},
                     got : {old.got, got}]
            new == [old EXCEPT !.stage = stage, !.account = account]
            reported == [old EXCEPT !.stage = stage, !.got = got]
<1>1. old \in Work
  BY DEF WorkShape
<1>2. new \in Work /\ new.stage = stage /\ new.account = account /\ new.got = old.got
  BY <1>1
<1>3. /\ reported \in Work
      /\ reported.stage = stage /\ reported.account = old.account /\ reported.got = got
  BY <1>1
<1> HIDE DEF new, reported
<1>4. new = [stage |-> stage, account |-> account, got |-> old.got]
  BY <1>2
<1>5. reported = [stage |-> stage, account |-> old.account, got |-> got]
  BY <1>3
<1> QED BY <1>4, <1>5 DEF new, reported

\* What an attempt's step writes of its rows and its handler.
LEMMA HandlerStep ==
    ASSUME MediaInvariant, SameCases, NEW t \in MediaTask, NEW n \in Try(t),
           NEW rows \in [SpecsOf(t) -> AssetRow], NEW work, WorkShape(work),
           asset' = [asset EXCEPT ![t][n] = rows],
           resolver' = [resolver EXCEPT ![t][n] = work],
           \A s \in SpecsOf(t) : RowIsReady(rows[s], s),
           HandlerHolds(t, work, rows)
    PROVE  MediaShape' /\ RowsAreReady' /\ HandlersHold'
<1>1. /\ asset'[t][n] = rows /\ resolver'[t][n] = work
      /\ \A u \in MediaTask : \A m \in Try(u) :
           u # t \/ m # n => asset'[u][m] = asset[u][m] /\ resolver'[u][m] = resolver[u][m]
  BY DEF MediaInvariant, MediaShape
<1>2. /\ asset' = [u \in MediaTask |-> [m \in Try(u) |-> asset'[u][m]]]
      /\ resolver' = [u \in MediaTask |-> [m \in Try(u) |-> resolver'[u][m]]]
  BY DEF MediaInvariant, MediaShape
<1>3. ASSUME NEW u \in MediaTask, NEW m \in Try(u)
      PROVE  /\ asset'[u][m] \in [SpecsOf(u) -> AssetRow] /\ WorkShape(resolver'[u][m])
             /\ \A s \in SpecsOf(u) : RowIsReady(asset'[u][m][s], s)
             /\ HandlerHolds(u, resolver'[u][m], asset'[u][m])
  <2>1. /\ asset[u][m] \in [SpecsOf(u) -> AssetRow] /\ WorkShape(resolver[u][m])
        /\ \A s \in SpecsOf(u) : RowIsReady(asset[u][m][s], s)
        /\ HandlerHolds(u, resolver[u][m], asset[u][m])
    <3>1. asset[u][m] = [s \in SpecsOf(u) |-> asset[u][m][s]]
      BY DEF MediaInvariant, MediaShape
    <3>2. \A s \in SpecsOf(u) : asset[u][m][s] \in AssetRow
      BY DEF MediaInvariant, MediaShape
    <3>3. WorkShape(resolver[u][m])
      BY DEF MediaInvariant, MediaShape, WorkShape
    <3> QED BY <3>1, <3>2, <3>3 DEF MediaInvariant, RowsAreReady, HandlersHold
  <2> QED BY <1>1, <2>1
<1>4. \A u \in MediaTask : /\ FamilyOf(u)' = FamilyOf(u) /\ SpecsOf(u)' = SpecsOf(u)
                           /\ Try(u)' = Try(u) /\ IsRecent(u)' = IsRecent(u)
  BY CasesStay
<1>5. MediaShape'
  <2>1. \A u \in MediaTask : IsFiniteSet(SpecsOf(u)')
    BY <1>4 DEF MediaInvariant, MediaShape
  <2>2. asset' = [u \in MediaTask |-> [m \in Try(u)' |-> [s \in SpecsOf(u)' |-> asset'[u][m][s]]]]
    <3>1. \A u \in MediaTask : \A m \in Try(u) :
            asset'[u][m] = [s \in SpecsOf(u)' |-> asset'[u][m][s]]
      BY <1>3, <1>4
    <3>2. \A u \in MediaTask : [m \in Try(u) |-> asset'[u][m]]
            = [m \in Try(u)' |-> [s \in SpecsOf(u)' |-> asset'[u][m][s]]]
      BY <1>4, <3>1
    <3> QED BY <1>2, <3>2
  <2>3. resolver' = [u \in MediaTask |->
                       [m \in Try(u)' |-> [stage |-> resolver'[u][m].stage,
                                           account |-> resolver'[u][m].account,
                                           got |-> resolver'[u][m].got]]]
    <3>1. \A u \in MediaTask : [m \in Try(u) |-> resolver'[u][m]]
            = [m \in Try(u)' |-> [stage |-> resolver'[u][m].stage,
                                  account |-> resolver'[u][m].account,
                                  got |-> resolver'[u][m].got]]
      BY <1>3, <1>4 DEF WorkShape
    <3> QED BY <1>2, <3>1
  <2>4. \A u \in MediaTask : \A m \in Try(u)', s \in SpecsOf(u)' : asset'[u][m][s] \in AssetRow
    BY <1>3, <1>4
  <2> QED BY <2>1, <2>2, <2>3, <2>4 DEF MediaShape, SameCases
<1>6. RowsAreReady'
  BY <1>3, <1>4 DEF RowsAreReady, RowIsReady
<1>7. HandlersHold'
  BY <1>3, <1>4 DEF HandlersHold, HandlerHolds
<1> QED BY <1>5, <1>6, <1>7

\* The handler that a step finds at work, its rows and its task.
LEMMA AtWork ==
    ASSUME MediaInvariant, NEW t \in MediaTask, NEW n \in Try(t)
    PROVE  /\ asset[t][n] \in [SpecsOf(t) -> AssetRow] /\ WorkShape(resolver[t][n])
           /\ \A s \in SpecsOf(t) : RowIsReady(asset[t][n][s], s)
           /\ HandlerHolds(t, resolver[t][n], asset[t][n])
           /\ media[t] \in MediaRow /\ IsFiniteSet(SpecsOf(t))
<1>1. asset[t][n] = [s \in SpecsOf(t) |-> asset[t][n][s]]
  BY DEF MediaInvariant, MediaShape
<1>2. \A s \in SpecsOf(t) : asset[t][n][s] \in AssetRow
  BY DEF MediaInvariant, MediaShape
<1>3. WorkShape(resolver[t][n])
  BY DEF MediaInvariant, MediaShape, WorkShape
<1> QED
  BY <1>1, <1>2, <1>3 DEF MediaInvariant, MediaShape, RowsAreReady, HandlersHold

\* What is written of an attempt that stays as it is.
LEMMA AttemptRests ==
    ASSUME MediaInvariant, NEW t \in MediaTask, NEW n \in Try(t)
    PROVE  /\ asset = [asset EXCEPT ![t][n] = asset[t][n]]
           /\ resolver = [resolver EXCEPT ![t][n] = resolver[t][n]]
  BY DEF MediaInvariant, MediaShape

\* A step that submits nothing.
LEMMA NothingIsSent ==
    ASSUME MediaInvariant, SameCases, sent' = sent
    PROVE  SentAreOfTasks' /\ SubmittedMediaFit'
<1>1. SentAreOfTasks'
  BY DEF MediaInvariant, SentAreOfTasks
<1>2. \A x \in sent : SubmissionFits(x)'
  BY LimitsStay, SubmissionsFit DEF MediaInvariant, SentAreOfTasks
<1>3. SubmittedMediaFit'
  BY <1>2 DEF SubmittedMediaFit, SubmissionFits
<1> QED BY <1>1, <1>3

\* A step that only writes a task's status, attempt or progress.
LEMMA TaskStep ==
    ASSUME MediaInvariant, NEW t \in MediaTask, NEW row, row \in MediaRow,
           row.family = media[t].family, row.specs = media[t].specs, row.tries = media[t].tries,
           media' = [media EXCEPT ![t] = row]
    PROVE  SameCases
  BY DEF MediaInvariant, MediaShape, SameCases

LEMMA SameMedia ==
    ASSUME MediaInvariant, media' = media PROVE SameCases
  BY DEF MediaInvariant, MediaShape, SameCases

-----------------------------------------------------------------------------
(* One lemma for each action.                                              *)

LEMMA AssignKeepsMedia ==
    ASSUME MediaInvariant, NEW t \in MediaTask, NEW a \in MediaAccount, AssignMedia(t, a)
    PROVE  MediaInvariant'
<1>1. media[t] \in MediaRow /\ media[t].attempt < media[t].tries /\ media \in [MediaTask -> MediaRow]
  BY DEF MediaInvariant, MediaShape, AssignMedia
<1>2. PICK n \in Try(t) : n = media[t].attempt + 1
  BY <1>1 DEF MediaRow, Try
<1> DEFINE row == [media[t] EXCEPT !.status = "RESOLVING", !.attempt = n]
            work == [NoResolver EXCEPT !.stage = "assigned", !.account = a]
<1>3. /\ row \in MediaRow /\ row.family = media[t].family /\ row.specs = media[t].specs
      /\ row.tries = media[t].tries /\ row.attempt = n
  <2>1. n \in Nat
    BY <1>1, <1>2 DEF MediaRow
  <2> QED BY <1>1, <2>1 DEF MediaRow, MediaStatus, Try
<1>4. media' = [media EXCEPT ![t] = row]
  BY <1>1, <1>2 DEF AssignMedia, MediaRow
<1> HIDE DEF row
<1>5. SameCases
  BY <1>3, <1>4, TaskStep
<1>6. resolver' = [resolver EXCEPT ![t][n] = work]
  BY <1>1, <1>3, <1>4 DEF AssignMedia
<1>7. WorkShape(work) /\ work.stage = "assigned" /\ work.account = a
  <2>1. work = [stage |-> "assigned", account |-> a, got |-> NoResolver.got]
    <3>1. WorkShape(NoResolver)
      BY DEF NoResolver, WorkShape
    <3> QED BY <3>1, WorkTurns
  <2> HIDE DEF work
  <2> QED BY <2>1 DEF WorkShape
<1> HIDE DEF work
<1>8. HandlerHolds(t, work, asset[t][n])
  BY <1>7 DEF HandlerHolds
<1>9. asset' = [asset EXCEPT ![t][n] = asset[t][n]]
  BY AttemptRests DEF AssignMedia
<1>10. MediaShape' /\ RowsAreReady' /\ HandlersHold'
  BY <1>5, <1>6, <1>7, <1>8, <1>9, AtWork, HandlerStep
<1> QED BY <1>5, <1>10, NothingIsSent DEF AssignMedia, MediaInvariant

LEMMA LeavingKeepsMedia ==
    ASSUME MediaInvariant, NEW t \in MediaTask, NEW status \in {"QUEUED", "ENDED"},
           LeavesResolution(t, status)
    PROVE  MediaInvariant'
<1> DEFINE row == [media[t] EXCEPT !.status = status]
<1>1. media[t] \in MediaRow /\ media \in [MediaTask -> MediaRow]
  BY DEF MediaInvariant, MediaShape
<1>2. /\ row \in MediaRow /\ row.family = media[t].family /\ row.specs = media[t].specs
      /\ row.tries = media[t].tries
  BY <1>1 DEF MediaRow, MediaStatus
<1>3. media' = [media EXCEPT ![t] = row]
  BY <1>1 DEF LeavesResolution
<1> HIDE DEF row
<1>4. SameCases
  BY <1>2, <1>3, TaskStep
<1>5. asset' = asset /\ resolver' = resolver /\ sent' = sent
  BY DEF LeavesResolution
<1>6. \A u \in MediaTask : /\ FamilyOf(u)' = FamilyOf(u) /\ SpecsOf(u)' = SpecsOf(u)
                           /\ Try(u)' = Try(u) /\ IsRecent(u)' = IsRecent(u)
  BY <1>4, CasesStay
<1>7. MediaShape'
  <2>1. asset = [u \in MediaTask |-> [m \in Try(u)' |-> [s \in SpecsOf(u)' |-> asset[u][m][s]]]]
    <3>1. \A u \in MediaTask : [m \in Try(u) |-> [s \in SpecsOf(u) |-> asset[u][m][s]]]
            = [m \in Try(u)' |-> [s \in SpecsOf(u)' |-> asset[u][m][s]]]
      BY <1>6
    <3> QED BY <3>1 DEF MediaInvariant, MediaShape
  <2>2. resolver = [u \in MediaTask |->
                      [m \in Try(u)' |-> [stage |-> resolver[u][m].stage,
                                          account |-> resolver[u][m].account,
                                          got |-> resolver[u][m].got]]]
    <3>1. \A u \in MediaTask :
            [m \in Try(u) |-> [stage |-> resolver[u][m].stage, account |-> resolver[u][m].account,
                               got |-> resolver[u][m].got]]
            = [m \in Try(u)' |-> [stage |-> resolver[u][m].stage,
                                  account |-> resolver[u][m].account,
                                  got |-> resolver[u][m].got]]
      BY <1>6
    <3> QED BY <3>1 DEF MediaInvariant, MediaShape
  <2>3. \A u \in MediaTask : /\ IsFiniteSet(SpecsOf(u)')
                             /\ \A m \in Try(u)', s \in SpecsOf(u)' : asset[u][m][s] \in AssetRow
    BY <1>6 DEF MediaInvariant, MediaShape
  <2> QED BY <1>4, <1>5, <2>1, <2>2, <2>3 DEF MediaShape, SameCases
<1>8. RowsAreReady' /\ HandlersHold'
  BY <1>5, <1>6 DEF MediaInvariant, RowsAreReady, RowIsReady, HandlersHold, HandlerHolds
<1> QED BY <1>4, <1>5, <1>7, <1>8, NothingIsSent DEF MediaInvariant

LEMMA FailedResolutionKeepsMedia ==
    ASSUME MediaInvariant, NEW t \in MediaTask, NEW n \in Try(t), ResolutionFails(t, n)
    PROVE  MediaInvariant'
<1>1. SameCases
  BY SameMedia DEF ResolutionFails
<1>2. WorkShape(NoResolver) /\ HandlerHolds(t, NoResolver, asset[t][n])
  BY DEF WorkShape, NoResolver, HandlerHolds
<1>3. asset' = [asset EXCEPT ![t][n] = asset[t][n]]
  BY AttemptRests DEF ResolutionFails
<1>4. resolver' = [resolver EXCEPT ![t][n] = NoResolver]
  BY DEF ResolutionFails
<1>5. MediaShape' /\ RowsAreReady' /\ HandlersHold'
  BY <1>1, <1>2, <1>3, <1>4, AtWork, HandlerStep
<1> QED BY <1>1, <1>5, NothingIsSent DEF ResolutionFails, MediaInvariant

LEMMA DownloadKeepsMedia ==
    ASSUME MediaInvariant, NEW t \in MediaTask, NEW n \in Try(t), NEW s \in SpecsOf(t),
           StartDownload(t, n, s)
    PROVE  MediaInvariant'
<1> DEFINE old == resolver[t][n]
            answer == [old.got[s] EXCEPT !.state = "loads"]
            got == [old.got EXCEPT ![s] = answer]
            work == [stage |-> old.stage, account |-> old.account, got |-> got]
<1>1. SameCases /\ sent' = sent /\ old.stage = "resolving"
  BY SameMedia DEF StartDownload
<1>2. HandlerHolds(t, old, asset[t][n]) /\ WorkShape(old)
  BY AtWork
<1>3. old.got \in [SpecsOf(t) -> UploadAnswer]
  BY <1>1, <1>2 DEF HandlerHolds
<1>4. answer \in UploadAnswer /\ answer.state = "loads"
  BY <1>3 DEF UploadAnswer
<1>5. resolver' = [resolver EXCEPT ![t][n] = work]
  <2>1. resolver' = [resolver EXCEPT ![t][n] = [old EXCEPT !.got = got]]
    BY DEF StartDownload
  <2>2. [old EXCEPT !.got = got] = work
    BY <1>2, WorkGets
  <2> QED BY <2>1, <2>2
<1> HIDE DEF answer
<1>6. got \in [SpecsOf(t) -> UploadAnswer] /\ got[s] = answer
      /\ \A u \in SpecsOf(t) \ {s} : got[u] = old.got[u]
  BY <1>3, <1>4
<1> HIDE DEF got
<1>7. HandlerHolds(t, work, asset[t][n])
  BY <1>1, <1>2, <1>4, <1>6 DEF HandlerHolds
<1>8. WorkShape(work)
  BY DEF WorkShape
<1>9. asset' = [asset EXCEPT ![t][n] = asset[t][n]]
  BY AttemptRests DEF StartDownload
<1> HIDE DEF work
<1>10. MediaShape' /\ RowsAreReady' /\ HandlersHold'
  BY <1>1, <1>5, <1>7, <1>8, <1>9, AtWork, HandlerStep
<1> QED BY <1>1, <1>10, NothingIsSent DEF MediaInvariant

LEMMA FailedMediaKeepsMedia ==
    ASSUME MediaInvariant, NEW t \in MediaTask, NEW n \in Try(t), NEW s \in SpecsOf(t),
           MediaFails(t, n, s)
    PROVE  MediaInvariant'
<1> DEFINE old == resolver[t][n]
            got == [old.got EXCEPT ![s] = Error]
            work == [stage |-> old.stage, account |-> old.account, got |-> got]
            row == [asset[t][n][s] EXCEPT !.status = "FAILED"]
            rows == [asset[t][n] EXCEPT ![s] = row]
<1>1. SameCases /\ sent' = sent /\ old.stage = "resolving"
  BY SameMedia DEF MediaFails
<1>2. /\ HandlerHolds(t, old, asset[t][n]) /\ WorkShape(old)
      /\ asset[t][n] \in [SpecsOf(t) -> AssetRow]
      /\ \A u \in SpecsOf(t) : RowIsReady(asset[t][n][u], u)
  BY AtWork
<1>3. old.got \in [SpecsOf(t) -> UploadAnswer]
  BY <1>1, <1>2 DEF HandlerHolds
<1>4. Error \in UploadAnswer /\ Error.state = "error"
  BY DEF UploadAnswer, Error, Waits, Uploader
<1>5. resolver' = [resolver EXCEPT ![t][n] = work]
  <2>1. resolver' = [resolver EXCEPT ![t][n] = [old EXCEPT !.got = got]]
    BY DEF MediaFails
  <2>2. [old EXCEPT !.got = got] = work
    BY <1>2, WorkGets
  <2> QED BY <2>1, <2>2
<1>6. got \in [SpecsOf(t) -> UploadAnswer] /\ got[s] = Error
      /\ \A u \in SpecsOf(t) \ {s} : got[u] = old.got[u]
  BY <1>3, <1>4
<1>7. row \in AssetRow /\ row.status = "FAILED" /\ row.account = asset[t][n][s].account
  BY <1>2 DEF AssetRow
<1>8. asset' = [asset EXCEPT ![t][n] = rows]
  BY DEF MediaFails
<1> HIDE DEF got, row
<1>9. /\ rows \in [SpecsOf(t) -> AssetRow] /\ rows[s] = row
      /\ \A u \in SpecsOf(t) \ {s} : rows[u] = asset[t][n][u]
  BY <1>2, <1>7
<1> HIDE DEF rows
<1>10. HandlerHolds(t, work, rows)
  BY <1>1, <1>2, <1>4, <1>6, <1>7, <1>9 DEF HandlerHolds
<1>11. \A u \in SpecsOf(t) : RowIsReady(rows[u], u)
  BY <1>2, <1>7, <1>9 DEF RowIsReady
<1>12. WorkShape(work)
  BY DEF WorkShape
<1> HIDE DEF work
<1>13. MediaShape' /\ RowsAreReady' /\ HandlersHold'
  BY <1>1, <1>5, <1>8, <1>9, <1>10, <1>11, <1>12, HandlerStep
<1> QED BY <1>1, <1>13, NothingIsSent DEF MediaInvariant

LEMMA ArrivalKeepsMedia ==
    ASSUME MediaInvariant, NEW t \in MediaTask, NEW n \in Try(t), NEW s \in SpecsOf(t),
           MediaArrives(t, n, s)
    PROVE  MediaInvariant'
<1> DEFINE old == resolver[t][n]
            a == old.account
            answer == Got(a, FALSE)
            got == [old.got EXCEPT ![s] = answer]
            work == [stage |-> old.stage, account |-> a, got |-> got]
            row == [asset[t][n][s] EXCEPT !.status = "READY", !.upload = a, !.reused = FALSE]
            rows == [asset[t][n] EXCEPT ![s] = row]
            arrived == {u \in SpecsOf(t) : asset'[t][n][u].status = "READY"}
<1>1. sent' = sent /\ old.stage = "resolving" /\ DownloadFits(t, s)
  BY DEF MediaArrives
<1>2. /\ HandlerHolds(t, old, asset[t][n]) /\ WorkShape(old)
      /\ asset[t][n] \in [SpecsOf(t) -> AssetRow]
      /\ \A u \in SpecsOf(t) : RowIsReady(asset[t][n][u], u)
      /\ media[t] \in MediaRow /\ IsFiniteSet(SpecsOf(t))
  BY AtWork
<1>3. /\ old.got \in [SpecsOf(t) -> UploadAnswer] /\ a \in MediaAccount
      /\ asset[t][n][s].account = a
  BY <1>1, <1>2 DEF HandlerHolds
<1>4. answer \in UploadAnswer /\ answer.state = "got" /\ answer.upload = a /\ answer.reused = FALSE
  BY <1>3 DEF UploadAnswer, Got, Uploader
<1>5. SameCases
  <2>1. PICK resolved \in Nat : resolved = Cardinality(arrived)
    BY <1>2, FS_Subset, FS_CardinalityType
  <2>2. [media[t] EXCEPT !.resolved = resolved] \in MediaRow
    BY <1>2, <2>1 DEF MediaRow
  <2>3. media' = [media EXCEPT ![t] = [media[t] EXCEPT !.resolved = resolved]]
    BY <2>1 DEF MediaArrives
  <2> DEFINE new == [media[t] EXCEPT !.resolved = resolved]
  <2>4. /\ new.family = media[t].family /\ new.specs = media[t].specs
        /\ new.tries = media[t].tries
    BY <1>2 DEF MediaRow
  <2> QED BY <2>2, <2>3, <2>4, TaskStep
<1>6. resolver' = [resolver EXCEPT ![t][n] = work]
  <2>1. resolver' = [resolver EXCEPT ![t][n] = [old EXCEPT !.got = got]]
    BY DEF MediaArrives
  <2>2. [old EXCEPT !.got = got] = work
    BY <1>2, WorkGets
  <2> QED BY <2>1, <2>2
<1>7. /\ row \in AssetRow /\ row.status = "READY" /\ row.upload = a
      /\ row.account = asset[t][n][s].account
  BY <1>2, <1>3 DEF AssetRow, Uploader
<1>8. asset' = [asset EXCEPT ![t][n] = rows]
  BY DEF MediaArrives
<1>9. s.kind = "AUDIO" => Seconds[s.url] \in 2 .. (IF IsRecent(t) THEN 30 ELSE 15)
  BY <1>1 DEF DownloadFits
<1>10. s.kind = "AUDIO" => Seconds[s.url] \in 2 .. 30
  BY <1>9
<1> HIDE DEF answer, row
<1>11. /\ got \in [SpecsOf(t) -> UploadAnswer] /\ got[s] = answer
       /\ \A u \in SpecsOf(t) \ {s} : got[u] = old.got[u]
  BY <1>3, <1>4
<1>12. /\ rows \in [SpecsOf(t) -> AssetRow] /\ rows[s] = row
       /\ \A u \in SpecsOf(t) \ {s} : rows[u] = asset[t][n][u]
  BY <1>2, <1>7
<1> HIDE DEF got, rows
<1>13. HandlerHolds(t, work, rows)
  BY <1>1, <1>2, <1>3, <1>4, <1>7, <1>9, <1>11, <1>12 DEF HandlerHolds
<1>14. \A u \in SpecsOf(t) : RowIsReady(rows[u], u)
  BY <1>2, <1>3, <1>7, <1>10, <1>12 DEF RowIsReady
<1>15. WorkShape(work)
  BY DEF WorkShape
<1> HIDE DEF work
<1>16. MediaShape' /\ RowsAreReady' /\ HandlersHold'
  BY <1>5, <1>6, <1>8, <1>12, <1>13, <1>14, <1>15, HandlerStep
<1> QED BY <1>1, <1>5, <1>16, NothingIsSent DEF MediaInvariant

LEMMA InitializationKeepsMedia ==
    ASSUME MediaInvariant, NEW t \in MediaTask, NEW n \in Try(t), InitializeMedia(t, n)
    PROVE  MediaInvariant'
<1> DEFINE old == resolver[t][n]
            a == old.account
            hits == {s \in SpecsOf(t) : Cached(a, s) # {}}
<1>1. /\ sent' = sent /\ old.stage = "assigned"
      /\ FamilyOf(t) = "hailuo" => \A s \in SpecsOf(t) : s.kind # "VIDEO"
  BY DEF InitializeMedia
<1>2. /\ HandlerHolds(t, old, asset[t][n]) /\ WorkShape(old)
      /\ media[t] \in MediaRow /\ IsFiniteSet(SpecsOf(t))
  BY AtWork
<1>3. a \in MediaAccount
  BY <1>1, <1>2 DEF HandlerHolds
<1>4. PICK hit :
        /\ \A s \in hits : hit[s] \in Cached(a, s)
        /\ asset' = [asset EXCEPT ![t][n] =
                       [s \in SpecsOf(t) |->
                          [status |-> IF s \in hits THEN "READY" ELSE "PENDING", account |-> a,
                           upload |-> IF s \in hits THEN hit[s].upload ELSE "none",
                           reused |-> s \in hits]]]
        /\ resolver' = [resolver EXCEPT ![t][n] =
                          [@ EXCEPT !.stage = "resolving",
                                    !.got = [s \in SpecsOf(t) |->
                                               IF s \in hits THEN Got(hit[s].upload, TRUE) ELSE Waits]]]
  BY DEF InitializeMedia
\* What is found was uploaded by the account, and heard then.
<1>5. ASSUME NEW s \in hits
      PROVE  hit[s].upload = a /\ (s.kind = "AUDIO" => Seconds[s.url] \in 2 .. 30)
  <2>1. hit[s] \in RowsOfSource(s) /\ hit[s].status = "READY" /\ hit[s].account = a
    BY <1>4 DEF Cached
  <2>4. PICK u \in MediaTask : \E m \in Try(u), v \in SpecsOf(u) :
          v.kind = s.kind /\ v.url = s.url /\ hit[s] = asset[u][m][v]
    BY <2>1 DEF RowsOfSource
  <2>2. PICK m \in Try(u), v \in SpecsOf(u) :
          v.kind = s.kind /\ v.url = s.url /\ hit[s] = asset[u][m][v]
    BY <2>4
  <2>3. RowIsReady(asset[u][m][v], v)
    BY DEF MediaInvariant, RowsAreReady
  <2> QED BY <2>1, <2>2, <2>3 DEF RowIsReady
<1> DEFINE rows == [s \in SpecsOf(t) |->
                       [status |-> IF s \in hits THEN "READY" ELSE "PENDING", account |-> a,
                        upload |-> IF s \in hits THEN hit[s].upload ELSE "none",
                        reused |-> s \in hits]]
            got == [s \in SpecsOf(t) |->
                      IF s \in hits THEN Got(hit[s].upload, TRUE) ELSE Waits]
            work == [stage |-> "resolving", account |-> a, got |-> got]
<1>6. asset' = [asset EXCEPT ![t][n] = rows]
  BY <1>4
<1>7. resolver' = [resolver EXCEPT ![t][n] = work]
  <2>1. resolver' = [resolver EXCEPT ![t][n] = [old EXCEPT !.stage = "resolving", !.got = got]]
    BY <1>4
  <2> HIDE DEF got
  <2>2. [old EXCEPT !.stage = "resolving", !.got = got] = work
    BY <1>2, WorkTurns
  <2> QED BY <2>1, <2>2
<1>8. SameCases
  <2>1. hits \subseteq SpecsOf(t)
    OBVIOUS
  <2> HIDE DEF hits
  <2>2. PICK resolved \in Nat : resolved = Cardinality(hits)
    BY <1>2, <2>1, FS_Subset, FS_CardinalityType
  <2>3. PICK total \in Nat : total = Cardinality(SpecsOf(t))
    BY <1>2, FS_CardinalityType
  <2> DEFINE row == [media[t] EXCEPT !.resolved = resolved, !.total = total]
  <2>4. /\ row \in MediaRow /\ row.family = media[t].family /\ row.specs = media[t].specs
        /\ row.tries = media[t].tries
    BY <1>2 DEF MediaRow
  <2>5. media' = [media EXCEPT ![t] = row]
    <3>1. media' = [media EXCEPT ![t].resolved = Cardinality(hits),
                                 ![t].total = Cardinality(SpecsOf(t))]
      BY DEF InitializeMedia, hits
    <3>2. media \in [MediaTask -> MediaRow]
      BY DEF MediaInvariant, MediaShape
    <3> QED BY <2>2, <2>3, <3>1, <3>2 DEF MediaRow
  <2> HIDE DEF row
  <2> QED BY <2>4, <2>5, TaskStep
<1>9. ASSUME NEW s \in SpecsOf(t)
      PROVE  /\ rows[s] \in AssetRow /\ rows[s].account = a /\ RowIsReady(rows[s], s)
             /\ got[s] \in UploadAnswer
             /\ got[s].state = "got" =>
                  /\ got[s].upload = a
                  /\ s.kind = "AUDIO" =>
                       Seconds[s.url] \in 2 .. (IF got[s].reused \/ IsRecent(t) THEN 30 ELSE 15)
  <2>1. CASE s \in hits
    <3>1. hit[s].upload = a /\ (s.kind = "AUDIO" => Seconds[s.url] \in 2 .. 30)
      BY <1>5, <2>1
    <3> HIDE DEF hits
    <3>2. rows[s] = [status |-> "READY", account |-> a, upload |-> a, reused |-> TRUE]
      BY <2>1, <3>1
    <3>3. got[s] = [state |-> "got", upload |-> a, reused |-> TRUE]
      BY <2>1, <3>1 DEF Got
    <3> HIDE DEF rows, got
    <3> QED BY <1>3, <3>1, <3>2, <3>3 DEF AssetRow, UploadAnswer, Uploader, RowIsReady
  <2>2. CASE s \notin hits
    <3> HIDE DEF hits
    <3>1. rows[s] = [status |-> "PENDING", account |-> a, upload |-> "none", reused |-> FALSE]
      <4>1. (s \in hits) = FALSE
        BY <2>2
      <4> QED BY <4>1, <2>2
    <3>2. got[s] = [state |-> "waits", upload |-> "none", reused |-> FALSE]
      BY <2>2 DEF Waits
    <3> HIDE DEF rows, got
    <3> QED BY <1>3, <3>1, <3>2 DEF AssetRow, UploadAnswer, Uploader, RowIsReady
  <2> QED BY <2>1, <2>2
<1>10. rows = [s \in SpecsOf(t) |-> rows[s]] /\ got = [s \in SpecsOf(t) |-> got[s]]
  OBVIOUS
<1> HIDE DEF rows, got
<1>11. rows \in [SpecsOf(t) -> AssetRow] /\ got \in [SpecsOf(t) -> UploadAnswer]
  BY <1>9, <1>10
<1>12. HandlerHolds(t, work, rows)
  BY <1>1, <1>3, <1>9, <1>11 DEF HandlerHolds
<1>13. WorkShape(work)
  BY DEF WorkShape
<1> HIDE DEF work
<1>14. MediaShape' /\ RowsAreReady' /\ HandlersHold'
  BY <1>6, <1>7, <1>8, <1>9, <1>11, <1>12, <1>13, HandlerStep
<1> QED BY <1>1, <1>8, <1>14, NothingIsSent DEF MediaInvariant

\* One reference is no longer than all of its kind.
LEMMA PartsOfTotal ==
    ASSUME NEW specs \in SUBSET Reference, IsFiniteSet(specs), NEW s \in specs
    PROVE  Seconds[s.url] <= Total(specs)
<1> DEFINE f == [u \in specs |-> Seconds[u.url]]
<1>1. \A u \in specs : f[u] \in Nat
  BY MediaAssumption DEF Reference
<1>2. SumFunctionOnSet(f, specs) = f[s] + SumFunctionOnSet(f, specs \ {s})
  BY <1>1, SumTakes
<1>3. SumFunctionOnSet(f, specs \ {s}) \in Nat
  BY <1>1, FS_Subset, SumIsNatural
<1> QED BY <1>1, <1>2, <1>3 DEF Total

\* What the gathered answers of one attempt amount to.
LEMMA GatheredFits ==
    ASSUME MediaInvariant, NEW t \in MediaTask, NEW n \in Try(t),
           resolver[t][n].stage = "resolving", CollectionFits(t),
           \A s \in SpecsOf(t) : resolver[t][n].got[s].state = "got"
    PROVE  SubmissionFits([task |-> t, account |-> resolver[t][n].account,
                           got |-> resolver[t][n].got])
<1> DEFINE work == resolver[t][n]
            videos == OfKind(t, "VIDEO")
            audios == OfKind(t, "AUDIO")
<1>1. /\ HandlerHolds(t, work, asset[t][n])
      /\ media[t] \in MediaRow /\ IsFiniteSet(SpecsOf(t))
  BY AtWork
<1>2. SpecsOf(t) \in SUBSET Reference /\ FamilyOf(t) \in {"seedance", "seedance25", "hailuo"}
  BY <1>1 DEF MediaRow, SpecsOf, FamilyOf
<1>3. \A s \in SpecsOf(t) :
        /\ FamilyOf(t) = "hailuo" => s.kind # "VIDEO"
        /\ work.got[s].upload = work.account
        /\ s.kind = "AUDIO" =>
             Seconds[s.url] \in 2 .. (IF work.got[s].reused \/ IsRecent(t) THEN 30 ELSE 15)
  BY <1>1 DEF HandlerHolds
<1>4. Total(videos) <= (IF IsRecent(t) THEN 30 ELSE 15)
  BY <1>2 DEF CollectionFits, IsRecent
<1>5. ASSUME NEW s \in SpecsOf(t)
      PROVE  \/ WithinLimits(t, s.kind, s)
             \/ /\ FamilyOf(t) = "seedance" /\ s.kind = "AUDIO"
                /\ work.got[s].reused /\ Seconds[s.url] <= 30
  <2>1. Seconds[s.url] \in Nat /\ s.kind \in {"IMAGE", "AUDIO", "VIDEO"}
    BY <1>2, MediaAssumption DEF Reference
  <2>2. CASE s.kind = "IMAGE"
    BY <2>2 DEF WithinLimits
  <2>3. CASE s.kind = "VIDEO"
    <3>1. s \in videos
      BY <2>3 DEF OfKind
    <3>2. FamilyOf(t) = "seedance" => Seconds[s.url] \in 3 .. 10
      BY <3>1 DEF CollectionFits
    <3> QED BY <1>2, <1>3, <2>3, <3>2 DEF WithinLimits, IsRecent
  <2>4. CASE s.kind = "AUDIO" /\ FamilyOf(t) = "hailuo"
    <3>1. s \in audios /\ audios \in SUBSET Reference /\ IsFiniteSet(audios)
      BY <1>1, <1>2, <2>4, FS_Subset DEF OfKind
    <3>2. Seconds[s.url] <= Total(audios) /\ Total(audios) <= 15
      BY <2>4, <3>1, PartsOfTotal DEF CollectionFits
    <3>3. Total(audios) \in Nat
      <4>1. \A u \in audios : [v \in audios |-> Seconds[v.url]][u] \in Nat
        BY <3>1, MediaAssumption DEF Reference
      <4> QED BY <3>1, <4>1, SumIsNatural DEF Total
    <3>4. Seconds[s.url] >= 2
      BY <1>3, <2>1, <2>4
    <3> QED BY <2>1, <2>4, <3>2, <3>3, <3>4 DEF WithinLimits, IsRecent
  <2>5. CASE s.kind = "AUDIO" /\ FamilyOf(t) # "hailuo"
    BY <1>2, <1>3, <2>1, <2>5 DEF WithinLimits, IsRecent
  <2> QED BY <2>1, <2>2, <2>3, <2>4, <2>5
<1> DEFINE x == [task |-> t, account |-> work.account, got |-> work.got]
<1>6. x.task = t /\ x.account = work.account /\ x.got = work.got
  OBVIOUS
<1> HIDE DEF x
<1>7. SubmissionFits(x)
  BY <1>3, <1>4, <1>5, <1>6 DEF SubmissionFits
<1> QED BY <1>7 DEF x

LEMMA GatherKeepsMedia ==
    ASSUME MediaInvariant, NEW t \in MediaTask, NEW n \in Try(t), GatherMedia(t, n)
    PROVE  MediaInvariant'
<1> DEFINE x == [task |-> t, account |-> resolver[t][n].account, got |-> resolver[t][n].got]
<1>1. WorkShape(NoResolver) /\ HandlerHolds(t, NoResolver, asset[t][n])
  BY DEF WorkShape, NoResolver, HandlerHolds
<1>2. asset' = [asset EXCEPT ![t][n] = asset[t][n]]
  BY AttemptRests DEF GatherMedia
<1>3. resolver' = [resolver EXCEPT ![t][n] = NoResolver]
  BY DEF GatherMedia
<1>4. CASE media' = media /\ sent' = sent
  <2>1. SameCases
    BY <1>4, SameMedia
  <2>2. MediaShape' /\ RowsAreReady' /\ HandlersHold'
    BY <1>1, <1>2, <1>3, <2>1, AtWork, HandlerStep
  <2> QED BY <1>4, <2>1, <2>2, NothingIsSent DEF MediaInvariant
<1>5. CASE /\ \A s \in SpecsOf(t) : resolver[t][n].got[s].state = "got"
           /\ CollectionFits(t)
           /\ media' = [media EXCEPT ![t].status = "SUBMITTING"]
           /\ sent' = sent \cup {x}
  <2> DEFINE row == [media[t] EXCEPT !.status = "SUBMITTING"]
  <2>1. media[t] \in MediaRow
    BY AtWork
  <2>2. /\ row \in MediaRow /\ row.family = media[t].family /\ row.specs = media[t].specs
        /\ row.tries = media[t].tries
    BY <2>1 DEF MediaRow, MediaStatus
  <2>3. media' = [media EXCEPT ![t] = row]
    BY <1>5
  <2> HIDE DEF row
  <2>4. SameCases
    BY <2>2, <2>3, TaskStep
  <2>5. MediaShape' /\ RowsAreReady' /\ HandlersHold'
    BY <1>1, <1>2, <1>3, <2>4, AtWork, HandlerStep
  <2>6. SubmissionFits(x)
    BY <1>5, GatheredFits DEF GatherMedia
  <2>7. x.task = t
    OBVIOUS
  <2> HIDE DEF x
  <2>8. \A y \in sent' : y.task \in MediaTask /\ SubmissionFits(y)'
    BY <1>5, <2>4, <2>6, <2>7, LimitsStay, SubmissionsFit DEF MediaInvariant, SentAreOfTasks
  <2>9. SentAreOfTasks' /\ SubmittedMediaFit'
    BY <2>8 DEF SentAreOfTasks, SubmittedMediaFit, SubmissionFits
  <2> QED BY <2>5, <2>9 DEF MediaInvariant
<1> QED BY <1>4, <1>5 DEF GatherMedia

-----------------------------------------------------------------------------
LEMMA MediaStarts ==
    MediaInit => MediaInvariant
<1> SUFFICES ASSUME MediaInit PROVE MediaInvariant
  OBVIOUS
<1>1. PICK c \in MediaCases :
        /\ media = [t \in MediaTask |->
                     [family |-> c[t].family, specs |-> c[t].specs, tries |-> c[t].tries,
                      status |-> "QUEUED", attempt |-> 0, resolved |-> 0, total |-> 0]]
        /\ asset = [t \in MediaTask |-> [n \in 1 .. c[t].tries |-> [s \in c[t].specs |-> NoAsset]]]
        /\ resolver = [t \in MediaTask |-> [n \in 1 .. c[t].tries |-> NoResolver]]
        /\ sent = {}
  BY DEF MediaInit
<1>2. \A t \in MediaTask :
        /\ c[t].family \in {"seedance", "seedance25", "hailuo"} /\ c[t].tries \in Nat
        /\ c[t].specs \in SUBSET Reference /\ IsFiniteSet(c[t].specs)
  BY MediaAssumption DEF Reference
<1>3. \A t \in MediaTask : SpecsOf(t) = c[t].specs /\ Try(t) = 1 .. c[t].tries
  BY <1>1 DEF SpecsOf, Try
<1>4. media \in [MediaTask -> MediaRow]
  BY <1>1, <1>2 DEF MediaRow, MediaStatus
<1>5. /\ NoAsset \in AssetRow /\ NoAsset.status # "READY"
      /\ WorkShape(NoResolver) /\ NoResolver.stage = "idle"
  BY DEF NoAsset, AssetRow, Uploader, WorkShape, NoResolver
<1>6. \A t \in MediaTask : \A n \in Try(t) :
        /\ resolver[t][n] = NoResolver
        /\ \A s \in SpecsOf(t) : asset[t][n][s] = NoAsset
  BY <1>1, <1>3
<1>7. asset = [t \in MediaTask |-> [n \in Try(t) |-> [s \in SpecsOf(t) |-> asset[t][n][s]]]]
  <2>1. \A t \in MediaTask : [n \in Try(t) |-> [s \in SpecsOf(t) |-> asset[t][n][s]]]
                             = [n \in 1 .. c[t].tries |-> [s \in c[t].specs |-> NoAsset]]
    BY <1>3, <1>6
  <2> QED BY <1>1, <2>1
<1>8. resolver = [t \in MediaTask |-> [n \in Try(t) |-> [stage |-> resolver[t][n].stage,
                                                         account |-> resolver[t][n].account,
                                                         got |-> resolver[t][n].got]]]
  <2>1. \A t \in MediaTask :
          [n \in Try(t) |-> [stage |-> resolver[t][n].stage, account |-> resolver[t][n].account,
                             got |-> resolver[t][n].got]]
          = [n \in 1 .. c[t].tries |-> NoResolver]
    BY <1>3, <1>5, <1>6 DEF WorkShape
  <2> QED BY <1>1, <2>1
<1>9. MediaShape
  BY <1>2, <1>3, <1>4, <1>5, <1>6, <1>7, <1>8 DEF MediaShape
<1>10. RowsAreReady /\ HandlersHold
  BY <1>5, <1>6 DEF RowsAreReady, RowIsReady, HandlersHold, HandlerHolds
<1>11. SentAreOfTasks /\ SubmittedMediaFit
  BY <1>1 DEF SentAreOfTasks, SubmittedMediaFit
<1> QED BY <1>9, <1>10, <1>11 DEF MediaInvariant

LEMMA MediaGoesOn ==
    MediaInvariant /\ [MediaNext]_mediaVars => MediaInvariant'
<1> SUFFICES ASSUME MediaInvariant, [MediaNext]_mediaVars PROVE MediaInvariant'
  OBVIOUS
<1>1. CASE \E t \in MediaTask, a \in MediaAccount : AssignMedia(t, a)
  BY <1>1, AssignKeepsMedia
<1>2. CASE \E t \in MediaTask, status \in {"QUEUED", "ENDED"} : LeavesResolution(t, status)
  BY <1>2, LeavingKeepsMedia
<1>3. ASSUME NEW t \in MediaTask, NEW n \in Try(t),
             \/ InitializeMedia(t, n) \/ ResolutionFails(t, n) \/ GatherMedia(t, n)
             \/ \E s \in SpecsOf(t) :
                  StartDownload(t, n, s) \/ MediaArrives(t, n, s) \/ MediaFails(t, n, s)
      PROVE  MediaInvariant'
  BY <1>3, InitializationKeepsMedia, FailedResolutionKeepsMedia, GatherKeepsMedia,
     DownloadKeepsMedia, ArrivalKeepsMedia, FailedMediaKeepsMedia
<1>4. CASE UNCHANGED mediaVars
  <2>1. media' = media /\ asset' = asset /\ resolver' = resolver /\ sent' = sent
    BY <1>4 DEF mediaVars
  <2>2. SentAreOfTasks' /\ SubmittedMediaFit'
    BY <2>1, SameMedia, NothingIsSent
  <2>3. MediaShape'
    BY <2>1 DEF MediaInvariant, MediaShape, SpecsOf, Try
  <2>4. RowsAreReady' /\ HandlersHold'
    BY <2>1, SameMedia, CasesStay
    DEF MediaInvariant, RowsAreReady, RowIsReady, HandlersHold, HandlerHolds
  <2> QED BY <2>2, <2>3, <2>4 DEF MediaInvariant
<1> QED BY <1>1, <1>2, <1>3, <1>4 DEF MediaNext

(* What is submitted was uploaded by the account that submits it and is    *)
(* within the limits of the task's model (resolve_assignment_media), in    *)
(* whichever order the attempts of all tasks run, fail and are recovered,  *)
(* and whatever they find in the cache; but for the reused audio that      *)
(* SubmittedMediaFit names.                                                *)
THEOREM SubmissionsFitTheirTask == MediaSpecification => []SubmittedMediaFit
<1>1. MediaInvariant => SubmittedMediaFit
  BY DEF MediaInvariant
<1> QED
  BY <1>1, MediaStarts, MediaGoesOn, PTL DEF MediaSpecification

-----------------------------------------------------------------------------
(* The progress of a task, and whose a row is.                             *)

TaskProgress(row) ==
    /\ row.attempt \in 0 .. row.tries
    /\ row.total \in {0, Cardinality(row.specs)}
    /\ row.resolved \in 0 .. row.total

\* An attempt that has not begun has no rows; the rows of one that resolves
\* are counted.
AttemptProgress(row, n, work, rows) ==
    /\ n > row.attempt => work.stage = "idle" /\ \A s \in row.specs : rows[s].status = "ABSENT"
    /\ work.stage = "resolving" => row.total = Cardinality(row.specs)
    /\ \A s \in row.specs :
         /\ rows[s].status = "READY" => rows[s].upload \in MediaAccount
         /\ work.stage # "idle" /\ rows[s].status # "ABSENT" => rows[s].account = work.account

MediaProgress ==
    \A t \in MediaTask :
      /\ TaskProgress(media[t])
      /\ \A n \in Try(t) : AttemptProgress(media[t], n, resolver[t][n], asset[t][n])

LEMMA MediaProgressTypes ==
    ASSUME MediaInvariant, MediaProgress
    PROVE  MediaTypeOK
<1> SUFFICES ASSUME NEW t \in MediaTask
             PROVE  /\ media[t].status \in MediaStatus /\ media[t].attempt \in 0 .. media[t].tries
                    /\ media[t].total \in {0, Cardinality(SpecsOf(t))}
                    /\ media[t].resolved \in 0 .. media[t].total
                    /\ \A n \in Try(t), s \in SpecsOf(t) :
                         /\ asset[t][n][s].status \in {"ABSENT", "PENDING", "READY", "FAILED"}
                         /\ asset[t][n][s].status = "READY" => asset[t][n][s].upload \in MediaAccount
                         /\ resolver[t][n].stage # "idle" /\ asset[t][n][s].status # "ABSENT" =>
                              asset[t][n][s].account = resolver[t][n].account
  BY DEF MediaTypeOK
<1>1. media[t] \in MediaRow
  BY DEF MediaInvariant, MediaShape
<1>2. \A n \in Try(t), s \in SpecsOf(t) : asset[t][n][s] \in AssetRow
  BY DEF MediaInvariant, MediaShape
<1>3. TaskProgress(media[t])
  BY DEF MediaProgress
<1>4. \A n \in Try(t) : AttemptProgress(media[t], n, resolver[t][n], asset[t][n])
  BY DEF MediaProgress
<1> QED BY <1>1, <1>2, <1>3, <1>4 DEF MediaRow, AssetRow, TaskProgress, AttemptProgress, SpecsOf

\* What a step of a task leaves of its attempts' progress.
RowGoesOn(t) ==
    /\ media'[t].specs = media[t].specs /\ media'[t].tries = media[t].tries
    /\ media'[t].attempt \in Nat /\ media'[t].attempt >= media[t].attempt
    /\ media'[t].total \in {media[t].total, Cardinality(media[t].specs)}
    /\ TaskProgress(media'[t])

\* A step of one attempt.
LEMMA ProgressStep ==
    ASSUME MediaInvariant, MediaProgress, NEW t \in MediaTask, RowGoesOn(t),
           \A u \in MediaTask \ {t} : media'[u] = media[u],
           \A u \in MediaTask : \A m \in Try(u) :
             \/ asset'[u][m] = asset[u][m] /\ resolver'[u][m] = resolver[u][m]
             \/ u = t /\ AttemptProgress(media'[t], m, resolver'[t][m], asset'[t][m])
    PROVE  MediaProgress'
<1>1. Try(t)' = Try(t) /\ \A u \in MediaTask \ {t} : Try(u)' = Try(u)
  BY DEF RowGoesOn, Try
<1>2. \A u \in MediaTask : TaskProgress(media'[u])
  BY DEF RowGoesOn, MediaProgress
<1>3. ASSUME NEW u \in MediaTask, NEW m \in Try(u),
             asset'[u][m] = asset[u][m], resolver'[u][m] = resolver[u][m]
      PROVE  AttemptProgress(media'[u], m, resolver'[u][m], asset'[u][m])
  <2>1. AttemptProgress(media[u], m, resolver[u][m], asset[u][m])
    BY DEF MediaProgress
  <2>2. CASE u # t
    BY <1>3, <2>1, <2>2
  <2>3. CASE u = t
    <3>1. m \in Nat /\ media[t].attempt \in Nat /\ media'[t].attempt \in Nat
      <4>1. media[t] \in MediaRow
        BY DEF MediaInvariant, MediaShape
      <4> QED BY <2>3, <4>1 DEF MediaRow, Try, RowGoesOn
    <3>2. m > media'[t].attempt => m > media[t].attempt
      BY <3>1 DEF RowGoesOn
    <3> QED BY <1>3, <2>1, <2>3, <3>2 DEF RowGoesOn, AttemptProgress
  <2> QED BY <2>2, <2>3
<1>4. \A u \in MediaTask : \A m \in Try(u) :
        AttemptProgress(media'[u], m, resolver'[u][m], asset'[u][m])
  BY <1>3
<1> QED BY <1>1, <1>2, <1>4 DEF MediaProgress

\* The row of a task, as its record.
LEMMA RowStays ==
    ASSUME MediaInvariant, MediaProgress, NEW t \in MediaTask, media'[t] = media[t]
    PROVE  RowGoesOn(t)
<1>1. media[t] \in MediaRow
  BY DEF MediaInvariant, MediaShape
<1>2. TaskProgress(media[t])
  BY DEF MediaProgress
<1> QED BY <1>1, <1>2 DEF RowGoesOn, MediaRow

LEMMA RowTurns ==
    ASSUME MediaInvariant, MediaProgress, NEW t \in MediaTask, NEW status,
           media' = [media EXCEPT ![t].status = status]
    PROVE  RowGoesOn(t) /\ \A u \in MediaTask \ {t} : media'[u] = media[u]
<1>1. media[t] \in MediaRow /\ media \in [MediaTask -> MediaRow]
  BY DEF MediaInvariant, MediaShape
<1>2. TaskProgress(media[t])
  BY DEF MediaProgress
<1>3. /\ media'[t].specs = media[t].specs /\ media'[t].tries = media[t].tries
      /\ media'[t].attempt = media[t].attempt /\ media'[t].total = media[t].total
      /\ media'[t].resolved = media[t].resolved
  BY <1>1 DEF MediaRow
<1> QED BY <1>1, <1>2, <1>3 DEF RowGoesOn, TaskProgress, MediaRow

\* A handler's new state, and rows as they are.
LEMMA HandlerTurns ==
    ASSUME MediaInvariant, MediaProgress, NEW t \in MediaTask, NEW n \in Try(t), NEW work,
           resolver' = [resolver EXCEPT ![t][n] = work], asset' = asset,
           RowGoesOn(t), \A u \in MediaTask \ {t} : media'[u] = media[u],
           AttemptProgress(media'[t], n, work, asset[t][n])
    PROVE  MediaProgress'
<1>1. \A u \in MediaTask : \A m \in Try(u) :
        IF u = t /\ m = n THEN resolver'[u][m] = work ELSE resolver'[u][m] = resolver[u][m]
  BY DEF MediaInvariant, MediaShape
<1>2. \A u \in MediaTask : \A m \in Try(u) :
        \/ asset'[u][m] = asset[u][m] /\ resolver'[u][m] = resolver[u][m]
        \/ u = t /\ AttemptProgress(media'[t], m, resolver'[t][m], asset'[t][m])
  BY <1>1
<1> QED BY <1>2, ProgressStep

\* A handler that ends.
LEMMA HandlerEnds ==
    ASSUME MediaInvariant, MediaProgress, NEW t \in MediaTask, NEW n \in Try(t),
           resolver' = [resolver EXCEPT ![t][n] = NoResolver], asset' = asset,
           RowGoesOn(t), \A u \in MediaTask \ {t} : media'[u] = media[u]
    PROVE  MediaProgress'
<1>1. AttemptProgress(media[t], n, resolver[t][n], asset[t][n])
  BY DEF MediaProgress
<1>2. n \in Nat /\ media[t].attempt \in Nat
  <2>1. media[t] \in MediaRow
    BY DEF MediaInvariant, MediaShape
  <2> QED BY <2>1 DEF MediaRow, Try
<1>3. NoResolver.stage = "idle"
  BY DEF NoResolver
<1>4. n > media'[t].attempt => n > media[t].attempt
  BY <1>2 DEF RowGoesOn
<1>5. AttemptProgress(media'[t], n, NoResolver, asset[t][n])
  BY <1>1, <1>3, <1>4 DEF AttemptProgress, RowGoesOn
<1> QED BY <1>5, HandlerTurns

\* A handler that resolves has begun and counts its rows.
LEMMA ResolvingCounts ==
    ASSUME MediaInvariant, MediaProgress, NEW t \in MediaTask, NEW n \in Try(t),
           resolver[t][n].stage = "resolving"
    PROVE  /\ ~(n > media[t].attempt) /\ media[t].total = Cardinality(SpecsOf(t))
           /\ resolver[t][n].account \in MediaAccount
           /\ \A s \in SpecsOf(t) : asset[t][n][s].account = resolver[t][n].account
<1>1. AttemptProgress(media[t], n, resolver[t][n], asset[t][n])
  BY DEF MediaProgress
<1>2. HandlerHolds(t, resolver[t][n], asset[t][n])
  BY AtWork
<1> QED BY <1>1, <1>2 DEF AttemptProgress, HandlerHolds, SpecsOf

LEMMA AssignProgresses ==
    ASSUME MediaInvariant, MediaProgress, NEW t \in MediaTask, NEW a \in MediaAccount,
           AssignMedia(t, a)
    PROVE  MediaProgress'
<1>1. /\ media[t] \in MediaRow /\ media[t].attempt < media[t].tries
      /\ media \in [MediaTask -> MediaRow] /\ TaskProgress(media[t])
  BY DEF MediaInvariant, MediaShape, AssignMedia, MediaProgress
<1>2. PICK n \in Try(t) : n = media[t].attempt + 1
  BY <1>1 DEF MediaRow, Try
<1> DEFINE work == [NoResolver EXCEPT !.stage = "assigned", !.account = a]
<1>3. /\ media'[t].specs = media[t].specs /\ media'[t].tries = media[t].tries
      /\ media'[t].attempt = n /\ media'[t].total = media[t].total
      /\ media'[t].resolved = media[t].resolved
      /\ \A u \in MediaTask \ {t} : media'[u] = media[u]
  BY <1>1, <1>2 DEF AssignMedia, MediaRow
<1>4. RowGoesOn(t)
  BY <1>1, <1>2, <1>3 DEF RowGoesOn, TaskProgress, MediaRow, Try
<1>5. resolver' = [resolver EXCEPT ![t][n] = work] /\ asset' = asset
  BY <1>3 DEF AssignMedia
<1>6. work.stage = "assigned"
  BY DEF NoResolver
<1> HIDE DEF work
<1>7. AttemptProgress(media[t], n, resolver[t][n], asset[t][n]) /\ n > media[t].attempt
      /\ n \in Nat
  BY <1>1, <1>2 DEF MediaProgress, MediaRow
<1>8. AttemptProgress(media'[t], n, work, asset[t][n])
  BY <1>3, <1>6, <1>7 DEF AttemptProgress
<1> QED BY <1>3, <1>4, <1>5, <1>8, HandlerTurns

LEMMA LeavingProgresses ==
    ASSUME MediaInvariant, MediaProgress, NEW t \in MediaTask, NEW status,
           LeavesResolution(t, status)
    PROVE  MediaProgress'
<1>1. RowGoesOn(t) /\ \A u \in MediaTask \ {t} : media'[u] = media[u]
  BY RowTurns DEF LeavesResolution
<1>2. asset' = asset /\ resolver' = resolver
  BY DEF LeavesResolution
<1> QED BY <1>1, <1>2, ProgressStep

LEMMA EndsProgress ==
    ASSUME MediaInvariant, MediaProgress, NEW t \in MediaTask, NEW n \in Try(t),
           ResolutionFails(t, n) \/ GatherMedia(t, n)
    PROVE  MediaProgress'
<1>1. asset' = asset /\ resolver' = [resolver EXCEPT ![t][n] = NoResolver]
  BY DEF ResolutionFails, GatherMedia
<1>2. CASE media' = media
  BY <1>1, <1>2, RowStays, HandlerEnds
<1>3. CASE media' = [media EXCEPT ![t].status = "SUBMITTING"]
  BY <1>1, <1>3, RowTurns, HandlerEnds
<1> QED BY <1>2, <1>3 DEF ResolutionFails, GatherMedia

LEMMA DownloadProgresses ==
    ASSUME MediaInvariant, MediaProgress, NEW t \in MediaTask, NEW n \in Try(t),
           NEW s \in SpecsOf(t), StartDownload(t, n, s)
    PROVE  MediaProgress'
<1> DEFINE old == resolver[t][n]
           got == [old.got EXCEPT ![s].state = "loads"]
           work == [stage |-> old.stage, account |-> old.account, got |-> got]
<1>1. asset' = asset /\ media' = media
  BY DEF StartDownload
<1>2. resolver' = [resolver EXCEPT ![t][n] = work]
  <2>1. WorkShape(old)
    BY AtWork
  <2>2. resolver' = [resolver EXCEPT ![t][n] = [old EXCEPT !.got = got]]
    BY DEF StartDownload
  <2> HIDE DEF got
  <2>3. [old EXCEPT !.got = got] = work
    BY <2>1, WorkGets
  <2> QED BY <2>2, <2>3
<1>3. work.stage = old.stage /\ work.account = old.account
  OBVIOUS
<1> HIDE DEF work
<1>4. AttemptProgress(media[t], n, old, asset[t][n])
  BY DEF MediaProgress
<1>5. AttemptProgress(media'[t], n, work, asset[t][n])
  BY <1>1, <1>3, <1>4 DEF AttemptProgress
<1> QED BY <1>1, <1>2, <1>5, RowStays, HandlerTurns

\* One row of an attempt that resolves is written.
LEMMA RowIsWritten ==
    ASSUME MediaInvariant, MediaProgress, NEW t \in MediaTask, NEW n \in Try(t),
           NEW s \in SpecsOf(t), NEW row, NEW got,
           resolver[t][n].stage = "resolving",
           asset' = [asset EXCEPT ![t][n][s] = row],
           row.account = asset[t][n][s].account,
           row.status = "READY" => row.upload \in MediaAccount,
           resolver' = [resolver EXCEPT ![t][n].got = got],
           RowGoesOn(t), \A u \in MediaTask \ {t} : media'[u] = media[u],
           media'[t].attempt = media[t].attempt, media'[t].total = media[t].total
    PROVE  MediaProgress'
<1> DEFINE old == resolver[t][n]
           work == [stage |-> old.stage, account |-> old.account, got |-> got]
<1>1. resolver' = [resolver EXCEPT ![t][n] = work]
  <2>1. WorkShape(old)
    BY AtWork
  <2>2. [old EXCEPT !.got = got] = work
    BY <2>1, WorkGets
  <2> QED BY <2>2
<1>2. work.stage = old.stage /\ work.account = old.account
  OBVIOUS
<1> HIDE DEF work
<1>3. \A u \in MediaTask : \A m \in Try(u) :
        u # t \/ m # n => asset'[u][m] = asset[u][m] /\ resolver'[u][m] = resolver[u][m]
  BY <1>1 DEF MediaInvariant, MediaShape
<1>4. /\ asset'[t][n] = [asset[t][n] EXCEPT ![s] = row] /\ resolver'[t][n] = work
      /\ asset[t][n] \in [SpecsOf(t) -> AssetRow]
  BY <1>1, AtWork DEF MediaInvariant, MediaShape
<1>5. asset'[t][n][s] = row /\ \A u \in SpecsOf(t) \ {s} : asset'[t][n][u] = asset[t][n][u]
  BY <1>4
<1>6. AttemptProgress(media[t], n, old, asset[t][n])
  BY DEF MediaProgress
<1>7. AttemptProgress(media'[t], n, work, asset'[t][n])
  <2>1. media'[t].specs = SpecsOf(t) /\ media[t].specs = SpecsOf(t)
    BY DEF RowGoesOn, SpecsOf
  <2>2. ~(n > media'[t].attempt) /\ media'[t].total = Cardinality(SpecsOf(t))
    BY ResolvingCounts
  <2>3. \A u \in SpecsOf(t) :
          /\ asset'[t][n][u].status = "READY" => asset'[t][n][u].upload \in MediaAccount
          /\ asset'[t][n][u].account = work.account
    BY <1>2, <1>5, <1>6, <2>1, ResolvingCounts DEF AttemptProgress
  <2> QED BY <2>1, <2>2, <2>3 DEF AttemptProgress
<1>8. \A u \in MediaTask : \A m \in Try(u) :
        \/ asset'[u][m] = asset[u][m] /\ resolver'[u][m] = resolver[u][m]
        \/ u = t /\ AttemptProgress(media'[t], m, resolver'[t][m], asset'[t][m])
  BY <1>3, <1>4, <1>7
<1> QED BY <1>8, ProgressStep

LEMMA FailureProgresses ==
    ASSUME MediaInvariant, MediaProgress, NEW t \in MediaTask, NEW n \in Try(t),
           NEW s \in SpecsOf(t), MediaFails(t, n, s)
    PROVE  MediaProgress'
<1> DEFINE row == [asset[t][n][s] EXCEPT !.status = "FAILED"]
           got == [resolver[t][n].got EXCEPT ![s] = Error]
<1>1. /\ media' = media /\ asset' = [asset EXCEPT ![t][n][s] = row]
      /\ resolver' = [resolver EXCEPT ![t][n].got = got]
      /\ resolver[t][n].stage = "resolving"
  BY DEF MediaFails
<1>2. asset[t][n][s] \in AssetRow
  BY DEF MediaInvariant, MediaShape
<1>3. row.account = asset[t][n][s].account /\ row.status = "FAILED"
  BY <1>2 DEF AssetRow
<1> HIDE DEF row, got
<1> QED BY <1>1, <1>3, RowStays, RowIsWritten

LEMMA ArrivalProgresses ==
    ASSUME MediaInvariant, MediaProgress, NEW t \in MediaTask, NEW n \in Try(t),
           NEW s \in SpecsOf(t), MediaArrives(t, n, s)
    PROVE  MediaProgress'
<1> DEFINE a == resolver[t][n].account
           row == [asset[t][n][s] EXCEPT !.status = "READY", !.upload = a, !.reused = FALSE]
           got == [resolver[t][n].got EXCEPT ![s] = Got(a, FALSE)]
           arrived == {u \in SpecsOf(t) : asset'[t][n][u].status = "READY"}
<1>1. /\ asset' = [asset EXCEPT ![t][n][s] = row]
      /\ resolver' = [resolver EXCEPT ![t][n].got = got]
      /\ resolver[t][n].stage = "resolving"
      /\ media' = [media EXCEPT ![t].resolved = Cardinality(arrived)]
  BY DEF MediaArrives
<1>2. asset[t][n][s] \in AssetRow
  BY DEF MediaInvariant, MediaShape
<1>3. row.account = asset[t][n][s].account /\ row.upload = a
  BY <1>2 DEF AssetRow
<1>4. a \in MediaAccount /\ media[t].total = Cardinality(SpecsOf(t))
  BY <1>1, ResolvingCounts
<1>5. Cardinality(arrived) \in 0 .. media[t].total
  <2>1. IsFiniteSet(SpecsOf(t)) /\ arrived \subseteq SpecsOf(t)
    BY AtWork
  <2> HIDE DEF arrived
  <2> QED BY <1>4, <2>1, FS_Subset, FS_CardinalityType
<1>6. /\ media[t] \in MediaRow /\ media \in [MediaTask -> MediaRow] /\ TaskProgress(media[t])
  BY DEF MediaInvariant, MediaShape, MediaProgress
<1> HIDE DEF arrived, row, got
<1>7. /\ media'[t].specs = media[t].specs /\ media'[t].tries = media[t].tries
      /\ media'[t].attempt = media[t].attempt /\ media'[t].total = media[t].total
      /\ media'[t].resolved = Cardinality(arrived)
      /\ \A u \in MediaTask \ {t} : media'[u] = media[u]
  BY <1>1, <1>6 DEF MediaRow
<1>8. RowGoesOn(t)
  BY <1>5, <1>6, <1>7 DEF RowGoesOn, TaskProgress, MediaRow
<1> QED BY <1>1, <1>3, <1>4, <1>7, <1>8, RowIsWritten

LEMMA InitializationProgresses ==
    ASSUME MediaInvariant, MediaProgress, NEW t \in MediaTask, NEW n \in Try(t),
           InitializeMedia(t, n)
    PROVE  MediaProgress'
<1> DEFINE old == resolver[t][n]
           a == old.account
           hits == {s \in SpecsOf(t) : Cached(a, s) # {}}
<1>1. old.stage = "assigned"
  BY DEF InitializeMedia
<1>2. /\ HandlerHolds(t, old, asset[t][n]) /\ WorkShape(old)
      /\ media[t] \in MediaRow /\ IsFiniteSet(SpecsOf(t))
      /\ media \in [MediaTask -> MediaRow] /\ TaskProgress(media[t])
  BY AtWork DEF MediaInvariant, MediaShape, MediaProgress
<1>3. a \in MediaAccount
  BY <1>1, <1>2 DEF HandlerHolds
<1>4. PICK hit :
        /\ \A s \in hits : hit[s] \in Cached(a, s)
        /\ asset' = [asset EXCEPT ![t][n] =
                       [s \in SpecsOf(t) |->
                          [status |-> IF s \in hits THEN "READY" ELSE "PENDING", account |-> a,
                           upload |-> IF s \in hits THEN hit[s].upload ELSE "none",
                           reused |-> s \in hits]]]
        /\ resolver' = [resolver EXCEPT ![t][n] =
                          [@ EXCEPT !.stage = "resolving",
                                    !.got = [s \in SpecsOf(t) |->
                                               IF s \in hits THEN Got(hit[s].upload, TRUE) ELSE Waits]]]
  BY DEF InitializeMedia
<1>5. ASSUME NEW s \in hits
      PROVE  hit[s].upload \in MediaAccount
  <2>1. hit[s] \in RowsOfSource(s) /\ hit[s].status = "READY"
    BY <1>4 DEF Cached
  <2>2. PICK u \in MediaTask : \E m \in Try(u), v \in SpecsOf(u) : hit[s] = asset[u][m][v]
    BY <2>1 DEF RowsOfSource
  <2>3. PICK m \in Try(u), v \in SpecsOf(u) : hit[s] = asset[u][m][v]
    BY <2>2
  <2>4. AttemptProgress(media[u], m, resolver[u][m], asset[u][m])
    BY DEF MediaProgress
  <2> QED BY <2>1, <2>3, <2>4 DEF AttemptProgress, SpecsOf
<1> DEFINE rows == [s \in SpecsOf(t) |->
                       [status |-> IF s \in hits THEN "READY" ELSE "PENDING", account |-> a,
                        upload |-> IF s \in hits THEN hit[s].upload ELSE "none",
                        reused |-> s \in hits]]
           got == [s \in SpecsOf(t) |->
                     IF s \in hits THEN Got(hit[s].upload, TRUE) ELSE Waits]
           work == [stage |-> "resolving", account |-> a, got |-> got]
<1>6. asset' = [asset EXCEPT ![t][n] = rows]
  BY <1>4
<1>7. resolver' = [resolver EXCEPT ![t][n] = work]
  <2>1. resolver' = [resolver EXCEPT ![t][n] = [old EXCEPT !.stage = "resolving", !.got = got]]
    BY <1>4
  <2> HIDE DEF got
  <2>2. [old EXCEPT !.stage = "resolving", !.got = got] = work
    BY <1>2, WorkTurns
  <2> QED BY <2>1, <2>2
<1>8. /\ Cardinality(hits) \in 0 .. Cardinality(SpecsOf(t))
      /\ Cardinality(SpecsOf(t)) \in Nat
  <2>1. hits \subseteq SpecsOf(t)
    OBVIOUS
  <2> HIDE DEF hits
  <2> QED BY <1>2, <2>1, FS_Subset, FS_CardinalityType
<1>9. media' = [media EXCEPT ![t].resolved = Cardinality(hits),
                             ![t].total = Cardinality(SpecsOf(t))]
  BY DEF InitializeMedia, hits
<1>10. \A s \in SpecsOf(t) :
         /\ rows[s].account = a
         /\ rows[s].status = "READY" => rows[s].upload \in MediaAccount
  <2> SUFFICES ASSUME NEW s \in SpecsOf(t)
               PROVE  /\ rows[s].account = a
                      /\ rows[s].status = "READY" => rows[s].upload \in MediaAccount
    OBVIOUS
  <2>1. CASE s \in hits
    BY <1>5, <2>1
  <2>2. CASE s \notin hits
    <3>1. rows[s].account = a /\ rows[s].status = "PENDING"
      BY <2>2
    <3> QED BY <3>1
  <2> QED BY <2>1, <2>2
<1> HIDE DEF hits, rows, got
<1>11. /\ media'[t].specs = SpecsOf(t) /\ media'[t].tries = media[t].tries
       /\ media'[t].attempt = media[t].attempt /\ media'[t].total = Cardinality(SpecsOf(t))
       /\ media'[t].resolved = Cardinality(hits)
       /\ \A u \in MediaTask \ {t} : media'[u] = media[u]
  BY <1>2, <1>9 DEF MediaRow, SpecsOf
<1>12. RowGoesOn(t)
  BY <1>2, <1>8, <1>11 DEF RowGoesOn, TaskProgress, MediaRow, SpecsOf
<1>13. work.stage = "resolving" /\ work.account = a
  OBVIOUS
<1> HIDE DEF work
<1>14. ~(n > media[t].attempt)
  <2>1. AttemptProgress(media[t], n, old, asset[t][n])
    BY DEF MediaProgress
  <2> QED BY <1>1, <2>1 DEF AttemptProgress
<1>15. AttemptProgress(media'[t], n, work, rows)
  BY <1>10, <1>11, <1>13, <1>14 DEF AttemptProgress
<1>16. /\ asset'[t][n] = rows /\ resolver'[t][n] = work
       /\ \A u \in MediaTask : \A m \in Try(u) :
            u # t \/ m # n => asset'[u][m] = asset[u][m] /\ resolver'[u][m] = resolver[u][m]
  BY <1>6, <1>7 DEF MediaInvariant, MediaShape
<1>17. \A u \in MediaTask : \A m \in Try(u) :
         \/ asset'[u][m] = asset[u][m] /\ resolver'[u][m] = resolver[u][m]
         \/ u = t /\ AttemptProgress(media'[t], m, resolver'[t][m], asset'[t][m])
  BY <1>15, <1>16
<1> QED BY <1>11, <1>12, <1>17, ProgressStep

LEMMA MediaProgressStarts == MediaInit => MediaProgress
<1> SUFFICES ASSUME MediaInit PROVE MediaProgress
  OBVIOUS
<1>1. PICK c \in MediaCases :
        /\ media = [t \in MediaTask |->
                     [family |-> c[t].family, specs |-> c[t].specs, tries |-> c[t].tries,
                      status |-> "QUEUED", attempt |-> 0, resolved |-> 0, total |-> 0]]
        /\ asset = [t \in MediaTask |-> [n \in 1 .. c[t].tries |-> [s \in c[t].specs |-> NoAsset]]]
        /\ resolver = [t \in MediaTask |-> [n \in 1 .. c[t].tries |-> NoResolver]]
  BY DEF MediaInit
<1> SUFFICES ASSUME NEW t \in MediaTask
             PROVE  /\ TaskProgress(media[t])
                    /\ \A n \in Try(t) :
                         AttemptProgress(media[t], n, resolver[t][n], asset[t][n])
  BY DEF MediaProgress
<1>2. c[t].tries \in Nat
  BY MediaAssumption
<1>3. TaskProgress(media[t])
  BY <1>1, <1>2 DEF TaskProgress
<1>4. NoResolver.stage = "idle" /\ NoAsset.status = "ABSENT"
  BY DEF NoResolver, NoAsset
<1>5. ASSUME NEW n \in Try(t)
      PROVE  /\ resolver[t][n] = NoResolver
             /\ \A s \in media[t].specs : asset[t][n][s] = NoAsset
  BY <1>1, <1>5 DEF Try
<1> QED BY <1>3, <1>4, <1>5 DEF AttemptProgress

LEMMA MediaProgressGoesOn ==
    MediaInvariant /\ MediaProgress /\ [MediaNext]_mediaVars => MediaProgress'
<1> SUFFICES ASSUME MediaInvariant, MediaProgress, [MediaNext]_mediaVars PROVE MediaProgress'
  OBVIOUS
<1>1. CASE \/ \E t \in MediaTask, a \in MediaAccount : AssignMedia(t, a)
           \/ \E t \in MediaTask, status \in {"QUEUED", "ENDED"} : LeavesResolution(t, status)
  BY <1>1, AssignProgresses, LeavingProgresses
<1>2. ASSUME NEW t \in MediaTask, NEW n \in Try(t),
             \/ InitializeMedia(t, n) \/ ResolutionFails(t, n) \/ GatherMedia(t, n)
             \/ \E s \in SpecsOf(t) :
                  StartDownload(t, n, s) \/ MediaArrives(t, n, s) \/ MediaFails(t, n, s)
      PROVE  MediaProgress'
  BY <1>2, InitializationProgresses, EndsProgress, DownloadProgresses, ArrivalProgresses,
     FailureProgresses
<1>3. CASE UNCHANGED mediaVars
  BY <1>3 DEF mediaVars, MediaProgress, Try
<1> QED BY <1>1, <1>2, <1>3 DEF MediaNext

(* The rows of an attempt are its account's, whichever attempt wrote last, *)
(* and the progress a client sees never exceeds the references of the task *)
(* (initialize_media_assets, record_media_ready).                          *)
THEOREM MediaTypeCorrect == MediaSpecification => []MediaTypeOK
<1>1. MediaInvariant /\ MediaProgress => MediaTypeOK
  BY MediaProgressTypes
<1> QED
  BY <1>1, MediaStarts, MediaGoesOn, MediaProgressStarts, MediaProgressGoesOn, PTL
  DEF MediaSpecification

-----------------------------------------------------------------------------
(* The circuit of a host.                                                  *)

Outcomes == Seq([what : {"failure", "success", "trial"}, at : Nat])

\* Outcomes are recorded in the order of time.
InOrder ==
    /\ instant \in Nat
    /\ outcomes \in Outcomes
    /\ \A i \in 1 .. Len(outcomes) : outcomes[i].at <= instant
    /\ \A i, j \in 1 .. Len(outcomes) : i <= j => outcomes[i].at <= outcomes[j].at

Before == Len(outcomes) - Len(circuit.failures)

\* What the circuit remembers are the last outcomes, all of them failures
\* within one window, and what came before is no failure of that window.
RemembersTheLast ==
    /\ circuit.failures \in Seq(Nat)
    /\ Before >= 0
    /\ \A k \in 1 .. Len(circuit.failures) :
         /\ outcomes[Before + k].what = "failure"
         /\ outcomes[Before + k].at = circuit.failures[k]
         /\ outcomes[Len(outcomes)].at - circuit.failures[k] <= Window
    /\ Before > 0 /\ outcomes[Before].what = "failure" =>
         outcomes[Len(outcomes)].at - outcomes[Before].at > Window

CircuitInvariant == InOrder /\ RemembersTheLast /\ CircuitIsEarned

\* The last outcome opens the circuit if as many failures are remembered.
LEMMA RememberedFailuresOpen ==
    InOrder /\ RemembersTheLast /\ Len(outcomes) > 0
      => (Opens(Len(outcomes)) <=> Len(circuit.failures) >= Threshold)
<1> SUFFICES ASSUME InOrder, RemembersTheLast, Len(outcomes) > 0
             PROVE  Opens(Len(outcomes)) <=> Len(circuit.failures) >= Threshold
  OBVIOUS
<1> DEFINE L == Len(outcomes)
           n == Len(circuit.failures)
<1>1. /\ L \in Nat /\ n \in Nat /\ Before \in Nat /\ Before = L - n
      /\ Threshold \in Nat /\ Threshold >= 1 /\ Window \in Nat
  BY CircuitAssumption DEF InOrder, RemembersTheLast, Before, Outcomes
<1>2. ASSUME n >= Threshold PROVE Opens(L)
  <2>1. SUFFICES ASSUME NEW j \in (L - Threshold + 1) .. L
                 PROVE  outcomes[j].what = "failure" /\ outcomes[L].at - outcomes[j].at <= Window
    BY <1>1, <1>2 DEF Opens, RemembersTheLast
  <2>2. PICK k \in 1 .. n : j = Before + k
    <3>1. j \in Int /\ L - Threshold + 1 <= j /\ j <= L
      BY <1>1, <2>1
    <3>2. Before \in Int /\ n \in Int /\ Before + 1 <= j /\ j <= Before + n
      BY <1>1, <1>2, <3>1
    <3>3. j - Before \in 1 .. n /\ j = Before + (j - Before)
      BY <3>1, <3>2
    <3> QED
      BY <3>3
  <2> QED
    BY <2>2 DEF RemembersTheLast
<1>3. ASSUME Opens(L), n < Threshold PROVE FALSE
  <2>1. Before \in (L - Threshold + 1) .. L /\ Before > 0
    BY <1>1, <1>3 DEF Opens
  <2>2. outcomes[Before].what = "failure" /\ outcomes[L].at - outcomes[Before].at <= Window
    BY <1>3, <2>1 DEF Opens
  <2>3. outcomes[L].at \in Nat /\ outcomes[Before].at \in Nat
    <3>1. L \in 1 .. L /\ Before \in 1 .. L
      BY <1>1, <2>1
    <3>2. ASSUME NEW i \in 1 .. L PROVE outcomes[i].at \in Nat
      <4>1. outcomes[i] \in [what : {"failure", "success", "trial"}, at : Nat]
        BY <3>2, ElementOfSeq DEF InOrder, Outcomes
      <4> QED
        BY <4>1
    <3> QED
      BY <3>1, <3>2
  <2> QED
    BY <1>1, <2>1, <2>2, <2>3 DEF RemembersTheLast
<1> QED
  BY <1>1, <1>2, <1>3

\* What is recorded extends the history.
LEMMA HistoryExtended ==
    ASSUME InOrder, NEW w \in {"failure", "success", "trial"}, Happens(w), instant' = instant
    PROVE  /\ InOrder'
           /\ Len(outcomes') = Len(outcomes) + 1
           /\ \A i \in 1 .. Len(outcomes) : outcomes'[i] = outcomes[i]
           /\ outcomes'[Len(outcomes) + 1] = [what |-> w, at |-> instant]
           /\ DOMAIN outcomes = 1 .. Len(outcomes)
           /\ DOMAIN outcomes' = 1 .. Len(outcomes) + 1
<1> DEFINE L == Len(outcomes)
           new == [what |-> w, at |-> instant]
<1>1. L \in Nat /\ instant \in Nat /\ outcomes \in Outcomes /\ DOMAIN outcomes = 1 .. L
  BY DEF InOrder, Outcomes
<1>2. new \in [what : {"failure", "success", "trial"}, at : Nat]
  BY <1>1
<1>3. /\ outcomes' \in Outcomes
      /\ Len(outcomes') = L + 1
      /\ DOMAIN outcomes' = 1 .. L + 1
      /\ \A i \in 1 .. L : outcomes'[i] = outcomes[i]
      /\ outcomes'[L + 1] = new
  BY <1>1, <1>2 DEF Outcomes, Happens
<1>4. ASSUME NEW i \in 1 .. L + 1 PROVE outcomes'[i].at <= instant
  <2>1. CASE i \in 1 .. L
    BY <1>3, <2>1 DEF InOrder
  <2>2. CASE i = L + 1
    BY <1>1, <1>3, <2>2
  <2> QED
    BY <1>1, <2>1, <2>2
<1>5. ASSUME NEW i \in 1 .. L + 1, NEW j \in 1 .. L + 1, i <= j
      PROVE  outcomes'[i].at <= outcomes'[j].at
  <2>1. CASE j \in 1 .. L
    BY <1>1, <1>3, <1>5, <2>1 DEF InOrder
  <2>2. CASE j = L + 1
    BY <1>3, <1>4, <2>2
  <2> QED
    BY <1>1, <2>1, <2>2
<1>6. InOrder'
  BY <1>1, <1>3, <1>4, <1>5 DEF InOrder
<1> QED
  BY <1>1, <1>3, <1>6
\* A success and a trial forget the failures.
LEMMA ForgettingIsSafe ==
    ASSUME CircuitInvariant, NEW w \in {"success", "trial"}, Happens(w),
           instant' = instant, circuit' = NoState
    PROVE  CircuitInvariant'
<1> DEFINE L == Len(outcomes)
<1>1. /\ InOrder'
      /\ L \in Nat /\ Len(outcomes') = L + 1
      /\ outcomes'[L + 1].what = w
      /\ DOMAIN outcomes' = 1 .. L + 1
  BY HistoryExtended DEF CircuitInvariant, InOrder, Outcomes
<1>2. circuit'.failures = <<>> /\ circuit'.openUntil = 0 /\ Len(circuit'.failures) = 0
  BY DEF NoState
<1>3. RemembersTheLast'
  <2>1. Before' = L + 1 /\ outcomes'[Before'].what # "failure"
    BY <1>1, <1>2 DEF Before
  <2> QED
    BY <1>1, <1>2, <2>1 DEF RemembersTheLast
<1>4. \A i \in 1 .. L + 1 : ~ FailingSince(i)'
  <2>1. SUFFICES ASSUME NEW i \in 1 .. L + 1 PROVE ~ FailingSince(i)'
    OBVIOUS
  <2>2. L + 1 \in i .. L + 1 /\ outcomes'[L + 1].what # "failure"
    BY <1>1, <2>1
  <2> QED
    BY <1>1, <2>2 DEF FailingSince
<1>5. {i \in DOMAIN outcomes : Opens(i) /\ FailingSince(i)}' = {}
  BY <1>1, <1>4
<1>6. CircuitIsEarned'
  BY <1>2, <1>5 DEF CircuitIsEarned
<1> QED
  BY <1>1, <1>3, <1>6 DEF CircuitInvariant

\* An interval has no set without a greatest element.
LEMMA LargestOfIntervals ==
    ASSUME NEW n \in Nat, NEW S \in SUBSET (1 .. n), S # {}
    PROVE  Max(S) \in S
<1> DEFINE D == {d \in Nat : n - d \in S}
<1>1. PICK s \in S : s \in 1 .. n
  OBVIOUS
<1>2. n - s \in Nat /\ n - (n - s) = s
  BY <1>1
<1>3. D \subseteq Nat /\ D # {}
  BY <1>1, <1>2
<1>4. PICK d \in D : \A e \in D : d <= e
  <2> HIDE DEF D
  <2> QED
    BY <1>3, SmallestOfNaturals
<1>5. \A i \in S : n - d >= i
  <2>1. SUFFICES ASSUME NEW i \in S PROVE n - d >= i
    OBVIOUS
  <2>2. i \in 1 .. n
    OBVIOUS
  <2>3. n - i \in Nat /\ n - (n - i) = i
    BY <2>2
  <2>4. d <= n - i
    BY <1>4, <2>3
  <2> QED
    BY <1>4, <2>2, <2>4
<1> QED
  BY <1>4, <1>5 DEF Max

\* What is kept of the failures: the last ones, from the first that is recent.
LEMMA KeptFailures ==
    ASSUME InOrder, RemembersTheLast
    PROVE  \E p \in 0 .. Len(circuit.failures) :
             /\ RecentFailures \in Seq(Nat)
             /\ Len(RecentFailures) = Len(circuit.failures) - p
             /\ \A k \in 1 .. Len(RecentFailures) :
                  /\ RecentFailures[k] = circuit.failures[p + k]
                  /\ instant - RecentFailures[k] <= Window
             /\ p > 0 => instant - circuit.failures[p] > Window
<1> DEFINE f == circuit.failures
           n == Len(f)
           recent == {i \in DOMAIN f : f[i] >= instant - Window}
<1>1. /\ f \in Seq(Nat) /\ n \in Nat /\ DOMAIN f = 1 .. n
      /\ instant \in Nat /\ Window \in Nat
  BY CircuitAssumption DEF InOrder, RemembersTheLast
<1>2. \A i, j \in 1 .. n : i <= j => f[i] <= f[j]
  <2>1. SUFFICES ASSUME NEW i \in 1 .. n, NEW j \in 1 .. n, i <= j PROVE f[i] <= f[j]
    OBVIOUS
  <2>2. Before + i \in 1 .. Len(outcomes) /\ Before + j \in 1 .. Len(outcomes)
        /\ Before + i <= Before + j
    BY <1>1, <2>1 DEF Before, RemembersTheLast, InOrder, Outcomes
  <2>3. outcomes[Before + i].at <= outcomes[Before + j].at
    BY <2>2 DEF InOrder
  <2> QED
    BY <2>3 DEF RemembersTheLast
<1>3. CASE recent = {}
  <2>1. RecentFailures = <<>>
    BY <1>3 DEF RecentFailures
  <2>2. n > 0 => n \notin recent /\ f[n] \in Nat
    BY <1>1, <1>3
  <2>3. n > 0 => instant - f[n] > Window
    BY <1>1, <2>2
  <2> QED
    BY <1>1, <2>1, <2>3
<1>4. CASE recent # {}
  <2>1. PICK m \in recent : \A i \in recent : m <= i
    <3>1. recent \subseteq Nat
      BY <1>1
    <3> HIDE DEF recent
    <3> QED
      BY <1>4, <3>1, SmallestOfNaturals
  <2>2. Min(recent) \in recent /\ \A i \in recent : Min(recent) <= i
    BY <2>1 DEF Min
  <2> DEFINE q == Min(recent)
  <2>3. q \in 1 .. n /\ f[q] >= instant - Window
    BY <1>1, <2>2
  <2>4. RecentFailures = SubSeq(f, q, n)
    BY <1>4 DEF RecentFailures
  <2> HIDE DEF q
  <2>5. /\ RecentFailures \in Seq(Nat)
        /\ Len(RecentFailures) = n - q + 1
        /\ \A i \in 1 .. n - q + 1 : RecentFailures[i] = f[q + i - 1]
    <3>1. q \in Int /\ n \in Int /\ q <= n /\ q..n \subseteq 1 .. n
      BY <1>1, <2>3
    <3>2. \A i \in 1 .. n : f[i] \in Nat
      BY <1>1, ElementOfSeq
    <3>3. \A i \in q .. n : f[i] \in Nat
      BY <3>1, <3>2
    <3> HIDE DEF f, n
    <3> QED
      BY <2>4, <3>1, <3>3, SubSeqProperties
  <2>6. ASSUME NEW k \in 1 .. Len(RecentFailures)
        PROVE  RecentFailures[k] = f[(q - 1) + k] /\ instant - RecentFailures[k] <= Window
    <3>1. q + k - 1 \in 1 .. n /\ q <= q + k - 1 /\ q + k - 1 = (q - 1) + k
      BY <1>1, <2>3, <2>5, <2>6
    <3>2. \A i \in 1 .. n : f[i] \in Nat
      BY <1>1, ElementOfSeq
    <3>3. f[q] <= f[q + k - 1] /\ f[q] \in Nat /\ f[q + k - 1] \in Nat
      BY <1>2, <2>3, <3>1, <3>2
    <3>4. RecentFailures[k] = f[q + k - 1]
      BY <2>5, <2>6
    <3> HIDE DEF f, n
    <3>5. RecentFailures[k] = f[(q - 1) + k]
      BY <3>1, <3>4
    <3>6. instant - f[q + k - 1] <= Window
      BY <1>1, <2>3, <3>3
    <3> QED
      BY <3>4, <3>5, <3>6
  <2>7. ASSUME q - 1 > 0 PROVE instant - f[q - 1] > Window
    <3>1. q - 1 \in 1 .. n /\ ~ (q <= q - 1)
      BY <1>1, <2>3, <2>7
    <3>2. q - 1 \notin recent
      BY <2>2, <3>1 DEF q
    <3>3. f[q - 1] \in Nat /\ ~ (f[q - 1] >= instant - Window)
      BY <1>1, <3>1, <3>2, ElementOfSeq
    <3> QED
      BY <1>1, <3>3
  <2>8. q - 1 \in 0 .. n /\ n - q + 1 = n - (q - 1)
    BY <1>1, <2>3
  <2> QED
    BY <2>5, <2>6, <2>7, <2>8
<1> QED
  BY <1>3, <1>4
\* A failure is remembered with those that are recent.
LEMMA FailureIsRemembered ==
    ASSUME CircuitInvariant, DownloadFails
    PROVE  InOrder' /\ RemembersTheLast'
<1> DEFINE L == Len(outcomes)
           n == Len(circuit.failures)
           r == RecentFailures
           m == Len(r)
<1>1. /\ InOrder'
      /\ Len(outcomes') = L + 1
      /\ \A i \in 1 .. L : outcomes'[i] = outcomes[i]
      /\ outcomes'[L + 1] = [what |-> "failure", at |-> instant]
  BY HistoryExtended DEF CircuitInvariant, DownloadFails
<1>2. PICK p \in 0 .. n :
        /\ r \in Seq(Nat)
        /\ m = n - p
        /\ \A k \in 1 .. m : r[k] = circuit.failures[p + k] /\ instant - r[k] <= Window
        /\ p > 0 => instant - circuit.failures[p] > Window
  BY KeptFailures DEF CircuitInvariant
<1>3. /\ L \in Nat /\ n \in Nat /\ m \in Nat /\ p \in Nat /\ p <= n
      /\ Before = L - n /\ Before \in Nat
      /\ instant \in Nat /\ Window \in Nat
  BY <1>2, CircuitAssumption DEF CircuitInvariant, InOrder, RemembersTheLast, Before, Outcomes
<1>4. /\ circuit'.failures \in Seq(Nat)
      /\ Len(circuit'.failures) = m + 1
      /\ \A k \in 1 .. m : circuit'.failures[k] = r[k]
      /\ circuit'.failures[m + 1] = instant
  <2>1. circuit'.failures = Append(r, instant)
    BY DEF DownloadFails
  <2>2. r \in Seq(Nat) /\ instant \in Nat
    BY <1>2, <1>3
  <2> HIDE DEF r
  <2>3. Append(r, instant) \in Seq(Nat) /\ Len(Append(r, instant)) = m + 1
    BY <2>2
  <2>4. \A k \in 1 .. m : Append(r, instant)[k] = r[k]
    BY <2>2
  <2>5. Append(r, instant)[m + 1] = instant
    BY <2>2
  <2> QED
    BY <2>1, <2>3, <2>4, <2>5
<1>5. Before' = Before + p /\ Before' + (m + 1) = L + 1 /\ Before' \in Nat
  <2>1. Before' = (L + 1) - (m + 1)
    BY <1>1, <1>4 DEF Before
  <2> HIDE DEF L, n, m
  <2> QED
    BY <1>2, <1>3, <2>1
<1>6. ASSUME NEW k \in 1 .. m + 1
      PROVE  /\ outcomes'[Before' + k].what = "failure"
             /\ outcomes'[Before' + k].at = circuit'.failures[k]
             /\ outcomes'[L + 1].at - circuit'.failures[k] <= Window
  <2>1. CASE k = m + 1
    <3>1. Before' + k = L + 1
      BY <1>5, <2>1
    <3>2. instant - instant <= Window
      BY <1>3
    <3> QED
      BY <1>1, <1>4, <2>1, <3>1, <3>2
  <2>2. CASE k \in 1 .. m
    <3>1. /\ p + k \in 1 .. n /\ Before' + k = Before + (p + k)
          /\ Before + (p + k) \in 1 .. L
      BY <1>2, <1>3, <1>5, <2>2
    <3>2. /\ outcomes[Before + (p + k)].what = "failure"
          /\ outcomes[Before + (p + k)].at = circuit.failures[p + k]
      BY <3>1 DEF CircuitInvariant, RemembersTheLast
    <3>3. circuit'.failures[k] = circuit.failures[p + k] /\ instant - circuit'.failures[k] <= Window
      BY <1>2, <1>4, <2>2
    <3>4. outcomes'[Before' + k] = outcomes[Before + (p + k)]
      BY <1>1, <3>1
    <3> QED
      BY <1>1, <3>2, <3>3, <3>4
  <2> QED
    BY <1>3, <2>1, <2>2
<1>7. ASSUME Before' > 0, outcomes'[Before'].what = "failure"
      PROVE  outcomes'[L + 1].at - outcomes'[Before'].at > Window
  <2>1. Before' \in 1 .. L /\ L \in 1 .. L
    <3> HIDE DEF L, n, m
    <3> QED
      BY <1>3, <1>5, <1>7
  <2>2. outcomes'[Before'] = outcomes[Before']
    BY <1>1, <2>1
  <2>3. CASE p = 0
    <3>1. Before' = Before /\ outcomes[L].at - outcomes[Before].at > Window
      <4>1. Before' = Before
        BY <1>3, <1>5, <2>3
      <4>2. Before > 0 /\ outcomes[Before].what = "failure"
        BY <1>7, <2>2, <4>1
      <4> QED
        BY <4>1, <4>2 DEF CircuitInvariant, RemembersTheLast
    <3>2. \A i \in 1 .. L : outcomes[i].at \in Nat
      <4>1. \A i \in 1 .. L : outcomes[i] \in [what : {"failure", "success", "trial"}, at : Nat]
        BY ElementOfSeq DEF CircuitInvariant, InOrder, Outcomes
      <4> QED
        BY <4>1
    <3>3. outcomes[L].at <= instant
      BY <2>1 DEF CircuitInvariant, InOrder
    <3>4. outcomes[L].at \in Nat /\ outcomes[Before].at \in Nat
      BY <2>1, <3>1, <3>2
    <3>5. instant - outcomes[Before].at > Window
      BY <1>3, <3>1, <3>3, <3>4
    <3> QED
      BY <1>1, <2>2, <3>1, <3>5
  <2>4. CASE p > 0
    <3>1. p \in 1 .. n
      BY <1>3, <2>4
    <3>2. outcomes[Before + p].at = circuit.failures[p]
      BY <3>1 DEF CircuitInvariant, RemembersTheLast
    <3> QED
      BY <1>1, <1>2, <1>5, <2>2, <2>4, <3>2
  <2> QED
    BY <1>3, <2>3, <2>4
<1>8. Before' >= 0
  BY <1>3, <1>5
<1> QED
  BY <1>1, <1>4, <1>6, <1>7, <1>8 DEF RemembersTheLast

LEMMA FailureIsSafe ==
    ASSUME CircuitInvariant, DownloadFails, NEW L, L = Len(outcomes)
    PROVE  CircuitInvariant'
<1> DEFINE opened == {i \in DOMAIN outcomes : Opens(i) /\ FailingSince(i)}
<1>1. /\ InOrder'
      /\ L \in Nat /\ Threshold \in Nat /\ Threshold >= 1
      /\ Len(outcomes') = L + 1
      /\ \A i \in 1 .. L : outcomes'[i] = outcomes[i]
      /\ outcomes'[L + 1] = [what |-> "failure", at |-> instant]
      /\ DOMAIN outcomes = 1 .. L
      /\ DOMAIN outcomes' = 1 .. L + 1
  <2>1. InOrder /\ Happens("failure") /\ instant' = instant
    BY DEF CircuitInvariant, DownloadFails
  <2>2. L \in Nat
    BY DEF CircuitInvariant, InOrder, Outcomes
  <2>3. Threshold \in Nat /\ Threshold >= 1
    BY CircuitAssumption
  <2> QED
    BY <2>1, <2>2, <2>3, HistoryExtended
<1>2. InOrder' /\ RemembersTheLast'
  BY FailureIsRemembered
<1>3. Opens(L + 1)' <=> Len(circuit'.failures) >= Threshold
  <2>1. (Opens(Len(outcomes)) <=> Len(circuit.failures) >= Threshold)'
    <3>1. (Len(outcomes) > 0)'
      BY <1>1
    <3> QED
      BY <1>2, <3>1, RememberedFailuresOpen, PTL
  <2> QED
    BY <1>1, <2>1
<1>4. ASSUME NEW i \in 1 .. L PROVE (Opens(i)' <=> Opens(i)) /\ (FailingSince(i)' <=> FailingSince(i))
  <2>1. Opens(i)' <=> Opens(i)
    <3>1. i \in 1 .. L /\ \A j \in (i - Threshold + 1) .. i : i >= Threshold => j \in 1 .. L
      BY <1>1, <1>4
    <3> QED
      BY <1>1, <3>1 DEF Opens
  <2>2. FailingSince(i)' <=> FailingSince(i)
    <3>1. \A j \in i .. L + 1 : j \in i .. L \/ j = L + 1
      BY <1>1, <1>4
    <3>2. i .. L \subseteq i .. L + 1 /\ i .. L \subseteq 1 .. L
      BY <1>1, <1>4
    <3> QED
      BY <1>1, <3>1, <3>2 DEF FailingSince
  <2> QED
    BY <2>1, <2>2
<1>5. FailingSince(L + 1)'
  <2>1. \A j \in L + 1 .. L + 1 : j = L + 1
    BY <1>1
  <2> QED
    BY <1>1, <2>1 DEF FailingSince
<1>6. circuit'.openUntil = IF Len(circuit'.failures) >= Threshold THEN instant + OpenFor
                           ELSE circuit.openUntil
  BY DEF DownloadFails
<1>7. opened' = IF Opens(L + 1)' THEN opened \cup {L + 1} ELSE opened
  <2>1. \A i : i \in 1 .. L + 1 <=> i \in 1 .. L \/ i = L + 1
    BY <1>1
  <2>2. opened' = {i \in DOMAIN outcomes' : Opens(i)' /\ FailingSince(i)'}
    OBVIOUS
  <2> QED
    BY <1>1, <1>4, <1>5, <2>1, <2>2
<1>8. CASE Opens(L + 1)'
  <2>1. opened' = opened \cup {L + 1} /\ opened \subseteq 1 .. L
    BY <1>1, <1>7, <1>8
  <2>2. Max(opened') = L + 1
    <3>1. L + 1 \in opened' /\ \A i \in opened' : i \in Nat /\ L + 1 >= i
      BY <1>1, <2>1
    <3>2. ASSUME NEW x \in opened', \A y \in opened' : x >= y PROVE x = L + 1
      BY <1>1, <3>1, <3>2
    <3> HIDE DEF opened
    <3> QED
      BY <3>1, <3>2 DEF Max
  <2>3. circuit'.openUntil = outcomes'[L + 1].at + OpenFor
    BY <1>1, <1>3, <1>6, <1>8
  <2> QED
    BY <1>2, <2>1, <2>2, <2>3 DEF CircuitInvariant, CircuitIsEarned
<1>9. CASE ~ Opens(L + 1)'
  <2>1. opened' = opened
    BY <1>7, <1>9
  <2>2. circuit'.openUntil = circuit.openUntil
    BY <1>3, <1>6, <1>9
  <2>3. opened # {} => outcomes'[Max(opened)].at = outcomes[Max(opened)].at
    <3>1. opened \subseteq 1 .. L
      BY <1>1
    <3>2. opened # {} => Max(opened) \in opened
      <4>1. \A S \in SUBSET (1 .. L) : S # {} => Max(S) \in S
        BY <1>1, LargestOfIntervals
      <4> HIDE DEF opened
      <4> QED
        BY <3>1, <4>1
    <3> QED
      BY <1>1, <3>1, <3>2
  <2> QED
    BY <1>2, <2>1, <2>2, <2>3 DEF CircuitInvariant, CircuitIsEarned
<1> QED
  BY <1>8, <1>9

(* CircuitIsEarned: a host is shut out exactly while the failures in a row *)
(* that upstream.py counts within its window say so.                       *)
THEOREM HostsAreShutOutDeservedly == CircuitSpecification => []CircuitIsEarned
<1>1. CircuitInit => CircuitInvariant
  <2>1. SUFFICES ASSUME CircuitInit PROVE CircuitInvariant
    OBVIOUS
  <2>2. outcomes = <<>> /\ instant = 1 /\ circuit.failures = <<>> /\ circuit.openUntil = 0
    BY <2>1 DEF CircuitInit, NoState
  <2>3. InOrder
    BY <2>2 DEF InOrder, Outcomes
  <2>4. RemembersTheLast
    BY <2>2 DEF RemembersTheLast, Before
  <2>5. CircuitIsEarned
    BY <2>2 DEF CircuitIsEarned
  <2> QED
    BY <2>3, <2>4, <2>5 DEF CircuitInvariant
<1>2. CircuitInvariant /\ [CircuitNext]_circuitVars => CircuitInvariant'
  <2>1. SUFFICES ASSUME CircuitInvariant, [CircuitNext]_circuitVars PROVE CircuitInvariant'
    OBVIOUS
  <2>2. ASSUME UNCHANGED <<circuit, outcomes>>, instant' \in {instant, instant + 1}
        PROVE  CircuitInvariant'
    <3>1. InOrder'
      <4>1. instant \in Nat /\ instant <= instant' /\ instant' \in Nat
        BY <2>1, <2>2 DEF CircuitInvariant, InOrder
      <4>2. \A i \in 1 .. Len(outcomes) : outcomes[i].at \in Nat /\ outcomes[i].at <= instant
        <5>1. \A i \in 1 .. Len(outcomes) :
                outcomes[i] \in [what : {"failure", "success", "trial"}, at : Nat]
          BY <2>1, ElementOfSeq DEF CircuitInvariant, InOrder, Outcomes
        <5> QED
          BY <2>1, <5>1 DEF CircuitInvariant, InOrder
      <4> QED
        BY <2>1, <2>2, <4>1, <4>2 DEF CircuitInvariant, InOrder, Outcomes
    <3>2. RemembersTheLast' /\ CircuitIsEarned'
      BY <2>1, <2>2 DEF CircuitInvariant, RemembersTheLast, Before, CircuitIsEarned, Opens, FailingSince
    <3> QED
      BY <3>1, <3>2 DEF CircuitInvariant
  <2>3. CASE TimePasses
    BY <2>2, <2>3 DEF TimePasses
  <2>4. CASE DownloadStarts
    <3>1. CASE circuit.openUntil # 0
      BY <2>1, <2>4, <3>1, ForgettingIsSafe DEF DownloadStarts
    <3>2. CASE circuit.openUntil = 0
      BY <2>2, <2>4, <3>2 DEF DownloadStarts
    <3> QED
      BY <3>1, <3>2
  <2>5. CASE DownloadFails
    <3>1. PICK L : L = Len(outcomes)
      OBVIOUS
    <3> QED
      BY <2>1, <2>5, <3>1, FailureIsSafe
  <2>6. CASE DownloadSucceeds
    BY <2>1, <2>6, ForgettingIsSafe DEF DownloadSucceeds
  <2>7. CASE DownloadIsDropped
    BY <2>2, <2>7 DEF DownloadIsDropped
  <2>8. CASE UNCHANGED circuitVars
    BY <2>2, <2>8 DEF circuitVars
  <2> QED
    BY <2>1, <2>3, <2>4, <2>5, <2>6, <2>7, <2>8 DEF CircuitNext
<1>3. CircuitInvariant => CircuitIsEarned
  BY DEF CircuitInvariant
<1> QED
  BY <1>1, <1>2, <1>3, PTL DEF CircuitSpecification

-----------------------------------------------------------------------------
(* Cleared tasks are funded.                                               *)

\* What the provider charges for these tasks.
Prices(S) == SumFunctionOnSet(PriceOf, S)

\* Generations whose charge the wallet has seen and keeps, for now.
Paid == InStage({"charged", "recorded"})

\* A task reserves what its generation costs, or more.
ReservationsCover ==
    \A j \in Job :
      /\ job[j].stage \in {"assigned", "read", "poor", "refused", "cleared", "charged"} =>
           job[j].held = QuoteOf[j]
      /\ job[j].stage = "recorded" => job[j].held >= PriceOf[j]

\* What is charged came out of the wallet.
WalletPays == wallet + Prices(Paid) <= Deposit

\* How old the view of a reader may be: it is the wallet unless that moved,
\* and it lacks at most what is charged unless a charge has ended.  A charge
\* that is not recorded yet is known to overlap it.
ReadersSee ==
    /\ \A j \in Job : job[j].stage = "read" =>
         /\ j \notin doubt.moved => job[j].seen = wallet
         /\ j \notin doubt.ended => job[j].seen <= wallet + Prices(Paid)
    /\ \A r \in Refresher : refresh[r].stage = "read" =>
         (r \notin doubt.moved => refresh[r].seen = wallet)
    /\ \A reader \in Readers : ~Overlapped(reader) => InStage({"charged"}) = {}

CreditInvariant ==
    /\ CreditTypeOK
    /\ ReservationsCover
    /\ WalletPays
    /\ ReadersSee
    /\ BalanceAgrees
    /\ ClearedIsFunded

-----------------------------------------------------------------------------
(* Prices and rows.                                                        *)

\* A set of tasks is finite and has a natural price.
LEMMA PricesAre ==
    ASSUME NEW S \in SUBSET Job
    PROVE  IsFiniteSet(S) /\ Prices(S) \in Nat /\ \A j \in S : PriceOf[j] \in Nat
<1>1. IsFiniteSet(S) /\ \A j \in S : PriceOf[j] \in Nat
  BY CreditAssumption, FS_Subset
<1> QED BY <1>1, SumIsNatural DEF Prices

\* Fewer tasks cost no more.
LEMMA PricesOfFewer ==
    ASSUME NEW S \in SUBSET Job, NEW T \in SUBSET S
    PROVE  Prices(T) <= Prices(S)
BY PricesAre, SumOfFewer DEF Prices

\* What one task adds to a price, or takes from it.
LEMMA PricesWith ==
    ASSUME NEW S \in SUBSET Job, NEW j \in Job
    PROVE  /\ Prices(S \cup {j}) = IF j \in S THEN Prices(S) ELSE Prices(S) + PriceOf[j]
           /\ Prices(S \ {j}) = IF j \in S THEN Prices(S) - PriceOf[j] ELSE Prices(S)
<1>1. /\ IsFiniteSet(S) /\ PriceOf[j] \in Nat /\ \A k \in S : PriceOf[k] \in Nat
      /\ Prices(S) \in Nat /\ Prices(S \ {j}) \in Nat
  BY PricesAre, CreditAssumption
<1>2. CASE j \in S
  <2>1. Prices(S) = PriceOf[j] + Prices(S \ {j})
    BY <1>1, <1>2, SumTakes DEF Prices
  <2>2. Prices(S \cup {j}) = Prices(S)
    <3>1. S \cup {j} = S
      BY <1>2
    <3> QED BY <3>1
  <2>3. Prices(S \ {j}) = Prices(S) - PriceOf[j]
    BY <1>1, <2>1
  <2> QED BY <1>2, <2>2, <2>3
<1>3. CASE j \notin S
  <2>1. \A k \in S \cup {j} : PriceOf[k] \in Int
    BY <1>1
  <2>2. Prices(S \cup {j}) = Prices(S) + PriceOf[j]
    BY <1>1, <1>3, <2>1, SumAdds DEF Prices
  <2>3. Prices(S \ {j}) = Prices(S)
    <3>1. S \ {j} = S
      BY <1>3
    <3> QED BY <3>1
  <2> QED BY <1>3, <2>2, <2>3
<1> QED BY <1>2, <1>3

\* The sets of tasks that the invariant adds up.
LEMMA SetsOfJobs ==
    /\ Paid \in SUBSET Job /\ Unsettled \in SUBSET Job
    /\ \A stages : InStage(stages) \in SUBSET Job
BY DEF Paid, Unsettled, Sent, InStage

\* One task gets another row.
LEMMA JobChanges ==
    ASSUME CreditTypeOK, NEW j \in Job, NEW row \in JobRow, job' = [job EXCEPT ![j] = row]
    PROVE  /\ job' \in [Job -> JobRow]
           /\ job'[j] = row /\ \A k \in Job \ {j} : job'[k] = job[k]
           /\ Paid' = IF row.stage \in {"charged", "recorded"} THEN Paid \cup {j} ELSE Paid \ {j}
           /\ InStage({"cleared"})' = IF row.stage = "cleared" THEN InStage({"cleared"}) \cup {j}
                                      ELSE InStage({"cleared"}) \ {j}
           /\ InStage({"charged"})' = IF row.stage = "charged" THEN InStage({"charged"}) \cup {j}
                                      ELSE InStage({"charged"}) \ {j}
           /\ Unsettled' = IF row.stage \in {"charged", "recorded"} /\ ~row.synced
                           THEN Unsettled \cup {j} ELSE Unsettled \ {j}
<1>1. /\ job' \in [Job -> JobRow]
      /\ job'[j] = row /\ \A k \in Job \ {j} : job'[k] = job[k]
  BY DEF CreditTypeOK
<1>2. /\ Paid' = IF row.stage \in {"charged", "recorded"} THEN Paid \cup {j} ELSE Paid \ {j}
      /\ InStage({"cleared"})' = IF row.stage = "cleared" THEN InStage({"cleared"}) \cup {j}
                                 ELSE InStage({"cleared"}) \ {j}
      /\ InStage({"charged"})' = IF row.stage = "charged" THEN InStage({"charged"}) \cup {j}
                                 ELSE InStage({"charged"}) \ {j}
  BY <1>1 DEF Paid, InStage
<1>3. Unsettled' = IF row.stage \in {"charged", "recorded"} /\ ~row.synced
                   THEN Unsettled \cup {j} ELSE Unsettled \ {j}
  BY <1>1 DEF Unsettled, Sent, InStage
<1> QED BY <1>1, <1>2, <1>3

LEMMA CreditInitially == CreditInit => CreditInvariant
<1> SUFFICES ASSUME CreditInit PROVE CreditInvariant
  OBVIOUS
<1>1. CreditTypeOK
  BY CreditAssumption DEF CreditInit, CreditTypeOK, JobRow, RefreshRow, DoubtRow, NoRefresh
<1>2. ReservationsCover /\ ReadersSee
  BY DEF CreditInit, ReservationsCover, ReadersSee, Readers, InStage, NoRefresh
<1>3. Paid = {} /\ Unsettled = {} /\ InStage({"cleared"}) = {}
  BY DEF CreditInit, Paid, Unsettled, Sent, InStage
<1>4. Prices({}) = 0
  BY SumOfNone DEF Prices
<1>5. WalletPays /\ BalanceAgrees /\ ClearedIsFunded
  <2>1. WalletPays
    BY <1>3, <1>4, CreditAssumption DEF CreditInit, WalletPays
  <2>2. SumFunctionOnSet(PriceOf, Unsettled) = 0 /\ SumFunctionOnSet(PriceOf, InStage({"cleared"})) = 0
    BY <1>3, <1>4 DEF Prices
  <2>3. BalanceAgrees /\ ClearedIsFunded
    BY <2>2, CreditAssumption DEF CreditInit, BalanceAgrees, ClearedIsFunded
  <2> QED BY <2>1, <2>3
<1> QED BY <1>1, <1>2, <1>5 DEF CreditInvariant

-----------------------------------------------------------------------------
(* Steps that move no credits.                                             *)

\* A step leaves every refresh where it is, whatever becomes of the version.
RefreshersStay ==
    /\ refresh' \in [Refresher -> RefreshRow]
    /\ \A r \in Refresher : refresh'[r].stage = refresh[r].stage /\ refresh'[r].seen = refresh[r].seen

LEMMA AsideKeeps ==
    ASSUME CreditInvariant, NEW j \in Job, NEW row \in JobRow, job' = [job EXCEPT ![j] = row],
           job[j].stage \notin {"charged", "recorded"},
           row.stage \notin {"charged", "recorded", "cleared"},
           row.stage \in {"assigned", "read", "poor", "refused"} => row.held = QuoteOf[j],
           row.stage = "read" => row.seen = wallet,
           row.stage = "read" => j \in doubt'.pending \/ InStage({"charged"}) = {},
           UNCHANGED <<wallet, credits>>, enabled' \in BOOLEAN, RefreshersStay,
           doubt' \in DoubtRow, doubt'.balance = doubt.balance, doubt'.clearance = doubt.clearance,
           doubt.moved \ {j} \subseteq doubt'.moved, doubt.pending \ {j} \subseteq doubt'.pending,
           doubt.ended \ {j} \subseteq doubt'.ended
    PROVE  CreditInvariant'
<1>1. CreditTypeOK
  BY DEF CreditInvariant
<1>2. /\ job' \in [Job -> JobRow]
      /\ job'[j] = row /\ \A k \in Job \ {j} : job'[k] = job[k]
  BY <1>1, JobChanges
<1>3. /\ Paid' = Paid /\ Unsettled' = Unsettled /\ InStage({"cleared"})' \subseteq InStage({"cleared"})
      /\ InStage({"charged"})' = InStage({"charged"})
  <2>1. j \notin Paid /\ j \notin Unsettled /\ j \notin InStage({"charged"})
    BY DEF Paid, Unsettled, Sent, InStage
  <2>2. /\ Paid' = Paid \ {j} /\ Unsettled' = Unsettled \ {j}
        /\ InStage({"cleared"})' = InStage({"cleared"}) \ {j}
        /\ InStage({"charged"})' = InStage({"charged"}) \ {j}
    BY <1>1, JobChanges
  <2> QED BY <2>1, <2>2
<1>4. CreditTypeOK'
  BY <1>1, <1>2 DEF CreditTypeOK, RefreshersStay
<1>5. ReservationsCover'
  BY <1>2 DEF CreditInvariant, ReservationsCover
<1>6. WalletPays'
  BY <1>3 DEF CreditInvariant, WalletPays
<1>7. ReadersSee'
  <2>1. ASSUME NEW k \in Job, job'[k].stage = "read"
        PROVE  /\ k \notin doubt'.moved => job'[k].seen = wallet'
               /\ k \notin doubt'.ended => job'[k].seen <= wallet' + Prices(Paid')
    <3>1. Prices(Paid) \in Nat /\ wallet \in 0 .. Deposit /\ Deposit \in Nat
      BY <1>1, SetsOfJobs, PricesAre, CreditAssumption DEF CreditTypeOK
    <3>2. CASE k = j
      BY <1>2, <1>3, <2>1, <3>1, <3>2
    <3>3. CASE k # j
      <4>1. job'[k] = job[k] /\ (k \notin doubt'.moved => k \notin doubt.moved)
            /\ (k \notin doubt'.ended => k \notin doubt.ended)
        BY <1>2, <3>3
      <4> QED BY <1>3, <2>1, <4>1 DEF CreditInvariant, ReadersSee
    <3> QED BY <3>2, <3>3
  <2>2. \A r \in Refresher : r # j
    BY CreditAssumption
  <2>3. \A r \in Refresher : refresh'[r].stage = "read" => (r \notin doubt'.moved => refresh'[r].seen = wallet')
    BY <2>2 DEF CreditInvariant, ReadersSee, RefreshersStay
  <2>4. ASSUME NEW reader \in Readers', ~Overlapped(reader)' PROVE InStage({"charged"})' = {}
    <3>1. CASE reader = j
      <4>1. j \notin doubt'.pending
        BY <2>4, <3>1 DEF Overlapped
      <4>2. job'[j].stage = "read"
        BY <2>2, <3>1 DEF Readers, InStage
      <4> QED BY <1>2, <1>3, <4>1, <4>2
    <3>2. CASE reader # j
      <4>1. reader \in Readers
        BY <1>2, <3>2 DEF Readers, InStage, RefreshersStay
      <4>2. ~Overlapped(reader)
        BY <2>4, <3>2 DEF Overlapped
      <4> QED BY <1>3, <4>1, <4>2 DEF CreditInvariant, ReadersSee
    <3> QED BY <3>1, <3>2
  <2> QED BY <2>1, <2>3, <2>4 DEF ReadersSee, Prices
<1>8. BalanceAgrees'
  BY <1>3 DEF CreditInvariant, BalanceAgrees
<1>9. ClearedIsFunded'
  <2>1. /\ InStage({"cleared"})' \in SUBSET InStage({"cleared"}) /\ InStage({"cleared"}) \in SUBSET Job
        /\ wallet \in 0 .. Deposit
    BY <1>1, <1>3, SetsOfJobs DEF CreditTypeOK
  <2>2. /\ Prices(InStage({"cleared"})') <= Prices(InStage({"cleared"}))
        /\ Prices(InStage({"cleared"})') \in Nat /\ Prices(InStage({"cleared"})) \in Nat
    BY <2>1, PricesOfFewer, PricesAre
  <2>3. ~doubt.clearance => Prices(InStage({"cleared"})) <= wallet
    BY DEF CreditInvariant, ClearedIsFunded, Prices
  <2>4. ~doubt'.clearance => Prices(InStage({"cleared"})') <= wallet'
    BY <2>1, <2>2, <2>3
  <2> QED BY <2>4 DEF ClearedIsFunded, Prices
<1> QED BY <1>4, <1>5, <1>6, <1>7, <1>8, <1>9 DEF CreditInvariant

\* What the version does to the refreshes.
LEMMA VersionLeaves ==
    ASSUME CreditTypeOK
    PROVE  /\ VersionMoved \in [Refresher -> RefreshRow]
           /\ \A r \in Refresher : /\ VersionMoved[r].stage = refresh[r].stage
                                   /\ VersionMoved[r].seen = refresh[r].seen
           /\ refresh' \in {refresh, VersionMoved} => RefreshersStay
<1>1. \A row \in RefreshRow, b \in BOOLEAN :
        LET e == [row EXCEPT !.moved = b] IN e \in RefreshRow /\ e.stage = row.stage /\ e.seen = row.seen
  BY DEF RefreshRow
<1>2. /\ VersionMoved \in [Refresher -> RefreshRow]
      /\ \A r \in Refresher : /\ VersionMoved[r].stage = refresh[r].stage
                              /\ VersionMoved[r].seen = refresh[r].seen
  BY <1>1 DEF CreditTypeOK, VersionMoved
<1> QED BY <1>2 DEF RefreshersStay, CreditTypeOK

LEMMA VersionStays ==
    ASSUME CreditTypeOK, VersionMoves PROVE RefreshersStay
BY VersionLeaves DEF VersionMoves

\* What a reader that has answered, or begins to, does to what is in doubt.
LEMMA Forgotten ==
    ASSUME CreditTypeOK, NEW reader
    PROVE  LET d == Forget(reader) IN
           /\ d \in DoubtRow /\ d.balance = doubt.balance /\ d.clearance = doubt.clearance
           /\ d.moved = doubt.moved \ {reader} /\ d.pending = doubt.pending \ {reader}
           /\ d.ended = doubt.ended \ {reader}
BY DEF CreditTypeOK, DoubtRow, Forget

LEMMA Recalled ==
    ASSUME CreditTypeOK, NEW reader \in Job \cup Refresher
    PROVE  LET d == Recall(reader) IN
           /\ d \in DoubtRow /\ d.balance = doubt.balance /\ d.clearance = doubt.clearance
           /\ d.moved = doubt.moved /\ d.ended = doubt.ended /\ doubt.pending \subseteq d.pending
           /\ reader \in d.pending \/ InStage({"charged"}) = {}
BY DEF CreditTypeOK, DoubtRow, Recall

LEMMA AssignKeeps ==
    ASSUME CreditInvariant, NEW j \in Job, AssignJob(j) PROVE CreditInvariant'
<1>1. CreditTypeOK /\ job \in [Job -> JobRow]
  BY DEF CreditInvariant, CreditTypeOK
<1>2. PICK r \in JobRow : r = job[j]
  BY <1>1
<1>3. PICK q \in Nat : q = QuoteOf[j]
  BY CreditAssumption
<1> DEFINE row == [r EXCEPT !.stage = "assigned", !.held = q]
<1>4. row \in JobRow /\ row.stage = "assigned" /\ row.held = q
  BY DEF JobRow
<1>5. job' = [job EXCEPT ![j] = row]
  BY <1>2, <1>3 DEF AssignJob
<1> HIDE DEF row
<1>6. /\ VersionMoves /\ UNCHANGED <<wallet, credits, enabled, doubt>>
      /\ job[j].stage = "waiting" /\ enabled \in BOOLEAN /\ doubt \in DoubtRow
  BY <1>1 DEF AssignJob, CreditTypeOK
<1> QED BY <1>1, <1>3, <1>4, <1>5, <1>6, VersionStays, AsideKeeps

LEMMA ReadKeeps ==
    ASSUME CreditInvariant, NEW j \in Job, ReadWallet(j) PROVE CreditInvariant'
<1>1. /\ CreditTypeOK /\ job \in [Job -> JobRow]
      /\ enabled \in BOOLEAN /\ refresh \in [Refresher -> RefreshRow]
  BY DEF CreditInvariant, CreditTypeOK
<1>2. PICK r \in JobRow : r = job[j]
  BY <1>1
<1>3. PICK w \in 0 .. Deposit : w = wallet
  BY <1>1 DEF CreditTypeOK
<1> DEFINE row == [r EXCEPT !.stage = "read", !.seen = w]
<1>4. row \in JobRow /\ row.stage = "read" /\ row.seen = w /\ row.held = r.held
  BY DEF JobRow
<1>5. job' = [job EXCEPT ![j] = row]
  BY <1>2, <1>3 DEF ReadWallet
<1>6. r.held = QuoteOf[j] /\ job[j].stage = "assigned"
  BY <1>2 DEF ReadWallet, CreditInvariant, ReservationsCover
<1> HIDE DEF row
<1>7. UNCHANGED <<wallet, credits, enabled, refresh>> /\ doubt' = Recall(j)
  BY DEF ReadWallet
<1>8. /\ doubt' \in DoubtRow /\ doubt'.balance = doubt.balance /\ doubt'.clearance = doubt.clearance
      /\ doubt'.moved = doubt.moved /\ doubt'.ended = doubt.ended /\ doubt.pending \subseteq doubt'.pending
      /\ j \in doubt'.pending \/ InStage({"charged"}) = {}
  BY <1>1, <1>7, Recalled
<1>9. RefreshersStay
  BY <1>1, <1>7 DEF RefreshersStay
<1> QED BY <1>1, <1>3, <1>4, <1>5, <1>6, <1>7, <1>8, <1>9, AsideKeeps

LEMMA ReleaseKeeps ==
    ASSUME CreditInvariant, NEW j \in Job, ReleaseJob(j) PROVE CreditInvariant'
<1>1. CreditTypeOK /\ job \in [Job -> JobRow] /\ Deposit \in Nat
  BY CreditAssumption DEF CreditInvariant, CreditTypeOK
<1>2. PICK r \in JobRow : r = job[j]
  BY <1>1
<1>3. PICK stage \in {"waiting", "failed"} :
        job' = [job EXCEPT ![j] = [@ EXCEPT !.stage = stage, !.held = 0, !.seen = 0]]
  BY DEF ReleaseJob
<1>30. PICK none \in 0 .. Deposit : none = 0
  BY <1>1
<1> DEFINE row == [r EXCEPT !.stage = stage, !.held = 0, !.seen = none]
<1>4. row \in JobRow /\ row.stage = stage
  BY DEF JobRow
<1>5. job' = [job EXCEPT ![j] = row]
  BY <1>2, <1>3, <1>30
<1> HIDE DEF row
<1>6. /\ VersionMoves /\ UNCHANGED <<wallet, credits>> /\ doubt' = Forget(j)
      /\ job[j].stage \notin {"charged", "recorded"} /\ enabled' \in BOOLEAN
  BY <1>1 DEF ReleaseJob, CreditTypeOK
<1> QED BY <1>1, <1>4, <1>5, <1>6, VersionStays, Forgotten, AsideKeeps

\* A refunded task ends or waits again.
LEMMA RefundedEndKeeps ==
    ASSUME CreditInvariant, NEW j \in Job, NEW stage \in {"waiting", "failed"},
           job[j].stage = "refunded", job' = [job EXCEPT ![j] = [@ EXCEPT !.stage = stage, !.held = 0]],
           VersionMoves, UNCHANGED <<wallet, credits, enabled, doubt>>
    PROVE  CreditInvariant'
<1>1. CreditTypeOK /\ job \in [Job -> JobRow] /\ enabled \in BOOLEAN /\ doubt \in DoubtRow
  BY CreditAssumption DEF CreditInvariant, CreditTypeOK
<1>2. PICK r \in JobRow : r = job[j]
  BY <1>1
<1> DEFINE row == [r EXCEPT !.stage = stage, !.held = 0]
<1>3. row \in JobRow /\ row.stage = stage
  BY DEF JobRow
<1>4. job' = [job EXCEPT ![j] = row]
  BY <1>2
<1> HIDE DEF row
<1> QED BY <1>1, <1>3, <1>4, VersionStays, AsideKeeps

-----------------------------------------------------------------------------
(* A refresh before a submission.                                          *)

\* What a cleared task has seen pays for all that are cleared, besides what
\* is charged.
LEMMA ReservationsPay ==
    ASSUME CreditTypeOK, ReservationsCover, NEW j \in Job, job[j].stage = "read"
    PROVE  Prices(InStage({"cleared"}) \cup {j}) + Prices(Paid) <= ReservedCredits
<1> DEFINE C == InStage({"cleared"}) \cup {j}
           K == Paid
           held == [k \in Job |-> job[k].held]
<1>1. C \in SUBSET Job /\ K \in SUBSET Job /\ C \cap K = {} /\ C \cup K \in SUBSET Job
  BY DEF InStage, Paid
<1>2. \A k \in Job : held[k] \in Nat
  BY DEF CreditTypeOK, JobRow
<1>3. \A k \in C \cup K : PriceOf[k] \in Nat /\ PriceOf[k] <= held[k]
  BY CreditAssumption DEF ReservationsCover, InStage, Paid
<1> HIDE DEF C, K, held
<1>4. IsFiniteSet(C) /\ IsFiniteSet(K) /\ IsFiniteSet(C \cup K) /\ Prices(C) \in Nat /\ Prices(K) \in Nat
  BY <1>1, PricesAre
<1>5. Prices(C \cup K) = Prices(C) + Prices(K)
  BY <1>1, <1>3, <1>4, SumOfUnion DEF Prices
<1>6. Prices(C \cup K) <= SumFunctionOnSet(held, C \cup K)
  <2> DEFINE A == C \cup K
  <2>1. A \in SUBSET Job /\ IsFiniteSet(A) /\ \A k \in A : PriceOf[k] \in Int /\ held[k] \in Int /\ PriceOf[k] <= held[k]
    BY <1>1, <1>2, <1>3, <1>4
  <2> HIDE DEF A
  <2>2. SumFunctionOnSet(PriceOf, A) <= SumFunctionOnSet(held, A)
    BY <2>1, SumIsMonotone
  <2> QED BY <2>2 DEF A, Prices
<1>7. SumFunctionOnSet(held, C \cup K) <= SumFunctionOnSet(held, Job)
  BY <1>1, <1>2, CreditAssumption, SumOfFewer
<1>8. /\ ReservedCredits = SumFunctionOnSet(held, Job)
      /\ SumFunctionOnSet(held, Job) \in Nat /\ SumFunctionOnSet(held, C \cup K) \in Nat
  BY <1>1, <1>2, <1>4, CreditAssumption, SumIsNatural DEF ReservedCredits, held
<1>9. Prices(C) + Prices(K) <= ReservedCredits
  BY <1>4, <1>5, <1>6, <1>7, <1>8
<1> QED BY <1>9 DEF C, K

\* What a stamp leaves of the rows.
LEMMA StampedRows ==
    ASSUME NEW rows \in [Job -> JobRow], NEW older
    PROVE  LET after == Stamped(rows, older) IN
           /\ after \in [Job -> JobRow]
           /\ \A k \in Job : /\ after[k].stage = rows[k].stage /\ after[k].seen = rows[k].seen
                             /\ after[k].held = rows[k].held
                             /\ rows[k].stage \in {"charged", "recorded"} => (after[k].synced <=> k \in older)
<1>1. \A r \in JobRow, b \in BOOLEAN :
        LET e == [r EXCEPT !.synced = b] IN
        e \in JobRow /\ e.stage = r.stage /\ e.seen = r.seen /\ e.held = r.held /\ e.synced = b
  BY DEF JobRow
<1>2. \A k \in Job : (k \in older) \in BOOLEAN
  OBVIOUS
<1> QED BY <1>1, <1>2 DEF Stamped

LEMMA RefusedKeeps ==
    ASSUME CreditInvariant, NEW j \in Job, RefuseRefresh(j) PROVE CreditInvariant'
<1>1. /\ CreditTypeOK /\ job \in [Job -> JobRow] /\ Deposit \in Nat
  BY CreditAssumption DEF CreditInvariant, CreditTypeOK
<1>2. PICK r \in JobRow : r = job[j]
  BY <1>1
<1>3. PICK none \in 0 .. Deposit : none = 0
  BY <1>1
<1> DEFINE row == [r EXCEPT !.stage = "refused", !.seen = none]
<1>4. row \in JobRow /\ row.stage = "refused" /\ row.held = r.held
  BY DEF JobRow
<1>5. job' = [job EXCEPT ![j] = row]
  BY <1>2, <1>3 DEF RefuseRefresh
<1> HIDE DEF row
<1>6. r.held = QuoteOf[j] /\ job[j].stage = "read"
  BY <1>2 DEF RefuseRefresh, CreditInvariant, ReservationsCover
<1>7. UNCHANGED <<wallet, credits>> /\ doubt' = Forget(j) /\ enabled' \in BOOLEAN
  BY <1>1 DEF RefuseRefresh, CreditTypeOK
<1>8. RefreshersStay
  BY <1>1, VersionLeaves DEF RefuseRefresh
<1> QED BY <1>1, <1>4, <1>5, <1>6, <1>7, <1>8, Forgotten, AsideKeeps

LEMMA RefreshKeeps ==
    ASSUME CreditInvariant, NEW j \in Job, RefreshBeforeSubmit(j) PROVE CreditInvariant'
<1> DEFINE low == job[j].seen < LowCredits
           passes == ~low /\ IsFunded(j)
           doubtful == Overlapped(j)
           unsafe == j \in doubt.moved \cap doubt.ended
<1>1. /\ CreditTypeOK /\ job \in [Job -> JobRow] /\ Deposit \in Nat /\ LowCredits \in Nat
      /\ wallet \in 0 .. Deposit /\ job[j].seen \in 0 .. Deposit
      /\ doubtful \in BOOLEAN /\ unsafe \in BOOLEAN
  BY CreditAssumption DEF CreditInvariant, CreditTypeOK, JobRow, Overlapped
<1>2. PICK r \in JobRow : r = job[j]
  BY <1>1
<1>3. PICK none \in 0 .. Deposit : none = 0
  BY <1>1
<1>4. PICK next \in {"cleared", "poor", "refused"} :
        next = IF low THEN "poor" ELSE IF passes THEN "cleared" ELSE "refused"
  OBVIOUS
<1> DEFINE row == [r EXCEPT !.stage = next, !.seen = none]
           rows == [job EXCEPT ![j] = row]
<1>5. row \in JobRow /\ row.stage = next /\ row.held = r.held
  BY DEF JobRow
<1>50. PICK older \in Older(j) : job' = Stamped(rows, older)
  BY <1>2, <1>3, <1>4 DEF RefreshBeforeSubmit
<1>6. /\ job[j].stage = "read"
      /\ credits' = job[j].seen /\ enabled' = ~low
      /\ VersionMoves /\ UNCHANGED wallet
  BY DEF RefreshBeforeSubmit
<1>7. doubt' = [Forget(j) EXCEPT !.balance = doubtful, !.clearance = IF passes THEN unsafe ELSE @]
  BY DEF RefreshBeforeSubmit
<1>8. /\ doubt' \in DoubtRow /\ doubt'.balance = doubtful
      /\ doubt'.clearance = IF passes THEN unsafe ELSE doubt.clearance
      /\ doubt'.moved = doubt.moved \ {j} /\ doubt'.pending = doubt.pending \ {j}
      /\ doubt'.ended = doubt.ended \ {j}
  <2>1. PICK d \in DoubtRow : /\ d = Forget(j) /\ d.clearance = doubt.clearance
                             /\ d.moved = doubt.moved \ {j} /\ d.pending = doubt.pending \ {j}
                             /\ d.ended = doubt.ended \ {j}
    BY <1>1, Forgotten
  <2>2. PICK c \in BOOLEAN : c = IF passes THEN unsafe ELSE d.clearance
    BY <1>1 DEF DoubtRow
  <2>3. doubt' = [d EXCEPT !.balance = doubtful, !.clearance = c]
    BY <1>7, <2>1, <2>2
  <2> HIDE DEF doubtful, unsafe, passes
  <2> QED BY <1>1, <2>1, <2>2, <2>3 DEF DoubtRow
<1> HIDE DEF row
<1>9. /\ job' \in [Job -> JobRow] /\ job'[j].stage = next /\ job'[j].held = job[j].held
      /\ \A k \in Job \ {j} : /\ job'[k].stage = job[k].stage /\ job'[k].seen = job[k].seen
                              /\ job'[k].held = job[k].held
      /\ \A k \in Job : job'[k].stage \in {"charged", "recorded"} => (job'[k].synced <=> k \in older)
  <2>1. /\ rows \in [Job -> JobRow] /\ rows[j] = row /\ \A k \in Job \ {j} : rows[k] = job[k]
    BY <1>1, <1>5
  <2> HIDE DEF rows
  <2> QED BY <1>2, <1>5, <1>50, <2>1, StampedRows
<1> HIDE DEF rows
<1>10. /\ Paid' = Paid /\ InStage({"charged"})' = InStage({"charged"}) /\ Sent' = Sent
       /\ InStage({"cleared"})' = IF passes THEN InStage({"cleared"}) \cup {j} ELSE InStage({"cleared"})
  <2>1. Paid' = Paid /\ InStage({"charged"})' = InStage({"charged"}) /\ Sent' = Sent
    BY <1>6, <1>9 DEF Paid, Sent, InStage
  <2>2. InStage({"cleared"})' = IF next = "cleared" THEN InStage({"cleared"}) \cup {j} ELSE InStage({"cleared"})
    BY <1>6, <1>9 DEF InStage
  <2> QED BY <1>4, <2>1, <2>2
<1>11. CreditTypeOK' /\ RefreshersStay
  <2>1. RefreshersStay
    BY <1>1, <1>6, VersionStays
  <2> QED BY <1>1, <1>6, <1>8, <1>9, <2>1 DEF CreditTypeOK, RefreshersStay
<1>12. ReservationsCover'
  BY <1>6, <1>9 DEF CreditInvariant, ReservationsCover
<1>13. WalletPays'
  BY <1>6, <1>10 DEF CreditInvariant, WalletPays
<1>14. ReadersSee'
  <2>1. ASSUME NEW k \in Job, job'[k].stage = "read"
        PROVE  /\ k \notin doubt'.moved => job'[k].seen = wallet'
               /\ k \notin doubt'.ended => job'[k].seen <= wallet' + Prices(Paid')
    <3>1. k # j /\ job[k].stage = "read"
      BY <1>9, <2>1
    <3> QED BY <1>6, <1>8, <1>9, <1>10, <3>1 DEF CreditInvariant, ReadersSee
  <2>2. \A r1 \in Refresher : r1 # j
    BY CreditAssumption
  <2>3. \A r1 \in Refresher : refresh'[r1].stage = "read" => (r1 \notin doubt'.moved => refresh'[r1].seen = wallet')
    BY <1>6, <1>8, <1>11, <2>2 DEF CreditInvariant, ReadersSee, RefreshersStay
  <2>4. ASSUME NEW reader \in Readers', ~Overlapped(reader)' PROVE InStage({"charged"})' = {}
    <3>1. reader # j /\ reader \in Readers
      BY <1>9, <1>11, <2>2 DEF Readers, InStage, RefreshersStay
    <3>2. ~Overlapped(reader)
      BY <1>8, <2>4, <3>1 DEF Overlapped
    <3> QED BY <1>10, <3>1, <3>2 DEF CreditInvariant, ReadersSee
  <2> QED BY <2>1, <2>3, <2>4 DEF ReadersSee, Prices
<1>15. BalanceAgrees'
  <2>1. SUFFICES ASSUME ~doubtful PROVE credits' = wallet' + SumFunctionOnSet(PriceOf, Unsettled')
    BY <1>8 DEF BalanceAgrees
  <2>2. job[j].seen = wallet
    BY <1>6, <2>1 DEF Overlapped, CreditInvariant, ReadersSee
  <2>3. Unsettled' = {}
    <3>1. older = Sent
      BY <2>1 DEF Older
    <3> QED BY <1>9, <1>10, <3>1 DEF Unsettled, Sent, InStage
  <2> QED BY <1>1, <1>6, <2>2, <2>3, SumOfNone
<1>16. ClearedIsFunded'
  <2>1. CASE ~passes
    BY <1>6, <1>8, <1>10, <2>1 DEF CreditInvariant, ClearedIsFunded
  <2>2. CASE passes
    <3>1. SUFFICES ASSUME ~unsafe PROVE Prices(InStage({"cleared"}) \cup {j}) <= wallet
      BY <1>6, <1>8, <1>10, <2>2 DEF ClearedIsFunded, Prices
    <3>2. job[j].seen >= ReservedCredits
      BY <2>2 DEF IsFunded
    <3>3. Prices(InStage({"cleared"}) \cup {j}) + Prices(Paid) <= ReservedCredits
      BY <1>1, <1>6, ReservationsPay DEF CreditInvariant
    <3>4. InStage({"cleared"}) \cup {j} \in SUBSET Job
      BY SetsOfJobs
    <3> DEFINE c == Prices(InStage({"cleared"}) \cup {j})
               k == Prices(Paid)
    <3>5. c \in Nat /\ k \in Nat
      BY <3>4, SetsOfJobs, PricesAre
    <3>6. job[j].seen = wallet \/ job[j].seen <= wallet + k
      BY <1>6, <3>1 DEF CreditInvariant, ReadersSee
    <3>7. ReservedCredits \in Int
      <4>1. \A u \in Job : [i \in Job |-> job[i].held][u] \in Int
        BY <1>1 DEF JobRow
      <4> QED BY <4>1, CreditAssumption, SumIsInteger DEF ReservedCredits
    <3> HIDE DEF c, k
    <3>8. c + k <= ReservedCredits
      BY <3>3 DEF c, k
    <3>9. c <= wallet
      BY <1>1, <3>2, <3>5, <3>6, <3>7, <3>8
    <3> QED BY <3>9 DEF c
  <2> QED BY <2>1, <2>2
<1> QED BY <1>11, <1>12, <1>13, <1>14, <1>15, <1>16 DEF CreditInvariant

-----------------------------------------------------------------------------
(* The provider charges, the service records.                              *)

\* What a step of a generation leaves to show: the task's row changes, and
\* with it the sums that the wallet, the copy and the readers are held to.
LEMMA GenerationKeeps ==
    ASSUME CreditInvariant, NEW j \in Job, NEW row \in JobRow, job' = [job EXCEPT ![j] = row],
           job[j].stage # "read", row.stage \notin {"assigned", "read", "poor", "refused", "cleared"},
           row.stage = "charged" => row.held = QuoteOf[j],
           row.stage = "recorded" => row.held >= PriceOf[j],
           wallet' \in 0 .. Deposit, credits' \in 0 .. Deposit, enabled' \in BOOLEAN,
           RefreshersStay,
           doubt' \in DoubtRow, doubt'.clearance = doubt.clearance, doubt.pending \subseteq doubt'.pending,
           \* a charge ends under every reader, or the sum does not shrink
           \/ /\ InStage({"read"}) \subseteq doubt'.ended
              /\ wallet' + Prices(Paid') <= Deposit
           \/ /\ doubt.ended \subseteq doubt'.ended
              /\ wallet' + Prices(Paid') = wallet + Prices(Paid),
           \* the wallet moves under every reader, or it does not move
           \/ Readers \subseteq doubt'.moved
           \/ /\ wallet' = wallet /\ doubt.moved \subseteq doubt'.moved
              /\ row.stage = "charged" => job[j].stage = "charged",
           wallet' >= wallet \/ (job[j].stage = "cleared" /\ wallet' = wallet - PriceOf[j]),
           BalanceAgrees'
    PROVE  CreditInvariant'
<1>1. CreditTypeOK /\ PriceOf[j] \in Nat
  BY CreditAssumption DEF CreditInvariant
<1>2. /\ job' \in [Job -> JobRow]
      /\ job'[j] = row /\ \A k \in Job \ {j} : job'[k] = job[k]
      /\ InStage({"cleared"})' = InStage({"cleared"}) \ {j}
      /\ row.stage # "charged" \/ job[j].stage = "charged" => InStage({"charged"})' \subseteq InStage({"charged"})
  <2>1. InStage({"cleared"})' = InStage({"cleared"}) \ {j}
    BY <1>1, JobChanges
  <2>2. InStage({"charged"})' = IF row.stage = "charged" THEN InStage({"charged"}) \cup {j}
                                ELSE InStage({"charged"}) \ {j}
    BY <1>1, JobChanges
  <2>3. job[j].stage = "charged" => j \in InStage({"charged"})
    BY DEF InStage
  <2> QED BY <1>1, <2>1, <2>2, <2>3, JobChanges
<1>3. CreditTypeOK'
  BY <1>2 DEF CreditTypeOK, RefreshersStay
<1>4. ReservationsCover'
  BY <1>2 DEF CreditInvariant, ReservationsCover
<1>5. WalletPays'
  BY DEF CreditInvariant, WalletPays
<1>6. ReadersSee'
  <2>1. ASSUME NEW k \in Job, job'[k].stage = "read"
        PROVE  /\ k \notin doubt'.moved => job'[k].seen = wallet'
               /\ k \notin doubt'.ended => job'[k].seen <= wallet' + Prices(Paid')
    <3>1. job'[k] = job[k] /\ job[k].stage = "read" /\ k \in InStage({"read"}) /\ k \in Readers
      BY <1>2, <2>1 DEF InStage, Readers
    <3> QED BY <3>1 DEF CreditInvariant, ReadersSee
  <2>2. \A r \in Refresher : refresh'[r].stage = "read" => (r \notin doubt'.moved => refresh'[r].seen = wallet')
    BY DEF CreditInvariant, ReadersSee, Readers, RefreshersStay
  <2>3. ASSUME NEW reader \in Readers', ~Overlapped(reader)' PROVE InStage({"charged"})' = {}
    <3>1. reader \in Readers
      BY <1>2 DEF Readers, InStage, RefreshersStay
    <3>2. reader \notin doubt'.moved /\ reader \notin doubt'.pending
      BY <2>3 DEF Overlapped
    <3>3. ~(Readers \subseteq doubt'.moved)
      BY <3>1, <3>2
    <3>4. ~Overlapped(reader)
      BY <3>2, <3>3 DEF Overlapped
    <3> QED BY <1>2, <3>1, <3>3, <3>4 DEF CreditInvariant, ReadersSee
  <2> QED BY <2>1, <2>2, <2>3 DEF ReadersSee, Prices
<1>7. ClearedIsFunded'
  <2> DEFINE C == InStage({"cleared"})
  <2>1. C \in SUBSET Job /\ wallet \in 0 .. Deposit /\ (job[j].stage = "cleared" => j \in C)
    BY <1>1, SetsOfJobs DEF InStage, CreditTypeOK
  <2>2. ~doubt.clearance => Prices(C) <= wallet
    BY DEF CreditInvariant, ClearedIsFunded, Prices
  <2>3. Prices(C \ {j}) = IF j \in C THEN Prices(C) - PriceOf[j] ELSE Prices(C)
    BY <2>1, PricesWith
  <2>4. Prices(C) \in Nat
    BY <2>1, PricesAre
  <2> HIDE DEF C
  <2>5. ~doubt'.clearance => Prices(C \ {j}) <= wallet'
    BY <1>1, <2>1, <2>2, <2>3, <2>4
  <2> QED BY <1>2, <2>5 DEF ClearedIsFunded, Prices, C
<1> QED BY <1>3, <1>4, <1>5, <1>6, <1>7 DEF CreditInvariant

\* The history that a moving wallet and an ending charge leave.
LEMMA Doubts ==
    ASSUME CreditTypeOK
    PROVE  /\ WalletMoves \in DoubtRow /\ WalletMoves.balance = doubt.balance
           /\ WalletMoves.clearance = doubt.clearance /\ WalletMoves.ended = doubt.ended
           /\ WalletMoves.moved = Readers /\ WalletMoves.pending = doubt.pending
           /\ ReservationEnds \in DoubtRow /\ ReservationEnds.balance = doubt.balance
           /\ ReservationEnds.clearance = doubt.clearance /\ ReservationEnds.moved = doubt.moved
           /\ ReservationEnds.ended = InStage({"read"}) /\ ReservationEnds.pending = doubt.pending
<1>1. Readers \subseteq Job \cup Refresher /\ InStage({"read"}) \subseteq Job
  BY DEF Readers, InStage
<1> QED BY <1>1 DEF CreditTypeOK, DoubtRow, WalletMoves, ReservationEnds

LEMMA DoubtedBalance ==
    ASSUME NEW d \in DoubtRow, NEW b \in BOOLEAN
    PROVE  LET e == [d EXCEPT !.balance = b] IN
           /\ e \in DoubtRow /\ e.balance = b
           /\ e.clearance = d.clearance /\ e.moved = d.moved /\ e.pending = d.pending /\ e.ended = d.ended
BY DEF DoubtRow

\* What a step of task j can do to the sums.
Sums(j) ==
    /\ CreditTypeOK /\ job \in [Job -> JobRow] /\ doubt \in DoubtRow
    /\ refresh \in [Refresher -> RefreshRow] /\ enabled \in BOOLEAN
    /\ wallet \in Nat /\ wallet <= Deposit /\ credits \in Nat /\ credits <= Deposit /\ Deposit \in Nat
    /\ wallet \in 0 .. Deposit /\ credits \in 0 .. Deposit
    /\ PriceOf[j] \in Nat /\ QuoteOf[j] \in Nat /\ PriceOf[j] <= QuoteOf[j]
    /\ Prices(Paid) \in Nat /\ Prices(Unsettled) \in Nat
    /\ wallet + Prices(Paid) <= Deposit
    /\ ~doubt.balance => credits = wallet + Prices(Unsettled)
    /\ job[j].stage \in {"charged", "recorded"} =>
         Prices(Paid \cup {j}) = Prices(Paid) /\ Prices(Paid) = Prices(Paid \ {j}) + PriceOf[j]
    /\ job[j].stage \notin {"charged", "recorded"} => Prices(Paid \cup {j}) = Prices(Paid) + PriceOf[j]
    /\ job[j].stage \in {"charged", "recorded"} /\ ~job[j].synced =>
         Prices(Unsettled \cup {j}) = Prices(Unsettled) /\ Prices(Unsettled) = Prices(Unsettled \ {j}) + PriceOf[j]
    /\ ~(job[j].stage \in {"charged", "recorded"} /\ ~job[j].synced) =>
         Prices(Unsettled \cup {j}) = Prices(Unsettled) + PriceOf[j] /\ Prices(Unsettled \ {j}) = Prices(Unsettled)
    /\ Prices(Paid \ {j}) \in Nat /\ Prices(Unsettled \ {j}) \in Nat

\* The sums and bounds a step of task j moves between.
LEMMA SumsAre ==
    ASSUME CreditInvariant, NEW j \in Job
    PROVE  Sums(j)
<1>1. /\ CreditTypeOK /\ job \in [Job -> JobRow] /\ doubt \in DoubtRow
      /\ refresh \in [Refresher -> RefreshRow] /\ enabled \in BOOLEAN
      /\ wallet \in Nat /\ wallet <= Deposit /\ credits \in Nat /\ credits <= Deposit /\ Deposit \in Nat
      /\ wallet \in 0 .. Deposit /\ credits \in 0 .. Deposit
      /\ PriceOf[j] \in Nat /\ QuoteOf[j] \in Nat /\ PriceOf[j] <= QuoteOf[j]
  BY CreditAssumption DEF CreditInvariant, CreditTypeOK
<1>2. ASSUME NEW S \in SUBSET Job
      PROVE  /\ Prices(S) \in Nat /\ Prices(S \ {j}) \in Nat
             /\ j \in S => Prices(S \cup {j}) = Prices(S) /\ Prices(S) = Prices(S \ {j}) + PriceOf[j]
             /\ j \notin S => Prices(S \cup {j}) = Prices(S) + PriceOf[j] /\ Prices(S \ {j}) = Prices(S)
  <2>1. S \ {j} \in SUBSET Job
    OBVIOUS
  <2>2. Prices(S) \in Nat /\ Prices(S \ {j}) \in Nat
    BY <2>1, PricesAre
  <2>3. /\ Prices(S \cup {j}) = IF j \in S THEN Prices(S) ELSE Prices(S) + PriceOf[j]
        /\ Prices(S \ {j}) = IF j \in S THEN Prices(S) - PriceOf[j] ELSE Prices(S)
    BY PricesWith
  <2> QED BY <1>1, <2>2, <2>3
<1>3. /\ wallet + Prices(Paid) <= Deposit
      /\ ~doubt.balance => credits = wallet + Prices(Unsettled)
  BY DEF CreditInvariant, WalletPays, BalanceAgrees, Prices
<1>4. /\ j \in Paid <=> job[j].stage \in {"charged", "recorded"}
      /\ j \in Unsettled <=> job[j].stage \in {"charged", "recorded"} /\ ~job[j].synced
  BY DEF Paid, Unsettled, Sent, InStage
<1>5. Paid \in SUBSET Job /\ Unsettled \in SUBSET Job
  BY SetsOfJobs
<1> QED BY <1>1, <1>2, <1>3, <1>4, <1>5 DEF Sums

LEMMA AcceptKeeps ==
    ASSUME CreditInvariant, NEW j \in Job, ProviderAccepts(j) PROVE CreditInvariant'
<1>0. Sums(j)
  BY SumsAre
<1>1. PICK r \in JobRow : r = job[j]
  BY <1>0 DEF Sums
<1> DEFINE row == [r EXCEPT !.stage = "charged", !.synced = FALSE]
<1>2. row \in JobRow /\ row.stage = "charged" /\ row.held = r.held /\ row.synced = FALSE
  BY DEF JobRow
<1>3. job' = [job EXCEPT ![j] = row]
  BY <1>1 DEF ProviderAccepts
<1> HIDE DEF row
<1>4. /\ job[j].stage = "cleared" /\ wallet >= PriceOf[j] /\ wallet' = wallet - PriceOf[j]
      /\ doubt' = WalletMoves /\ UNCHANGED <<credits, enabled, refresh>> /\ r.held = QuoteOf[j]
  BY <1>1 DEF ProviderAccepts, CreditInvariant, ReservationsCover
<1>5. Paid' = Paid \cup {j} /\ Unsettled' = Unsettled \cup {j}
  BY <1>2, <1>3, <1>0, JobChanges DEF Sums
<1>6. wallet' \in 0 .. Deposit /\ wallet' + Prices(Paid') = wallet + Prices(Paid)
  BY <1>4, <1>5, <1>0 DEF Sums
<1>7. BalanceAgrees'
  <2>1. ~doubt'.balance => credits' = wallet' + Prices(Unsettled')
    BY <1>4, <1>5, <1>0, Doubts DEF Sums
  <2> QED BY <2>1 DEF BalanceAgrees, Prices
<1>8. RefreshersStay
  BY <1>4, <1>0 DEF RefreshersStay, Sums
<1> QED BY <1>2, <1>3, <1>4, <1>6, <1>7, <1>8, <1>0, Doubts, GenerationKeeps DEF Sums

LEMMA RecordKeeps ==
    ASSUME CreditInvariant, NEW j \in Job, RecordSubmission(j) PROVE CreditInvariant'
<1>0. Sums(j)
  BY SumsAre
<1>1. PICK r \in JobRow : r = job[j]
  BY <1>0 DEF Sums
<1>2. PICK cost \in Nat : /\ cost >= PriceOf[j]
                          /\ job' = [job EXCEPT ![j] = [@ EXCEPT !.stage = "recorded", !.held = cost]]
  <2>1. PICK cost \in {QuoteOf[j], PriceOf[j]} :
          job' = [job EXCEPT ![j] = [@ EXCEPT !.stage = "recorded", !.held = cost]]
    BY DEF RecordSubmission
  <2>2. cost \in Nat /\ cost >= PriceOf[j]
    BY <1>0 DEF Sums
  <2> QED BY <2>1, <2>2
<1> DEFINE row == [r EXCEPT !.stage = "recorded", !.held = cost]
<1>3. row \in JobRow /\ row.stage = "recorded" /\ row.held = cost /\ row.synced = r.synced
  BY DEF JobRow
<1>4. job' = [job EXCEPT ![j] = row]
  BY <1>1, <1>2
<1> HIDE DEF row
<1>5. job[j].stage = "charged" /\ UNCHANGED <<wallet, credits, enabled, refresh, doubt>>
  BY DEF RecordSubmission
<1>6. Paid' = Paid \cup {j} /\ Unsettled' = IF job[j].synced THEN Unsettled \ {j} ELSE Unsettled \cup {j}
  BY <1>1, <1>3, <1>4, <1>0, JobChanges DEF Sums
<1>7. wallet' + Prices(Paid') = wallet + Prices(Paid) /\ wallet' >= wallet
  BY <1>5, <1>6, <1>0 DEF Sums
<1>8. BalanceAgrees'
  <2>1. Prices(Unsettled') = Prices(Unsettled)
    BY <1>5, <1>6, <1>0 DEF Sums
  <2>2. ~doubt'.balance => credits' = wallet' + Prices(Unsettled')
    BY <1>5, <2>1, <1>0 DEF Sums
  <2> QED BY <2>2 DEF BalanceAgrees, Prices
<1>9. RefreshersStay
  BY <1>5, <1>0 DEF RefreshersStay, Sums
<1> QED BY <1>2, <1>3, <1>4, <1>5, <1>7, <1>8, <1>9, <1>0, GenerationKeeps DEF Sums

LEMMA GiveUpKeeps ==
    ASSUME CreditInvariant, NEW j \in Job, NEW stage \in {"waiting", "failed"},
           job[j].stage \in {"charged", "recorded"}, GivesUp(j, stage)
    PROVE  CreditInvariant'
<1>0. Sums(j)
  BY SumsAre
<1>1. PICK r \in JobRow : r = job[j]
  BY <1>0 DEF Sums
<1> DEFINE row == [r EXCEPT !.stage = stage, !.held = 0, !.synced = FALSE]
           b == doubt.balance \/ ~job[j].synced
<1>2. row \in JobRow /\ row.stage = stage
  BY DEF JobRow
<1>3. job' = [job EXCEPT ![j] = row]
  BY <1>1 DEF GivesUp
<1> HIDE DEF row
<1>4. VersionMoves /\ UNCHANGED <<wallet, credits, enabled>>
  BY DEF GivesUp
<1>5. /\ doubt' \in DoubtRow /\ doubt'.balance = b /\ doubt'.clearance = doubt.clearance
      /\ doubt'.moved = doubt.moved /\ doubt'.pending = doubt.pending /\ doubt'.ended = InStage({"read"})
  <2>1. doubt' = [ReservationEnds EXCEPT !.balance = b]
    <3>1. ReservationEnds.balance = doubt.balance
      BY <1>0, Doubts DEF Sums
    <3> QED BY <3>1 DEF GivesUp
  <2>2. b \in BOOLEAN
    BY <1>1, <1>0 DEF DoubtRow, JobRow, Sums
  <2> HIDE DEF b
  <2> QED BY <2>1, <2>2, <1>0, Doubts, DoubtedBalance DEF Sums
<1>6. Paid' = Paid \ {j} /\ Unsettled' = Unsettled \ {j}
  BY <1>2, <1>3, <1>0, JobChanges DEF Sums
<1>7. wallet' + Prices(Paid') <= Deposit /\ wallet' >= wallet
  BY <1>4, <1>6, <1>0 DEF Sums
<1>8. BalanceAgrees'
  <2>1. ~doubt'.balance => credits' = wallet' + Prices(Unsettled')
    <3>1. CASE ~job[j].synced
      BY <1>5, <3>1
    <3>2. CASE job[j].synced
      <4>1. Prices(Unsettled \ {j}) = Prices(Unsettled)
        BY <1>0, <3>2 DEF Sums
      <4>2. ~doubt'.balance => ~doubt.balance
        BY <1>5
      <4> QED BY <1>0, <1>4, <1>6, <4>1, <4>2 DEF Sums
    <3> QED BY <3>1, <3>2
  <2> QED BY <2>1 DEF BalanceAgrees, Prices
<1>9. RefreshersStay
  BY <1>4, <1>0, VersionStays DEF Sums
<1> QED BY <1>2, <1>3, <1>4, <1>5, <1>7, <1>8, <1>9, <1>0, GenerationKeeps DEF Sums

\* The ends of a task that is not settled.
LEMMA UnsettledEndKeeps ==
    ASSUME CreditInvariant, NEW j \in Job, LoseSubmission(j) \/ FailJob(j) \/ TimeOutJob(j)
    PROVE  CreditInvariant'
<1>1. CASE LoseSubmission(j)
  BY <1>1, GiveUpKeeps DEF LoseSubmission
<1>2. ASSUME NEW stage \in {"waiting", "failed"}, EndsUnsettled(j, stage) PROVE CreditInvariant'
  BY <1>2, GiveUpKeeps, RefundedEndKeeps DEF EndsUnsettled
<1>3. CASE FailJob(j)
  BY <1>2, <1>3 DEF FailJob
<1>4. CASE TimeOutJob(j)
  BY <1>2, <1>4 DEF TimeOutJob
<1> QED BY <1>1, <1>3, <1>4

LEMMA SettleKeeps ==
    ASSUME CreditInvariant, NEW j \in Job, NEW cost \in {PriceOf[j], QuoteOf[j]}, SettleJob(j, cost)
    PROVE  CreditInvariant'
<1>0. Sums(j)
  BY SumsAre
<1>1. PICK r \in JobRow : r = job[j]
  BY <1>0 DEF Sums
<1> DEFINE row == [r EXCEPT !.stage = "done", !.held = 0, !.synced = FALSE]
           wrong == ~job[j].synced /\ (cost # PriceOf[j] \/ credits < cost)
           b == doubt.balance \/ wrong
<1>2. row \in JobRow /\ row.stage = "done" /\ row.synced = FALSE
  BY DEF JobRow
<1>3. job' = [job EXCEPT ![j] = row]
  BY <1>1 DEF SettleJob
<1> HIDE DEF row
<1>4. /\ job[j].stage = "recorded" /\ VersionMoves /\ UNCHANGED wallet
      /\ credits' = SettledCredits(j, cost) /\ enabled' = (enabled /\ credits' >= LowCredits)
  BY DEF SettleJob
<1>5. doubt' = [ReservationEnds EXCEPT !.balance = b]
  <2>1. ReservationEnds.balance = doubt.balance
    BY <1>0, Doubts DEF Sums
  <2> QED BY <2>1 DEF SettleJob
<1>6. /\ doubt' \in DoubtRow /\ doubt'.balance = b /\ doubt'.clearance = doubt.clearance
      /\ doubt'.moved = doubt.moved /\ doubt'.pending = doubt.pending /\ doubt'.ended = InStage({"read"})
  <2>1. b \in BOOLEAN
    BY <1>0 DEF DoubtRow, Sums
  <2> HIDE DEF b
  <2> QED BY <1>5, <2>1, <1>0, Doubts, DoubtedBalance DEF Sums
<1>7. credits' \in 0 .. Deposit
  BY <1>4, <1>0 DEF SettledCredits, Sums
<1>8. Paid' = Paid \ {j} /\ Unsettled' = Unsettled \ {j}
  BY <1>2, <1>3, <1>0, JobChanges DEF Sums
<1>9. wallet' + Prices(Paid') <= Deposit /\ wallet' >= wallet
  BY <1>4, <1>8, <1>0 DEF Sums
<1>10. BalanceAgrees'
  <2>1. ~doubt'.balance => credits' = wallet' + Prices(Unsettled')
    <3>1. CASE job[j].synced
      <4>1. credits' = credits /\ Prices(Unsettled \ {j}) = Prices(Unsettled)
        BY <1>0, <1>4, <3>1 DEF SettledCredits, Sums
      <4> QED BY <1>0, <1>4, <1>6, <1>8, <4>1 DEF Sums
    <3>2. CASE ~job[j].synced
      <4>1. /\ credits' = IF credits < cost THEN 0 ELSE credits - cost
            /\ Prices(Unsettled) = Prices(Unsettled \ {j}) + PriceOf[j]
        BY <1>0, <1>4, <3>2 DEF SettledCredits, Sums
      <4>2. ~doubt'.balance => ~doubt.balance /\ cost = PriceOf[j] /\ ~(credits < cost)
        BY <1>6, <3>2
      <4> QED BY <1>0, <1>4, <1>8, <4>1, <4>2 DEF Sums
    <3> QED BY <3>1, <3>2
  <2> QED BY <2>1 DEF BalanceAgrees, Prices
<1>11. enabled' \in BOOLEAN /\ RefreshersStay
  BY <1>4, <1>0, VersionStays DEF Sums
<1> QED BY <1>2, <1>3, <1>4, <1>6, <1>7, <1>9, <1>10, <1>11, <1>0, GenerationKeeps DEF Sums

LEMMA RefundKeeps ==
    ASSUME CreditInvariant, NEW j \in Job, ProviderRefunds(j) PROVE CreditInvariant'
<1>0. Sums(j)
  BY SumsAre
<1>1. PICK r \in JobRow : r = job[j]
  BY <1>0 DEF Sums
<1> DEFINE row == [r EXCEPT !.stage = "refunded", !.synced = FALSE]
           b == doubt.balance \/ job[j].synced
<1>2. row \in JobRow /\ row.stage = "refunded" /\ row.synced = FALSE
  BY DEF JobRow
<1>3. job' = [job EXCEPT ![j] = row]
  BY <1>1 DEF ProviderRefunds
<1> HIDE DEF row
<1>4. /\ job[j].stage = "recorded" /\ wallet' = wallet + PriceOf[j]
      /\ UNCHANGED <<credits, enabled, refresh>>
  BY DEF ProviderRefunds
<1>5. doubt' = [WalletMoves EXCEPT !.balance = b]
  <2>1. WalletMoves.balance = doubt.balance
    BY <1>0, Doubts DEF Sums
  <2> QED BY <2>1 DEF ProviderRefunds
<1>6. /\ doubt' \in DoubtRow /\ doubt'.balance = b /\ doubt'.clearance = doubt.clearance
      /\ doubt'.moved = Readers /\ doubt'.pending = doubt.pending /\ doubt'.ended = doubt.ended
  <2>1. b \in BOOLEAN
    BY <1>1, <1>0 DEF DoubtRow, JobRow, Sums
  <2> HIDE DEF b
  <2> QED BY <1>5, <2>1, <1>0, Doubts, DoubtedBalance DEF Sums
<1>7. Paid' = Paid \ {j} /\ Unsettled' = Unsettled \ {j}
  BY <1>2, <1>3, <1>0, JobChanges DEF Sums
<1>8. wallet' \in 0 .. Deposit /\ wallet' + Prices(Paid') = wallet + Prices(Paid) /\ wallet' >= wallet
  BY <1>4, <1>7, <1>0 DEF Sums
<1>9. BalanceAgrees'
  <2>1. ~doubt'.balance => credits' = wallet' + Prices(Unsettled')
    <3>1. CASE job[j].synced
      BY <1>6, <3>1
    <3>2. CASE ~job[j].synced
      <4>1. Prices(Unsettled) = Prices(Unsettled \ {j}) + PriceOf[j]
        BY <1>0, <1>4, <3>2 DEF Sums
      <4>2. ~doubt'.balance => ~doubt.balance
        BY <1>6
      <4> QED BY <1>0, <1>4, <1>7, <4>1, <4>2 DEF Sums
    <3> QED BY <3>1, <3>2
  <2> QED BY <2>1 DEF BalanceAgrees, Prices
<1>10. RefreshersStay
  BY <1>4, <1>0 DEF RefreshersStay, Sums
<1> QED BY <1>2, <1>3, <1>4, <1>6, <1>8, <1>9, <1>10, <1>0, GenerationKeeps DEF Sums

LEMMA LateRefundKeeps ==
    ASSUME CreditInvariant, NEW j \in Job, ProviderRefundsLate(j) PROVE CreditInvariant'
<1>0. Sums(j)
  BY SumsAre
<1> DEFINE kept == InStage({"charged", "recorded", "done"})
<1>1. /\ wallet' = wallet + PriceOf[j] /\ wallet' + Prices(kept) <= Deposit
      /\ UNCHANGED <<credits, enabled, job, refresh>>
      /\ doubt' = [WalletMoves EXCEPT !.balance = TRUE]
  BY DEF ProviderRefundsLate, Prices
<1>2. /\ doubt' \in DoubtRow /\ doubt'.balance /\ doubt'.clearance = doubt.clearance
      /\ doubt'.moved = Readers /\ doubt'.pending = doubt.pending /\ doubt'.ended = doubt.ended
  BY <1>1, <1>0, Doubts, DoubtedBalance DEF Sums
<1>3. /\ Paid' = Paid /\ InStage({"cleared"})' = InStage({"cleared"}) /\ Readers' = Readers
  BY <1>1 DEF Paid, Readers, InStage
<1>4. wallet' \in 0 .. Deposit /\ wallet' >= wallet /\ wallet' + Prices(Paid) <= Deposit
  <2>1. Paid \in SUBSET kept /\ kept \in SUBSET Job
    BY DEF Paid, InStage
  <2> HIDE DEF kept
  <2>2. Prices(Paid) <= Prices(kept) /\ Prices(kept) \in Nat
    BY <2>1, PricesOfFewer, PricesAre
  <2> QED BY <1>0, <1>1, <2>2 DEF Sums
<1>5. CreditTypeOK' /\ ReservationsCover'
  BY <1>0, <1>1, <1>2, <1>4 DEF Sums, CreditInvariant, CreditTypeOK, ReservationsCover
<1>6. WalletPays' /\ BalanceAgrees'
  BY <1>2, <1>3, <1>4 DEF WalletPays, BalanceAgrees, Prices
<1>7. ReadersSee'
  <2>1. ASSUME NEW k \in Job, job'[k].stage = "read"
        PROVE  /\ k \notin doubt'.moved => job'[k].seen = wallet'
               /\ k \notin doubt'.ended => job'[k].seen <= wallet' + Prices(Paid')
    <3>1. k \in Readers /\ job[k].seen \in Nat
      BY <1>0, <1>1, <2>1 DEF Readers, InStage, Sums, JobRow
    <3>2. k \notin doubt.ended => job[k].seen <= wallet + Prices(Paid)
      BY <1>1, <2>1 DEF CreditInvariant, ReadersSee
    <3> QED BY <1>0, <1>1, <1>2, <1>3, <1>4, <3>1, <3>2 DEF Sums
  <2>2. \A r \in Refresher : refresh'[r].stage = "read" => r \in doubt'.moved
    BY <1>1, <1>2 DEF Readers
  <2>3. \A reader \in Readers' : Overlapped(reader)'
    BY <1>2, <1>3 DEF Overlapped
  <2> QED BY <2>1, <2>2, <2>3 DEF ReadersSee, Prices
<1>8. ClearedIsFunded'
  <2> DEFINE c == Prices(InStage({"cleared"}))
  <2>1. c \in Nat
    BY SetsOfJobs, PricesAre
  <2>2. ~doubt.clearance => c <= wallet
    BY DEF CreditInvariant, ClearedIsFunded, Prices
  <2> HIDE DEF c
  <2>3. ~doubt'.clearance => c <= wallet'
    BY <1>0, <1>2, <1>4, <2>1, <2>2 DEF Sums
  <2> QED BY <1>3, <2>3 DEF ClearedIsFunded, Prices, c
<1> QED BY <1>5, <1>6, <1>7, <1>8 DEF CreditInvariant

-----------------------------------------------------------------------------
(* The other refreshes.                                                    *)

\* A refresh begins, reads or is dropped, or the status changes: what was read
\* and is still to be written was read as before, or is the wallet.
LEMMA RefreshersKeep ==
    ASSUME CreditInvariant, UNCHANGED <<wallet, credits, job>>, enabled' \in BOOLEAN,
           refresh' \in [Refresher -> RefreshRow],
           doubt' \in DoubtRow, doubt'.balance = doubt.balance, doubt'.clearance = doubt.clearance,
           \A k \in Job : /\ (k \in doubt.moved => k \in doubt'.moved)
                         /\ (k \in doubt.pending => k \in doubt'.pending)
                         /\ (k \in doubt.ended => k \in doubt'.ended),
           \A r \in Refresher : refresh'[r].stage = "read" =>
             (\/ /\ refresh[r].stage = "read" /\ refresh'[r].seen = refresh[r].seen
                 /\ (r \in doubt.moved => r \in doubt'.moved)
                 /\ (r \in doubt.pending => r \in doubt'.pending)
              \/ /\ refresh'[r].seen = wallet
                 /\ (r \in doubt'.pending \/ InStage({"charged"}) = {}))
    PROVE  CreditInvariant'
<1>1. CreditTypeOK' /\ ReservationsCover'
  BY DEF CreditInvariant, CreditTypeOK, ReservationsCover
<1>2. /\ Paid' = Paid /\ Unsettled' = Unsettled /\ InStage({"cleared"})' = InStage({"cleared"})
      /\ InStage({"charged"})' = InStage({"charged"})
  BY DEF Paid, Unsettled, Sent, InStage
<1>3. ReadersSee'
  <2>1. ASSUME NEW k \in Job, job'[k].stage = "read"
        PROVE  /\ k \notin doubt'.moved => job'[k].seen = wallet'
               /\ k \notin doubt'.ended => job'[k].seen <= wallet' + Prices(Paid')
    BY <1>2, <2>1 DEF CreditInvariant, ReadersSee
  <2>2. \A r \in Refresher : refresh'[r].stage = "read" => (r \notin doubt'.moved => refresh'[r].seen = wallet')
    BY DEF CreditInvariant, ReadersSee
  <2>3. ASSUME NEW reader \in Readers', ~Overlapped(reader)' PROVE InStage({"charged"})' = {}
    <3>1. reader \notin doubt'.moved /\ reader \notin doubt'.pending
      BY <2>3 DEF Overlapped
    <3>2. CASE reader \in InStage({"read"})
      <4>1. reader \in Readers /\ ~Overlapped(reader)
        BY <3>1, <3>2 DEF Readers, Overlapped, InStage
      <4> QED BY <1>2, <4>1 DEF CreditInvariant, ReadersSee
    <3>3. CASE reader \notin InStage({"read"})
      <4>1. reader \in Refresher /\ refresh'[reader].stage = "read"
        BY <3>3 DEF Readers, InStage
      <4>2. CASE refresh[reader].stage = "read" /\ reader \notin doubt.moved /\ reader \notin doubt.pending
        <5>1. reader \in Readers /\ ~Overlapped(reader)
          BY <4>1, <4>2 DEF Readers, Overlapped
        <5> QED BY <1>2, <5>1 DEF CreditInvariant, ReadersSee
      <4>3. CASE ~(refresh[reader].stage = "read" /\ reader \notin doubt.moved /\ reader \notin doubt.pending)
        BY <1>2, <3>1, <4>1, <4>3
      <4> QED BY <4>2, <4>3
    <3> QED BY <3>2, <3>3
  <2> QED BY <2>1, <2>2, <2>3 DEF ReadersSee, Prices
<1>4. WalletPays' /\ BalanceAgrees' /\ ClearedIsFunded'
  BY <1>2 DEF CreditInvariant, WalletPays, BalanceAgrees, ClearedIsFunded
<1> QED BY <1>1, <1>3, <1>4 DEF CreditInvariant

\* Rows of refreshes.
LEMMA RefreshRows ==
    ASSUME CreditInvariant, NEW r \in Refresher
    PROVE  /\ CreditTypeOK /\ refresh \in [Refresher -> RefreshRow] /\ wallet \in 0 .. Deposit
           /\ Deposit \in Nat /\ enabled \in BOOLEAN /\ doubt \in DoubtRow
           /\ credits \in 0 .. Deposit /\ job \in [Job -> JobRow]
           /\ NoRefresh \in RefreshRow /\ NoRefresh.stage = "idle"
           /\ \A k \in Job : k # r
<1>1. /\ CreditTypeOK /\ refresh \in [Refresher -> RefreshRow] /\ wallet \in 0 .. Deposit
      /\ enabled \in BOOLEAN /\ doubt \in DoubtRow
      /\ credits \in 0 .. Deposit /\ job \in [Job -> JobRow]
  BY DEF CreditInvariant, CreditTypeOK
<1>2. Deposit \in Nat /\ \A k \in Job : k # r
  BY CreditAssumption
<1>3. NoRefresh \in RefreshRow /\ NoRefresh.stage = "idle"
  BY <1>2 DEF RefreshRow, NoRefresh
<1> QED BY <1>1, <1>2, <1>3

LEMMA RefreshBeginKeeps ==
    ASSUME CreditInvariant, NEW r \in Refresher, BeginRefresh(r) PROVE CreditInvariant'
<1>1. UNCHANGED <<wallet, credits, enabled, job, doubt>>
  BY DEF BeginRefresh
<1> DEFINE row == [refresh[r] EXCEPT !.stage = "claimed"]
<1>2. refresh' = [refresh EXCEPT ![r] = row] /\ row \in RefreshRow /\ row.stage = "claimed"
  BY RefreshRows DEF BeginRefresh, RefreshRow
<1> HIDE DEF row
<1>3. /\ refresh' \in [Refresher -> RefreshRow] /\ refresh'[r].stage = "claimed"
      /\ \A q \in Refresher \ {r} : refresh'[q] = refresh[q]
  BY <1>2, RefreshRows
<1> QED BY <1>1, <1>3, RefreshRows, RefreshersKeep

LEMMA RefreshReadKeeps ==
    ASSUME CreditInvariant, NEW r \in Refresher, RefresherReads(r) PROVE CreditInvariant'
<1>1. UNCHANGED <<wallet, credits, enabled, job>> /\ doubt' = Recall(r)
  BY DEF RefresherReads
<1>2. PICK old \in RefreshRow : old = refresh[r]
  BY RefreshRows
<1>3. PICK w \in 0 .. Deposit : w = wallet
  BY RefreshRows
<1> DEFINE row == [old EXCEPT !.stage = "read", !.seen = w]
<1>4. row \in RefreshRow /\ row.stage = "read" /\ row.seen = w
  BY DEF RefreshRow
<1>5. refresh' = [refresh EXCEPT ![r] = row]
  BY <1>2, <1>3 DEF RefresherReads
<1> HIDE DEF row
<1>6. /\ refresh' \in [Refresher -> RefreshRow] /\ refresh'[r].seen = wallet
      /\ \A q \in Refresher \ {r} : refresh'[q] = refresh[q]
  BY <1>3, <1>4, <1>5, RefreshRows
<1>7. /\ doubt' \in DoubtRow /\ doubt'.balance = doubt.balance /\ doubt'.clearance = doubt.clearance
      /\ doubt'.moved = doubt.moved /\ doubt'.ended = doubt.ended /\ doubt.pending \subseteq doubt'.pending
      /\ r \in doubt'.pending \/ InStage({"charged"}) = {}
  BY <1>1, RefreshRows, Recalled
<1> QED BY <1>1, <1>6, <1>7, RefreshRows, RefreshersKeep

\* The row of a refresh that ends, and of those that go on.
LEMMA RefreshEnds ==
    ASSUME CreditInvariant, NEW r \in Refresher,
           refresh' \in {[refresh EXCEPT ![r] = NoRefresh], [VersionMoved EXCEPT ![r] = NoRefresh]}
    PROVE  /\ refresh' \in [Refresher -> RefreshRow] /\ refresh'[r].stage = "idle"
           /\ \A q \in Refresher \ {r} : refresh'[q].stage = refresh[q].stage /\ refresh'[q].seen = refresh[q].seen
<1>1. \A f \in [Refresher -> RefreshRow] :
        /\ [f EXCEPT ![r] = NoRefresh] \in [Refresher -> RefreshRow]
        /\ [f EXCEPT ![r] = NoRefresh][r] = NoRefresh
        /\ \A q \in Refresher \ {r} : [f EXCEPT ![r] = NoRefresh][q] = f[q]
  BY RefreshRows
<1> QED BY <1>1, RefreshRows, VersionLeaves

LEMMA RefreshDropKeeps ==
    ASSUME CreditInvariant, NEW r \in Refresher, RefreshDropped(r) PROVE CreditInvariant'
<1>1. UNCHANGED <<wallet, credits, enabled, job>> /\ doubt' = Forget(r)
  BY DEF RefreshDropped
<1>2. /\ refresh' \in [Refresher -> RefreshRow] /\ refresh'[r].stage = "idle"
      /\ \A q \in Refresher \ {r} : refresh'[q].stage = refresh[q].stage /\ refresh'[q].seen = refresh[q].seen
  BY RefreshEnds DEF RefreshDropped
<1>3. /\ doubt' \in DoubtRow /\ doubt'.balance = doubt.balance /\ doubt'.clearance = doubt.clearance
      /\ doubt'.moved = doubt.moved \ {r} /\ doubt'.pending = doubt.pending \ {r}
      /\ doubt'.ended = doubt.ended \ {r}
  BY <1>1, RefreshRows, Forgotten
<1> QED BY <1>1, <1>2, <1>3, RefreshRows, RefreshersKeep

LEMMA AccountKeeps ==
    ASSUME CreditInvariant, AccountChanges PROVE CreditInvariant'
<1>1. CreditTypeOK /\ enabled \in BOOLEAN /\ doubt \in DoubtRow
  BY DEF CreditInvariant, CreditTypeOK
<1>2. UNCHANGED <<wallet, credits, job, doubt>> /\ enabled' \in BOOLEAN
  BY <1>1 DEF AccountChanges
<1>3. RefreshersStay
  BY <1>1, VersionLeaves DEF AccountChanges
<1> QED BY <1>1, <1>2, <1>3, RefreshersKeep DEF RefreshersStay

\* A refresh stamps the account: rows keep their stages, its own view is gone.
LEMMA StampKeeps ==
    ASSUME CreditInvariant, NEW r \in Refresher, NEW older, job' = Stamped(job, older),
           wallet' = wallet, credits' \in 0 .. Deposit, enabled' \in BOOLEAN,
           refresh' = [VersionMoved EXCEPT ![r] = NoRefresh],
           doubt' \in DoubtRow, doubt'.clearance = doubt.clearance,
           doubt'.moved = doubt.moved \ {r}, doubt'.pending = doubt.pending \ {r},
           doubt'.ended = doubt.ended \ {r}, BalanceAgrees'
    PROVE  CreditInvariant'
<1>1. /\ job' \in [Job -> JobRow]
      /\ \A k \in Job : /\ job'[k].stage = job[k].stage /\ job'[k].seen = job[k].seen
                        /\ job'[k].held = job[k].held
  BY RefreshRows, StampedRows
<1>2. /\ refresh' \in [Refresher -> RefreshRow] /\ refresh'[r].stage = "idle"
      /\ \A q \in Refresher \ {r} : refresh'[q].stage = refresh[q].stage /\ refresh'[q].seen = refresh[q].seen
  BY RefreshEnds
<1>3. /\ Paid' = Paid /\ InStage({"charged"})' = InStage({"charged"})
      /\ InStage({"cleared"})' = InStage({"cleared"})
  BY <1>1 DEF Paid, InStage
<1>4. CreditTypeOK'
  BY <1>1, <1>2, RefreshRows DEF CreditTypeOK
<1>5. ReservationsCover' /\ WalletPays'
  BY <1>1, <1>3 DEF CreditInvariant, ReservationsCover, WalletPays
<1>6. ReadersSee'
  <2>1. ASSUME NEW k \in Job, job'[k].stage = "read"
        PROVE  /\ k \notin doubt'.moved => job'[k].seen = wallet'
               /\ k \notin doubt'.ended => job'[k].seen <= wallet' + Prices(Paid')
    <3>1. k # r
      BY RefreshRows
    <3> QED BY <1>1, <1>3, <2>1, <3>1 DEF CreditInvariant, ReadersSee
  <2>2. \A q \in Refresher : refresh'[q].stage = "read" => (q \notin doubt'.moved => refresh'[q].seen = wallet')
    BY <1>2 DEF CreditInvariant, ReadersSee
  <2>3. ASSUME NEW reader \in Readers', ~Overlapped(reader)' PROVE InStage({"charged"})' = {}
    <3>1. reader # r /\ reader \in Readers
      BY <1>1, <1>2, RefreshRows DEF Readers, InStage
    <3>2. ~Overlapped(reader)
      BY <2>3, <3>1 DEF Overlapped
    <3> QED BY <1>3, <3>1, <3>2 DEF CreditInvariant, ReadersSee
  <2> QED BY <2>1, <2>2, <2>3 DEF ReadersSee, Prices
<1>7. ClearedIsFunded'
  BY <1>3 DEF CreditInvariant, ClearedIsFunded
<1> QED BY <1>4, <1>5, <1>6, <1>7 DEF CreditInvariant

LEMMA StoreKeeps ==
    ASSUME CreditInvariant, NEW r \in Refresher, refresh[r].stage = "read", StoresBalance(r)
    PROVE  CreditInvariant'
<1>1. PICK older \in Older(r) : job' = Stamped(job, older)
  BY DEF StoresBalance
<1>2. /\ credits' = refresh[r].seen /\ enabled' \in BOOLEAN /\ wallet' = wallet
      /\ refresh' = [VersionMoved EXCEPT ![r] = NoRefresh]
      /\ doubt' = [Forget(r) EXCEPT !.balance = Overlapped(r)]
  <2>1. enabled' \in BOOLEAN
    <3>1. enabled' \in {FALSE, refresh[r].seen >= LowCredits}
      BY DEF StoresBalance
    <3>2. (refresh[r].seen >= LowCredits) \in BOOLEAN
      BY RefreshRows, CreditAssumption DEF RefreshRow
    <3> QED BY <3>1, <3>2, Zenon
  <2>2. /\ credits' = refresh[r].seen /\ wallet' = wallet
        /\ refresh' = [VersionMoved EXCEPT ![r] = NoRefresh]
    BY DEF StoresBalance
  <2>3. doubt' = [Forget(r) EXCEPT !.balance = Overlapped(r)]
    BY DEF StoresBalance
  <2> QED BY <2>1, <2>2, <2>3
<1>3. credits' \in 0 .. Deposit
  BY <1>2, RefreshRows DEF RefreshRow
<1>4. /\ doubt' \in DoubtRow /\ doubt'.balance = Overlapped(r) /\ doubt'.clearance = doubt.clearance
      /\ doubt'.moved = doubt.moved \ {r} /\ doubt'.pending = doubt.pending \ {r}
      /\ doubt'.ended = doubt.ended \ {r}
  <2>1. Overlapped(r) \in BOOLEAN
    BY DEF Overlapped
  <2> QED BY <1>2, <2>1, RefreshRows, Forgotten, DoubtedBalance
<1>5. BalanceAgrees'
  <2>1. SUFFICES ASSUME ~Overlapped(r) PROVE credits' = wallet' + SumFunctionOnSet(PriceOf, Unsettled')
    BY <1>4 DEF BalanceAgrees
  <2>2. refresh[r].seen = wallet
    BY <2>1 DEF Overlapped, CreditInvariant, ReadersSee
  <2>3. Unsettled' = {}
    <3>1. older = Sent
      BY <1>1, <2>1 DEF Older
    <3>2. \A k \in Job : /\ job'[k].stage = job[k].stage
                         /\ job[k].stage \in {"charged", "recorded"} => (job'[k].synced <=> k \in older)
      BY <1>1, RefreshRows, StampedRows
    <3> QED BY <3>1, <3>2 DEF Unsettled, Sent, InStage
  <2> QED BY <1>2, <2>2, <2>3, RefreshRows, SumOfNone
<1> QED BY <1>1, <1>2, <1>3, <1>4, <1>5, StampKeeps

LEMMA FailedRefreshKeeps ==
    ASSUME CreditInvariant, NEW r \in Refresher, RefreshFails(r) PROVE CreditInvariant'
<1> DEFINE b == doubt.balance \/ job' # job
<1>1. PICK older \in Older(r) : job' = Stamped(job, older)
  BY DEF RefreshFails
<1>2. /\ enabled' \in BOOLEAN /\ wallet' = wallet /\ credits' = credits
      /\ refresh' = [VersionMoved EXCEPT ![r] = NoRefresh]
  BY RefreshRows DEF RefreshFails
<1>3. /\ doubt' \in DoubtRow /\ doubt'.balance = b /\ doubt'.clearance = doubt.clearance
      /\ doubt'.moved = doubt.moved \ {r} /\ doubt'.pending = doubt.pending \ {r}
      /\ doubt'.ended = doubt.ended \ {r}
  <2>1. Forget(r).balance = doubt.balance
    BY RefreshRows, Forgotten
  <2>2. doubt' = [Forget(r) EXCEPT !.balance = b]
    BY <2>1 DEF RefreshFails
  <2>3. b \in BOOLEAN
    BY RefreshRows DEF DoubtRow
  <2> HIDE DEF b
  <2> QED BY <2>2, <2>3, RefreshRows, Forgotten, DoubtedBalance
<1>4. BalanceAgrees'
  <2>1. SUFFICES ASSUME ~b PROVE credits' = wallet' + SumFunctionOnSet(PriceOf, Unsettled')
    BY <1>3 DEF BalanceAgrees
  <2>2. Unsettled' = Unsettled
    BY <2>1 DEF Unsettled, Sent, InStage
  <2> QED BY <1>2, <2>1, <2>2 DEF CreditInvariant, BalanceAgrees
<1>5. credits' \in 0 .. Deposit
  BY <1>2, RefreshRows
<1> QED BY <1>1, <1>2, <1>3, <1>4, <1>5, StampKeeps

LEMMA LedgerKeeps ==
    ASSUME CreditInvariant, NEW r \in Refresher, LedgerImported(r) PROVE CreditInvariant'
<1>1. PICK older \in Older(r) \cup {{}} : job' = Stamped(job, older)
  BY DEF LedgerImported
<1>2. /\ enabled' \in BOOLEAN /\ wallet' = wallet /\ credits' = refresh[r].seen
      /\ refresh' = [VersionMoved EXCEPT ![r] = NoRefresh]
      /\ doubt' = [Forget(r) EXCEPT !.balance = TRUE]
  BY RefreshRows DEF LedgerImported
<1>3. /\ doubt' \in DoubtRow /\ doubt'.balance /\ doubt'.clearance = doubt.clearance
      /\ doubt'.moved = doubt.moved \ {r} /\ doubt'.pending = doubt.pending \ {r}
      /\ doubt'.ended = doubt.ended \ {r}
  <2>1. LET e == [Forget(r) EXCEPT !.balance = TRUE] IN
        /\ e \in DoubtRow /\ e.balance = TRUE /\ e.clearance = Forget(r).clearance
        /\ e.moved = Forget(r).moved /\ e.pending = Forget(r).pending /\ e.ended = Forget(r).ended
    BY RefreshRows, Forgotten, DoubtedBalance
  <2> QED BY <1>2, <2>1, RefreshRows, Forgotten
<1>4. credits' \in 0 .. Deposit
  BY <1>2, RefreshRows DEF RefreshRow
<1>5. BalanceAgrees'
  BY <1>3 DEF BalanceAgrees
<1> QED BY <1>1, <1>2, <1>3, <1>4, <1>5, StampKeeps

LEMMA RefreshStepKeeps ==
    ASSUME CreditInvariant, NEW r \in Refresher, RefreshStep(r) PROVE CreditInvariant'
<1>1. CASE RefreshSucceeds(r) \/ BalanceReported(r)
  BY <1>1, StoreKeeps DEF RefreshSucceeds, BalanceReported
<1> QED BY <1>1, RefreshBeginKeeps, RefreshReadKeeps, FailedRefreshKeeps, LedgerKeeps, RefreshDropKeeps
        DEF RefreshStep

-----------------------------------------------------------------------------

LEMMA CreditNextKeeps == CreditInvariant /\ [CreditNext]_creditVars => CreditInvariant'
<1> SUFFICES ASSUME CreditInvariant, [CreditNext]_creditVars PROVE CreditInvariant'
  OBVIOUS
<1>1. CASE UNCHANGED creditVars
  <2>1. UNCHANGED <<wallet, credits, enabled, job, refresh, doubt>>
    BY <1>1 DEF creditVars
  <2>2. CreditTypeOK' /\ ReservationsCover' /\ WalletPays'
    BY <2>1 DEF CreditInvariant, CreditTypeOK, ReservationsCover, WalletPays, Paid, InStage
  <2>3. /\ Readers' = Readers /\ InStage({"charged"})' = InStage({"charged"}) /\ Paid' = Paid
        /\ \A reader \in Readers : Overlapped(reader)' <=> Overlapped(reader)
    BY <2>1 DEF Readers, Overlapped, Paid, InStage
  <2>4. ReadersSee'
    BY <2>1, <2>3 DEF CreditInvariant, ReadersSee
  <2>5. BalanceAgrees' /\ ClearedIsFunded'
    BY <2>1 DEF CreditInvariant, BalanceAgrees, ClearedIsFunded, Unsettled, Sent, InStage
  <2> QED BY <2>2, <2>4, <2>5 DEF CreditInvariant
<1>2. ASSUME NEW j \in Job, CreditStep(j) PROVE CreditInvariant'
  BY <1>2, AssignKeeps, ReadKeeps, RefusedKeeps, RefreshKeeps, ReleaseKeeps, AcceptKeeps, RecordKeeps,
     UnsettledEndKeeps, SettleKeeps, RefundKeeps, LateRefundKeeps DEF CreditStep
<1>3. ASSUME NEW r \in Refresher, RefreshStep(r) PROVE CreditInvariant'
  BY <1>3, RefreshStepKeeps
<1>4. CASE AccountChanges
  BY <1>4, AccountKeeps
<1> QED BY <1>1, <1>2, <1>3, <1>4 DEF CreditNext

LEMMA CreditInvariantHolds == CreditSpec => []CreditInvariant
<1>1. CreditInit => CreditInvariant
  BY CreditInitially
<1>2. CreditInvariant /\ [CreditNext]_creditVars => CreditInvariant'
  BY CreditNextKeeps
<1> QED BY <1>1, <1>2, PTL DEF CreditSpec

(* Every charge of the provider reaches the copy of the balance once: for  *)
(* any number of tasks and of refreshes that overlap them, and any prices, *)
(* the copy is the wallet and what is yet to be settled, unless one of the *)
(* exceptions that BalanceAgrees names happened since the last refresh     *)
(* that no submission overlapped.                                          *)
THEOREM CopiesOfTheBalanceAgree == CreditSpec => []BalanceAgrees
<1>1. CreditInvariant => BalanceAgrees
  BY DEF CreditInvariant
<1> QED BY <1>1, CreditInvariantHolds, PTL

(* The tasks that apply_pre_submit_balance_refresh lets pass together can  *)
(* be paid from the wallet, although each compared a view of the wallet    *)
(* that may be old by now: what was charged since is still reserved.       *)
THEOREM ClearedTasksAreFunded == CreditSpec => []ClearedIsFunded
<1>1. CreditInvariant => ClearedIsFunded
  BY DEF CreditInvariant
<1> QED BY <1>1, CreditInvariantHolds, PTL
=============================================================================
