----------------------------- MODULE MCRequests -----------------------------
(* The instance of MCServices, and of what happens to one request: its     *)
(* admission, its creation, the media it names and their hosts; and of the *)
(* accounts that come and go.  These are further parts of which the        *)
(* initial state picks one.                                                *)
EXTENDS MCServices, Admission, MediaResolution, HostCircuit, TaskCreation, AccountRoster

CONSTANTS m1, m2

requestVars == <<request, mediaVars, circuitVars, creationVars, rosterVars>>

Ask(m) == [NoRequest EXCEPT !.model = m, !.task_type = TaskTypeOf(FamilyOfModel(m)), !.mode = "text-to-video"]
Catalogue == UNION {Models[f] : f \in DOMAIN Models}
Videos == UNION {Models[f] : f \in {"h3", "seedance", "seedance25", "kling", "gemini", "veo"}}

\* The least that a mode asks for.
Least(m, mode) ==
    [Ask(m) EXCEPT !.mode = mode, !.image_url = (mode = "image-to-video"),
                   !.reference_image_urls = IF mode \in {"text-to-video", "image-to-video", "text-to-image"} THEN 0 ELSE 1]

VideoModes == {"text-to-video", "image-to-video", "reference-to-video"}

\* Every model with every mode and type; then each field at and around its
\* limits, in every mode that has it, and the references in combination.
MCRequests ==
    {[Least(m, mode) EXCEPT !.task_type = t] :
        m \in Catalogue, t \in {"VIDEO_GENERATION", "IMAGE_GENERATION", "AUDIO_GENERATION"},
        mode \in VideoModes \cup {"omni", "omini", "text-to-image", "image-to-image"}}
    \cup {[Ask(m) EXCEPT !.mode = "text-to-speech", !.quantity = n] : m \in Catalogue, n \in {0, 1, 4, 5}}
    \cup {[Least(m, mode) EXCEPT !.resolution = x, !.duration = n, !.audio = a] :
        m \in Videos, mode \in VideoModes, x \in {"", "480P", "720P", "768P", "1080P", "2K", "4K"},
        n \in {0, 2, 3, 4, 5, 6, 10, 11, 15, 16, 30, 31}, a \in {"", "off"}}
    \cup {[Least(m, mode) EXCEPT !.aspect_ratio = x, !.end_image_url = e] :
        m \in Videos, mode \in VideoModes, x \in Pictures \cup {"", "adaptive"}, e \in BOOLEAN}
    \cup {[Least(m, "reference-to-video") EXCEPT !.reference_image_urls = i,
             !.reference_video_urls = v, !.reference_audio_urls = a] :
        m \in Videos, i \in {0, 3, 4, 5, 6, 7, 9, 10, 30, 31}, v \in {0, 1, 3, 4, 11}, a \in {0, 1, 2, 3, 11}}
    \cup {[Least(m, "reference-to-video") EXCEPT !.reference_image_urls = i, !.reference_images = k,
             !.reference_video_id = TRUE, !.duration = n, !.resolution = x] :
        m \in {"kling-video-o-3", "seedance-2.0"}, i \in {0, 4, 5, 7}, k \in {0, 1}, n \in {10, 11}, x \in {"720P", "4K"}}
    \cup {[Least("bytedance/seedance-2.5", "omni") EXCEPT !.reference_image_urls = i, !.reference_images = k] :
        i \in {0, 1}, k \in {0, 1, 30, 31}}
    \cup {[Least(m, mode) EXCEPT !.size = s, !.quality = q, !.resolution = x, !.width = w, !.height = h,
             !.reference_image_urls = i] :
        m \in {"gpt-image-2", "nano-banana-2"}, mode \in {"text-to-image", "image-to-image"}, s \in {"", "LARGE", "4K"},
        q \in {"", "LOW"}, x \in {"", "matching", "other"}, w \in BOOLEAN, h \in BOOLEAN, i \in {0, 6, 7}}

Speech == [kind |-> "AUDIO", url |-> "speech"]
Clip == [kind |-> "VIDEO", url |-> "clip"]
Teaser == [kind |-> "VIDEO", url |-> "teaser"]
Picture == [kind |-> "IMAGE", url |-> "picture"]
MCSeconds == [speech |-> 20, clip |-> 12, teaser |-> 8, picture |-> 0]

Case(first, second) == m1 :> first @@ m2 :> second
MediaOf(family, specs, tries) == [family |-> family, specs |-> specs, tries |-> tries]

\* What one task leaves in the cache is too long for the other; a task with
\* two attempts, of which the first may run on; a model without videos.
MCMediaCases ==
    LET NoTask == MediaOf("hailuo", {}, 0) IN
    {Case(MediaOf("seedance25", {Speech, Clip}, 1), MediaOf("seedance", {Speech}, 1)),
     Case(MediaOf("seedance25", {Clip, Picture}, 1), MediaOf("seedance", {Clip}, 1)),
     Case(MediaOf("seedance25", {Speech}, 1), MediaOf("hailuo", {Speech}, 1)),
     Case(NoTask, MediaOf("seedance", {Teaser}, 2)),
     Case(MediaOf("hailuo", {Clip}, 1), NoTask)}

RequestsInit ==
    /\ ServicesInit
    /\ IF part = "admission" THEN AdmissionInit ELSE request = NoRequest
    /\ IF part = "media" THEN MediaInit
       ELSE media = <<>> /\ asset = <<>> /\ resolver = <<>> /\ sent = {}
    /\ CircuitInit
    /\ CreationInit
    /\ RosterInit

MediaRuns == part = "media" /\ MediaNext
             /\ UNCHANGED <<allVars, request, circuitVars, creationVars, rosterVars>>
CircuitRuns == part = "circuit" /\ CircuitNext
               /\ UNCHANGED <<allVars, request, mediaVars, creationVars, rosterVars>>
CreationRuns == part = "creation" /\ CreationNext
                /\ UNCHANGED <<allVars, request, mediaVars, circuitVars, rosterVars>>
RosterRuns == part = "roster" /\ RosterNext
              /\ UNCHANGED <<allVars, request, mediaVars, circuitVars, creationVars>>

RequestsNext ==
    \/ ServicesNext /\ UNCHANGED requestVars
    \/ MediaRuns
    \/ CircuitRuns
    \/ CreationRuns
    \/ RosterRuns

RequestsSpec == RequestsInit /\ [][RequestsNext]_<<allVars, requestVars>>

\* In a part that rests nothing that is fair is enabled.
FairRequests ==
    /\ RequestsSpec
    /\ Fairness
    /\ ImportFairness
    /\ MailboxFairness
    /\ GateFairness

(* The rows of a request have their types and agree with each other.       *)
RequestsTypeOK ==
    /\ part = "media" => MediaTypeOK
    /\ CreationTypeOK
=============================================================================
