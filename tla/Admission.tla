----------------------------- MODULE Admission -----------------------------
(***************************************************************************)
(* What a typed request must satisfy to be accepted (TaskCreate and the    *)
(* input schemas), to be priced (quote_credit_cost) and to be turned into  *)
(* a request to the provider by a worker (resolve_assignment_media and the *)
(* builders).  These are written apart from each other and are consulted   *)
(* at different times, the last of them when media has been uploaded and a *)
(* slot and credits are reserved.                                          *)
(*                                                                         *)
(* Texts are left out: a prompt is one that every schema accepts.  Names   *)
(* of models are in lower case, as each of the three compares them.        *)
(***************************************************************************)
EXTENDS Integers

CONSTANT Requests \* the requests that may be posted

VARIABLE request

(* The optional fields of an input when they are left out; references are  *)
(* counted, a literal resolution of an image either matches its size or    *)
(* not.  A request has them besides task_type, model and mode.             *)
Nothing ==
    [resolution |-> "", aspect_ratio |-> "", duration |-> 0, audio |-> "",
     image_url |-> FALSE, end_image_url |-> FALSE,
     reference_images |-> 0, reference_image_urls |-> 0,
     reference_video_urls |-> 0, reference_audio_urls |-> 0, reference_video_id |-> FALSE,
     size |-> "", quality |-> "", width |-> FALSE, height |-> FALSE, quantity |-> 0]

\* The fields of both records; those of the first prevail.
Joined(f, g) == [x \in DOMAIN f \cup DOMAIN g |-> IF x \in DOMAIN f THEN f[x] ELSE g[x]]

NoRequest == Joined(Nothing, [task_type |-> "", model |-> "", mode |-> ""])

ASSUME RequestAssumption == \A r \in Requests : DOMAIN r = DOMAIN NoRequest

AdmissionInit == request \in Requests

Given(r) == {f \in DOMAIN Nothing : r[f] # Nothing[f]}

-----------------------------------------------------------------------------
(* The catalogue of models.                                                *)

Models ==
    [h3 |-> {"hailuo-03"},
     seedance |-> {"seedance-2.0-mini", "seedance-2.0", "seedance-2.0-fast"},
     seedance25 |-> {"bytedance/seedance-2.5"},
     kling |-> {"kling-video-o-3"},
     gemini |-> {"gemini-omni-flash"},
     veo |-> {"veo-3.1-generate-001", "veo-3.1-fast-generate-001", "veo-3.1-lite"},
     gpt |-> {"gpt-image-2"},
     nano |-> {"nano-banana-2", "nano-banana-pro"},
     seedaudio |-> {"seed-audio-1.0"}]

IsModel(m) == \E f \in DOMAIN Models : m \in Models[f]
FamilyOfModel(m) == CHOOSE f \in DOMAIN Models : m \in Models[f]

TaskTypeOf(f) ==
    CASE f \in {"gpt", "nano"} -> "IMAGE_GENERATION"
      [] f = "seedaudio" -> "AUDIO_GENERATION"
      [] OTHER -> "VIDEO_GENERATION"

Tiers ==
    [m \in Models.seedance \cup Models.seedance25 \cup Models.veo |->
       CASE m = "seedance-2.0" -> {"480P", "720P", "1080P", "4K"}
         [] m \in {"seedance-2.0-mini", "seedance-2.0-fast", "bytedance/seedance-2.5"} -> {"480P", "720P"}
         [] m = "veo-3.1-lite" -> {"720P", "1080P"}
         [] OTHER -> {"720P", "1080P", "4K"}]

VeoModes(m) ==
    {"text-to-video", "image-to-video"}
      \cup IF m = "veo-3.1-generate-001" THEN {"reference-to-video"} ELSE {}

Wide == {"21:9", "16:9", "4:3", "1:1", "3:4", "9:16"}
Screen == {"16:9", "9:16"}
Pictures == Wide \cup {"3:2", "5:4", "4:5", "2:3"}
Sizes == {"SMALL", "MEDIUM", "LARGE"}
Qualities == {"LOW", "MEDIUM", "HIGH"}

-----------------------------------------------------------------------------
(* The input schemas: which fields each admits, with which values.         *)

StartFrames == [image_url |-> {TRUE}, end_image_url |-> {TRUE}]

\* Mutant of References: one schema, of Seedance 2.5, serves every family.
ReferencesAlike(f) ==
    [reference_images |-> 1 .. 30, reference_image_urls |-> 1 .. 30,
     reference_video_urls |-> 1 .. 10, reference_audio_urls |-> 1 .. 10, reference_video_id |-> {TRUE}]

\* The fields of the ...ReferenceToVideoInput and ...ImageToImageInput.
References(f) ==
    CASE f = "h3" -> [aspect_ratio |-> Wide \cup {"adaptive"}, reference_image_urls |-> 1 .. 9,
                      reference_video_urls |-> 1 .. 3, reference_audio_urls |-> 1 .. 3]
      [] f = "seedance" -> [reference_image_urls |-> 1 .. 4, reference_video_urls |-> 1 .. 3,
                            reference_audio_urls |-> {1}]
      [] f = "seedance25" -> [reference_images |-> 1 .. 30, reference_image_urls |-> 1 .. 30,
                              reference_video_urls |-> 1 .. 10, reference_audio_urls |-> 1 .. 10]
      [] f = "kling" -> [reference_image_urls |-> 1 .. 7, reference_video_id |-> {TRUE}]
      [] f = "gemini" -> [reference_image_urls |-> 1 .. 5]
      [] f = "veo" -> [reference_image_urls |-> 1 .. 3]
      [] f \in {"gpt", "nano"} -> [reference_image_urls |-> 1 .. 6]

\* The fields of the ...InputBase.
Basics(f) ==
    CASE f = "h3" -> [duration |-> 5 .. 15, resolution |-> {"768P", "2K"}]
      [] f = "seedance" -> [duration |-> 4 .. 15, resolution |-> {"480P", "720P", "1080P", "4K"},
                            aspect_ratio |-> Wide]
      [] f = "seedance25" -> [duration |-> 4 .. 30, resolution |-> {"480P", "720P"},
                              aspect_ratio |-> Wide, audio |-> {"on", "off"}]
      [] f = "kling" -> [duration |-> 3 .. 15, resolution |-> {"720P", "1080P", "4K"},
                         aspect_ratio |-> Screen \cup {"1:1"}, audio |-> {"on", "off"}]
      [] f = "gemini" -> [duration |-> 3 .. 10, resolution |-> {"720P"}, aspect_ratio |-> Screen]
      [] f = "veo" -> [duration |-> {4, 6, 8}, resolution |-> {"720P", "1080P", "4K"},
                       aspect_ratio |-> Screen, audio |-> {"on", "off"}]
      [] f = "gpt" -> [quality |-> Qualities, aspect_ratio |-> Pictures, size |-> Sizes,
                       resolution |-> {"matching", "other"}, width |-> {TRUE}, height |-> {TRUE}]
      [] f = "nano" -> [aspect_ratio |-> Pictures, size |-> Sizes, resolution |-> {"matching", "other"}]
      [] f = "seedaudio" -> [quantity |-> 1 .. 4]

\* The ..._INPUT_MODELS of a family.
Modes(f) ==
    CASE f \in {"gpt", "nano"} -> {"text-to-image", "image-to-image"}
      [] f = "seedaudio" -> {"text-to-speech"}
      [] f = "gemini" -> {"text-to-video", "reference-to-video"}
      [] OTHER -> {"text-to-video", "image-to-video", "reference-to-video"}

Form(f, mode) ==
    CASE mode = "image-to-video" -> Joined(Basics(f), StartFrames)
      [] mode \in {"reference-to-video", "image-to-image"} -> Joined(References(f), Basics(f))
      [] f = "h3" /\ mode = "text-to-video" -> Joined([aspect_ratio |-> Wide], Basics(f))
      [] OTHER -> Basics(f)

Defaults(f, mode) ==
    CASE f = "h3" -> [duration |-> 5, resolution |-> "2K",
                      aspect_ratio |-> CASE mode = "text-to-video" -> "16:9"
                                         [] mode = "reference-to-video" -> "adaptive"
                                         [] OTHER -> ""]
      [] f = "seedance" -> [duration |-> 4, resolution |-> "480P", aspect_ratio |-> "16:9"]
      [] f = "seedance25" -> [duration |-> 8, resolution |-> "720P", aspect_ratio |-> "16:9", audio |-> "on"]
      [] f = "kling" -> [duration |-> 3, resolution |-> "1080P", aspect_ratio |-> "16:9", audio |-> "on"]
      [] f = "gemini" -> [duration |-> 5, resolution |-> "720P", aspect_ratio |-> "16:9"]
      [] f = "veo" -> [duration |-> 8, resolution |-> "720P", aspect_ratio |-> "16:9", audio |-> "on"]
      [] f = "gpt" -> [quality |-> "MEDIUM", aspect_ratio |-> "1:1", size |-> "SMALL", resolution |-> "matching"]
      [] f = "nano" -> [aspect_ratio |-> "1:1", size |-> "SMALL", resolution |-> "matching"]
      [] f = "seedaudio" -> [quantity |-> 1]

\* What is stored as the task's input: left-out fields have their defaults.
Parsed(r, mode) ==
    [field \in DOMAIN r |->
       IF field \in DOMAIN Defaults(FamilyOfModel(r.model), mode) /\ field \notin Given(r)
       THEN Defaults(FamilyOfModel(r.model), mode)[field] ELSE r[field]]

\* The validators of a whole input.
Consistent(f, mode, d) ==
    LET images == d.reference_images + d.reference_image_urls IN
    /\ f = "h3" /\ mode = "reference-to-video" =>
         /\ images + d.reference_video_urls + d.reference_audio_urls <= 12
         /\ d.reference_audio_urls > 0 => images + d.reference_video_urls > 0
    /\ f \in {"seedance", "seedance25"} /\ mode = "reference-to-video" =>
         /\ d.reference_images = 0 \/ d.reference_image_urls = 0
         /\ images + d.reference_video_urls > 0
    /\ f = "kling" /\ mode = "reference-to-video" =>
         /\ images > 0 \/ d.reference_video_id
         /\ d.reference_video_id => images <= 4 /\ d.duration <= 10
         /\ images > 0 => d.resolution # "4K"
    /\ f \in {"gemini", "veo"} /\ mode = "reference-to-video" => images > 0
    /\ mode = "image-to-image" => images > 0
    /\ mode = "image-to-video" => d.image_url
    /\ d.width <=> d.height
    /\ f \in {"gpt", "nano"} => d.width \/ d.resolution = "matching"

\* The two spellings of omni.
ModeOf(r) ==
    IF /\ r.mode \in {"omni", "omini"}
       /\ FamilyOfModel(r.model) \in {"seedance", "seedance25", "kling", "gemini"}
    THEN "reference-to-video" ELSE r.mode

\* validate_typed_generation_input
Admitted(r) ==
    LET f == FamilyOfModel(r.model)
        mode == ModeOf(r)
        d == Parsed(r, mode)
    IN
    /\ IsModel(r.model)
    /\ r.task_type = TaskTypeOf(f)
    /\ mode \in Modes(f)
    /\ Given(r) \subseteq DOMAIN Form(f, mode)
    /\ \A field \in Given(r) : r[field] \in Form(f, mode)[field]
    /\ Consistent(f, mode, d)
    /\ f \in {"seedance", "veo"} => d.resolution \in Tiers[r.model]
    /\ f = "veo" => mode \in VeoModes(r.model)

-----------------------------------------------------------------------------
(* Pricing.                                                                *)

\* quote_credit_cost finds a price in its tables.
IsPriced(m, d) ==
    CASE FamilyOfModel(m) = "gpt" -> d.quality \in Qualities /\ d.aspect_ratio \in Pictures /\ d.size \in Sizes
      [] FamilyOfModel(m) = "nano" -> d.aspect_ratio \in Pictures /\ d.size \in Sizes
      [] FamilyOfModel(m) = "seedaudio" -> d.quantity \in 1 .. 4
      [] FamilyOfModel(m) = "h3" -> d.duration \in 5 .. 15 /\ d.resolution = "2K"
      [] FamilyOfModel(m) = "kling" -> /\ d.duration \in 3 .. 15
                                /\ d.resolution \in {"720P", "1080P", "4K"} /\ d.audio \in {"on", "off"}
      [] FamilyOfModel(m) = "gemini" -> d.duration \in 3 .. 10 /\ d.resolution = "720P" /\ d.aspect_ratio \in Screen
      [] FamilyOfModel(m) = "veo" -> /\ d.duration \in {4, 6, 8} /\ d.aspect_ratio \in Screen
                              /\ d.resolution \in Tiers[m] /\ d.audio \in {"on", "off"}
      [] FamilyOfModel(m) = "seedance25" -> d.duration \in 4 .. 30 /\ d.resolution \in Tiers[m]
      [] FamilyOfModel(m) = "seedance" -> d.duration \in 4 .. 15 /\ d.resolution \in Tiers[m]

-----------------------------------------------------------------------------
(* The worker.                                                             *)

\* media_specs: how many assets of each role are resolved.
MediaSpecs(mode, d) ==
    LET reference == mode \in {"reference-to-video", "image-to-image"}
        count(n) == IF reference THEN n ELSE 0
    IN [start |-> mode = "image-to-video",
        images |-> count(IF d.reference_images > 0 THEN d.reference_images ELSE d.reference_image_urls),
        videos |-> count(d.reference_video_urls),
        audios |-> count(d.reference_audio_urls)]

\* input_schema_version of create_task, and those the worker takes as typed.
SchemaVersion(m) ==
    CASE m \in Models.seedance25 -> "seedance-2.5.v1"
      [] m \in Models.seedance -> "seedance.v1"
      [] m \in Models.gemini -> "gemini-omni-flash.v1"
      [] m \in Models.kling -> "kling-o3.v1"
      [] m \in Models.gpt -> "gpt-image-2.v1"
      [] m \in Models.nano -> "nano-image.v1"
      [] m \in Models.seedaudio -> "seed-audio-1.v1"
      [] m = "veo-3.1-fast-generate-001" -> "veo-3.1-fast.v1"
      [] m = "veo-3.1-lite" -> "veo-3.1-lite.v1"
      [] m = "veo-3.1-generate-001" -> "veo-3.1.v1"
      [] OTHER -> "h3.v1"

TypedVersions ==
    {"h3.v1", "seedance.v1", "gemini-omni-flash.v1", "seedance-2.5.v1", "kling-o3.v1",
     "gpt-image-2.v1", "nano-image.v1", "veo-3.1.v1", "veo-3.1-fast.v1", "veo-3.1-lite.v1",
     "seed-audio-1.v1"}

BuildsH3(mode, d, a) ==
    /\ d.resolution = "2K"
    /\ mode = "image-to-video" => a.start
    /\ mode = "text-to-video" => d.aspect_ratio \in Wide
    /\ mode = "reference-to-video" =>
         /\ d.aspect_ratio \in Wide \cup {"adaptive"}
         /\ a.images <= 5 /\ a.videos = 0
         /\ a.audios > 0 => a.images > 0

BuildsSeedance(m, mode, d, a) ==
    LET recent == m \in Models.seedance25 IN
    /\ d.resolution \in Tiers[m] /\ d.aspect_ratio \in Wide
    /\ d.duration \in 4 .. (IF recent THEN 30 ELSE 15)
    /\ mode = "image-to-video" => a.start
    /\ mode = "reference-to-video" =>
         /\ a.images <= (IF recent THEN 30 ELSE 4)
         /\ a.videos <= (IF recent THEN 10 ELSE 3)
         /\ a.audios <= (IF recent THEN 10 ELSE 1)
         /\ a.images > 0 \/ a.videos > 0

BuildsKling(mode, d, a) ==
    /\ d.resolution \in {"720P", "1080P", "4K"} /\ d.aspect_ratio \in Screen \cup {"1:1"}
    /\ mode = "image-to-video" => a.start
    /\ mode = "reference-to-video" =>
         /\ a.images > 0 \/ d.reference_video_id
         /\ ~(d.resolution = "4K" /\ a.images > 0)
         /\ a.images <= (IF d.reference_video_id THEN 4 ELSE 7)

BuildsGemini(mode, d, a) ==
    /\ mode \in {"text-to-video", "reference-to-video"}
    /\ d.resolution = "720P" /\ d.aspect_ratio \in Screen
    /\ mode = "reference-to-video" => a.images \in 1 .. 5

BuildsVeo(m, mode, d, a) ==
    /\ mode \in VeoModes(m)
    /\ d.resolution \in Tiers[m] /\ d.aspect_ratio \in Screen
    /\ mode = "image-to-video" => a.start
    /\ mode = "reference-to-video" => a.images \in 1 .. 3

BuildsImage(f, mode, d, a) ==
    /\ mode \in {"text-to-image", "image-to-image"}
    /\ f = "gpt" => d.quality \in Qualities /\ (d.width <=> d.height)
    /\ d.aspect_ratio \in Pictures /\ d.size \in Sizes
    /\ d.width \/ d.resolution = "matching"
    /\ IF mode = "text-to-image" THEN a.images = 0 /\ a.videos = 0
       ELSE a.images \in 1 .. 6 /\ a.videos = 0

\* The dispatch of handle_assignment; a ValueError fails the task for good.
IsBuilt(m, mode, d) ==
    LET a == MediaSpecs(mode, d) IN
    /\ SchemaVersion(m) \in TypedVersions
    /\ m = "hailuo-03" => a.videos = 0
    /\ CASE m \in Models.gpt -> BuildsImage("gpt", mode, d, a)
         [] m \in Models.nano -> BuildsImage("nano", mode, d, a)
         [] m \in Models.seedance \cup Models.seedance25 -> BuildsSeedance(m, mode, d, a)
         [] m \in Models.gemini -> BuildsGemini(mode, d, a)
         [] m \in Models.kling -> BuildsKling(mode, d, a)
         [] m \in Models.veo -> BuildsVeo(m, mode, d, a)
         [] m \in Models.seedaudio -> mode = "text-to-speech"
         [] OTHER -> BuildsH3(mode, d, a)

-----------------------------------------------------------------------------
(* Properties.                                                             *)

\* What the schemas of hailuo-03 admit and the provider is not asked for.
BeyondH3(d) ==
    \/ d.resolution = "768P"
    \/ d.reference_image_urls > 5
    \/ d.reference_video_urls > 0
    \/ d.reference_audio_urls > 0 /\ d.reference_image_urls = 0

(* Whoever is accepted is served: a typed request that passes the schemas  *)
(* has a price, by which an account is chosen and credits are reserved,    *)
(* and a worker can build its request once its media is resolved.  Of      *)
(* hailuo-03 exactly the tier, the number of images, the videos and the    *)
(* unaccompanied audio that its builder refuses are accepted in vain.      *)
AdmittedIsServed ==
    Admitted(request) =>
      LET m == request.model
          mode == ModeOf(request)
          d == Parsed(request, mode)
      IN IsPriced(m, d) /\ IsBuilt(m, mode, d) <=> ~(m = "hailuo-03" /\ BeyondH3(d))
=============================================================================
