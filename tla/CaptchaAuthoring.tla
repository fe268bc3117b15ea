---------------------------- MODULE CaptchaAuthoring ----------------------------
(***************************************************************************)
(* What lies behind the captcha pool: administrators create templates,     *)
(* drafts of configurations and activate them, and a worker turns batches  *)
(* into images, asset rows and entries of the pool.  None of the handlers  *)
(* uses a transaction.  An image stands for the answer drawn for it.       *)
(***************************************************************************)
EXTENDS Naturals, FiniteSets, FiniteSetsExt

CONSTANTS
    Templates,     \* the template codes, which are unique
    Supported,     \* the templates whose generator is svg_text
    Configs,       \* the ids of configurations (bounds the model)
    Difficulties,
    Admins,        \* the administrators' requests in flight together
    Batches,       \* the jobs of the queue captcha-generation (bounds the model)
    Images,        \* the images that can be drawn (bounds the model)
    BatchSize,     \* the count of every batch
    BatchAttempts, \* attempts of a job: 3
    MaxTick,       \* the clock, in milliseconds, stops here (bounds the model)
    Nothing

ASSUME CaptchaAuthoringAssumption ==
    /\ Supported \subseteq Templates /\ IsFiniteSet(Configs)
    /\ BatchSize \in Nat \ {0} /\ BatchAttempts \in Nat \ {0} /\ MaxTick \in Nat
    /\ Nothing \notin Templates \cup Configs \cup Images

VARIABLES
    created,   \* the templates there are (their status is set once and only listed)
    config,    \* config[c]: template, version, status; or Nothing
    admin,     \* admin[p]: the step of a handler and what it has read
    alone,     \* (history) alone[t]: the last activation of t to archive had no other
               \* beside it, and has not died
    batch,     \* batch[b]: the job
    image,     \* image[a]: how far it is, its key and its batch; or Nothing
    picture,   \* the bucket: picture[k] is the image stored under the key
    shelf,     \* the lists of the pool: template, difficulty, image
    clock

authoring == <<created, config, admin, alone>>
generation == <<batch, image, picture, shelf, clock>>
authoringVars == <<authoring, generation>>

-----------------------------------------------------------------------------
Statuses == {"draft", "active", "archived"}
Versions == 1 .. Cardinality(Configs)
Config == [template : Templates, version : Versions, status : Statuses]
AtRest == [step |-> "rest", template |-> Nothing, config |-> Nothing, version |-> 0]
Admin == [step : {"rest", "insert", "activate"}, template : Templates \cup {Nothing},
          config : Configs \cup {Nothing}, version : 0 .. Cardinality(Configs) + 1]
ImageKeys == Configs \X (0 .. MaxTick) \X (0 .. BatchSize - 1)
NoJob == [state |-> "absent", config |-> Nothing, difficulty |-> Nothing, made |-> 0,
          stalled |-> FALSE, step |-> "draw", index |-> 0, image |-> Nothing, since |-> 0]
Job == [state : {"absent", "queued", "active", "done", "failed"},
        config : Configs \cup {Nothing}, difficulty : Difficulties \cup {Nothing},
        made : 0 .. BatchAttempts, stalled : BOOLEAN,
        step : {"draw", "put", "insert", "push"}, index : 0 .. BatchSize - 1,
        image : Images \cup {Nothing}, since : 0 .. MaxTick]
Image == [stage : {"drawn", "row", "pooled"}, key : ImageKeys, batch : Batches]

\* No row is the value of a missing one.
ASSUME NothingIsNoRow == Nothing \notin Config /\ Nothing \notin Image

AuthoringTypeOK ==
    /\ created \subseteq Templates
    /\ config \in [Configs -> Config \cup {Nothing}]
    /\ admin \in [Admins -> Admin]
    /\ alone \in [Templates -> BOOLEAN]
    /\ batch \in [Batches -> Job]
    /\ image \in [Images -> Image \cup {Nothing}]
    /\ picture \in [ImageKeys -> Images \cup {Nothing}]
    /\ shelf \subseteq Templates \X Difficulties \X Images
    /\ clock \in 0 .. MaxTick

-----------------------------------------------------------------------------
(* Templates and configurations. *)

ConfigsOf(t) == {c \in Configs : config[c] # Nothing /\ config[c].template = t}
ActiveConfigs(t) == {c \in ConfigsOf(t) : config[c].status = "active"}
Activating(t) == {p \in Admins : admin[p].step = "activate" /\ admin[p].template = t}

\* The unique index of the code keeps the first.
CreateTemplate(t) ==
    /\ t \notin created
    /\ created' = created \cup {t}
    /\ UNCHANGED <<config, admin, alone, generation>>

NextConfigVersion(t) == Max({config[c].version : c \in ConfigsOf(t)} \cup {0}) + 1

\* The template's generator is checked, the configuration clamped, the version read.
DraftRead(p, t) ==
    /\ admin[p].step = "rest"
    /\ t \in created \cap Supported
    /\ admin' = [admin EXCEPT ![p] = [step |-> "insert", template |-> t, config |-> Nothing,
                                      version |-> NextConfigVersion(t)]]
    /\ UNCHANGED <<created, config, alone, generation>>

\* Mutant of VersionFree: there is no unique index.
AnyVersion(t, v) == TRUE
\* UQ_captcha_config_template_version refuses a version that is there by now.
VersionFree(t, v) == \A c \in ConfigsOf(t) : config[c].version # v

DraftInsert(p, c) ==
    LET r == admin[p]
    IN /\ r.step = "insert"
       /\ config[c] = Nothing
       /\ config' = IF VersionFree(r.template, r.version)
                    THEN [config EXCEPT ![c] = [template |-> r.template,
                                                version |-> r.version, status |-> "draft"]]
                    ELSE config
       /\ admin' = [admin EXCEPT ![p] = AtRest]
       /\ UNCHANGED <<created, alone, generation>>

\* Mutant of ActivateArchive: only the template's newest version is archived.
ActivateArchiveNewest(p, c) ==
    LET t == config[c].template
    IN /\ admin[p].step = "rest"
       /\ config[c] # Nothing
       /\ config' = [d \in Configs |->
              IF d \in ActiveConfigs(t) /\ config[d].version = NextConfigVersion(t) - 1
              THEN [config[d] EXCEPT !.status = "archived"] ELSE config[d]]
       /\ admin' = [admin EXCEPT ![p] = [step |-> "activate", template |-> t, config |-> c,
                                         version |-> 0]]
       /\ alone' = [alone EXCEPT ![t] = Activating(t) = {}]
       /\ UNCHANGED <<created, generation>>

\* The first UPDATE of activateConfig: what is active is archived.
ActivateArchive(p, c) ==
    LET t == config[c].template
    IN /\ admin[p].step = "rest"
       /\ config[c] # Nothing
       /\ config' = [d \in Configs |-> IF d \in ActiveConfigs(t)
                                       THEN [config[d] EXCEPT !.status = "archived"]
                                       ELSE config[d]]
       /\ admin' = [admin EXCEPT ![p] = [step |-> "activate", template |-> t, config |-> c,
                                         version |-> 0]]
       /\ alone' = [alone EXCEPT ![t] = Activating(t) = {}]
       /\ UNCHANGED <<created, generation>>

\* The second UPDATE: this one becomes active, whatever it is by now.
ActivateSet(p) ==
    LET c == admin[p].config
    IN /\ admin[p].step = "activate"
       /\ config' = [config EXCEPT ![c].status = "active"]
       /\ admin' = [admin EXCEPT ![p] = AtRest]
       /\ UNCHANGED <<created, alone, generation>>

\* A query is rejected, or the process dies.
AdminDie(p) ==
    /\ admin[p].step # "rest"
    /\ admin' = [admin EXCEPT ![p] = AtRest]
    /\ alone' = IF admin[p].step = "activate"
                THEN [alone EXCEPT ![admin[p].template] = FALSE] ELSE alone
    /\ UNCHANGED <<created, config, generation>>

-----------------------------------------------------------------------------
(* Generation. *)

\* The configuration is active when the batch is queued; nobody looks again.
Enqueue(b, c, d) ==
    /\ batch[b].state = "absent"
    /\ config[c] # Nothing /\ config[c].status = "active"
    /\ batch' = [batch EXCEPT ![b] = [NoJob EXCEPT !.state = "queued", !.config = c,
                                                   !.difficulty = d]]
    /\ UNCHANGED <<authoring, image, picture, shelf, clock>>

\* A batch that is tried again waits some seconds, and begins with its first image.
BatchTake(b) ==
    /\ batch[b].state = "queued"
    /\ batch[b].made > 0 \/ batch[b].stalled => clock > batch[b].since
    /\ batch' = [batch EXCEPT ![b].state = "active"]
    /\ UNCHANGED <<authoring, image, picture, shelf, clock>>

\* Mutant of BatchDraw: the key has no index.
BatchDrawOneKey(b, a) ==
    /\ batch[b].state = "active" /\ batch[b].step = "draw"
    /\ image[a] = Nothing
    /\ image' = [image EXCEPT ![a] = [stage |-> "drawn", batch |-> b,
                                      key |-> <<batch[b].config, clock, 0>>]]
    /\ batch' = [batch EXCEPT ![b] = [@ EXCEPT !.step = "put", !.image = a]]
    /\ UNCHANGED <<authoring, picture, shelf, clock>>

\* generate, and the key made of the configuration, the clock and the index.
BatchDraw(b, a) ==
    /\ batch[b].state = "active" /\ batch[b].step = "draw"
    /\ image[a] = Nothing
    /\ image' = [image EXCEPT ![a] =
            [stage |-> "drawn", batch |-> b,
             key |-> <<batch[b].config, clock, batch[b].index>>]]
    /\ batch' = [batch EXCEPT ![b] = [@ EXCEPT !.step = "put", !.image = a]]
    /\ UNCHANGED <<authoring, picture, shelf, clock>>

\* putObject: what is there under the key is replaced.
PutPicture(b) ==
    /\ batch[b].state = "active" /\ batch[b].step = "put"
    /\ picture' = [picture EXCEPT ![image[batch[b].image].key] = batch[b].image]
    /\ batch' = [batch EXCEPT ![b].step = "insert"]
    /\ UNCHANGED <<authoring, image, shelf, clock>>

CreateAsset(b) ==
    /\ batch[b].state = "active" /\ batch[b].step = "insert"
    /\ image' = [image EXCEPT ![batch[b].image].stage = "row"]
    /\ batch' = [batch EXCEPT ![b].step = "push"]
    /\ UNCHANGED <<authoring, picture, shelf, clock>>

\* pushAsset, then the next image or the end of the job.
PushAsset(b) ==
    LET r == batch[b]
    IN /\ r.state = "active" /\ r.step = "push"
       /\ shelf' = shelf \cup {<<config[r.config].template, r.difficulty, r.image>>}
       /\ image' = [image EXCEPT ![r.image].stage = "pooled"]
       /\ batch' = [batch EXCEPT ![b] =
              IF r.index + 1 = BatchSize
              THEN [r EXCEPT !.state = "done", !.step = "draw", !.index = 0,
                             !.image = Nothing]
              ELSE [r EXCEPT !.step = "draw", !.index = r.index + 1, !.image = Nothing]]
       /\ UNCHANGED <<authoring, picture, clock>>

Again(r) == [r EXCEPT !.step = "draw", !.index = 0, !.image = Nothing]

\* A step fails: the whole batch is tried again, its images stay.
BatchFail(b) ==
    /\ batch[b].state = "active"
    /\ batch' = [batch EXCEPT ![b] =
            [Again(batch[b]) EXCEPT !.since = clock, !.made = batch[b].made + 1,
                !.state = IF batch[b].made + 1 < BatchAttempts THEN "queued" ELSE "failed"]]
    /\ UNCHANGED <<authoring, image, picture, shelf, clock>>

\* The worker dies: the queue takes a stalled job up once more, without an attempt.
BatchStall(b) ==
    /\ batch[b].state = "active"
    /\ batch' = [batch EXCEPT ![b] =
            [Again(batch[b]) EXCEPT !.since = clock, !.stalled = TRUE,
                !.state = IF batch[b].stalled THEN "failed" ELSE "queued"]]
    /\ UNCHANGED <<authoring, image, picture, shelf, clock>>

Tick ==
    /\ clock < MaxTick
    /\ clock' = clock + 1
    /\ UNCHANGED <<authoring, batch, image, picture, shelf>>

-----------------------------------------------------------------------------
AuthoringInit ==
    /\ created = {}
    /\ config = [c \in Configs |-> Nothing]
    /\ admin = [p \in Admins |-> AtRest]
    /\ alone = [t \in Templates |-> FALSE]
    /\ batch = [b \in Batches |-> NoJob]
    /\ image = [a \in Images |-> Nothing]
    /\ picture = [k \in ImageKeys |-> Nothing]
    /\ shelf = {}
    /\ clock = 0

Administer ==
    \/ \E t \in Templates : CreateTemplate(t)
    \/ \E p \in Admins :
          \/ \E t \in Templates : DraftRead(p, t)
          \/ \E c \in Configs : DraftInsert(p, c) \/ ActivateArchive(p, c)
          \/ ActivateSet(p) \/ AdminDie(p)

Produce ==
    \/ \E b \in Batches :
          \/ \E c \in Configs, d \in Difficulties : Enqueue(b, c, d)
          \/ \E a \in Images : BatchDraw(b, a)
          \/ BatchTake(b) \/ PutPicture(b) \/ CreateAsset(b) \/ PushAsset(b)
          \/ BatchFail(b) \/ BatchStall(b)
    \/ Tick

AuthoringNext == Administer \/ Produce

AuthoringSpec == AuthoringInit /\ [][AuthoringNext]_authoringVars

-----------------------------------------------------------------------------
(* What holds. *)

\* The configurations of a template are numbered 1, 2, ... without a gap or a double,
\* although two drafts may read the same maximum at the same time.
VersionsContiguous ==
    \A t \in Templates :
        {config[c].version : c \in ConfigsOf(t)} = 1 .. Cardinality(ConfigsOf(t))

\* At most one configuration of a template is active, and exactly one once the last
\* activation has ended, as long as that one met no other and did not die halfway: the
\* two UPDATEs of an activation are no transaction.  One that is alone also repairs
\* what others left.
OneActiveConfig ==
    \A t \in Templates : alone[t] =>
        /\ Cardinality(ActiveConfigs(t)) <= 1
        /\ Activating(t) = {} => ActiveConfigs(t) # {}

\* What the requests of administrators leave in captcha_config, at any moment (createConfig
\* and activateConfig).
ConfigsRight == VersionsContiguous /\ OneActiveConfig

\* The table implements a list for each template that only grows, with what is in force:
\* drafts that read the same maximum and activations in two UPDATEs come one after the other
\* (CreateCaptchaConfigDraftHandler and ActivateCaptchaConfigHandler; ConfigHistory).
InOrder(t) == [v \in 1 .. Cardinality(ConfigsOf(t)) |->
                  CHOOSE c \in ConfigsOf(t) : config[c].version = v]
History == INSTANCE ConfigHistory WITH
    history <- [t \in Templates |-> InOrder(t)],
    inForce <- {c \in Configs : config[c] # Nothing /\ config[c].status = "active"}
ImplementsHistory == History!HistorySpec

\* The image shown for an asset is the one its answer was drawn for, unless another batch
\* of the same configuration drew the image of the same index in the same millisecond:
\* then both have one key, and the later put replaces the earlier.
PictureShowsAnswer ==
    \A a \in Images :
        image[a] # Nothing /\ image[a].stage # "drawn" =>
            \/ picture[image[a].key] = a
            \/ \E o \in Images \ {a} :
                  /\ image[o] # Nothing /\ image[o].key = image[a].key
                  /\ image[o].batch # image[a].batch

\* A batch that is done has put at least its count of images into the list of its
\* template and difficulty, each with its row before its entry; the tries that failed
\* leave more, but at most the count for each try.
BatchesKept ==
    /\ \A e \in shelf : LET b == image[e[3]].batch
                        IN /\ image[e[3]].stage = "pooled"
                           /\ e[1] = config[batch[b].config].template
                           /\ e[2] = batch[b].difficulty
    /\ \A b \in Batches :
          LET made == {a \in Images : image[a] # Nothing /\ image[a].batch = b}
              pooled == {a \in made : image[a].stage = "pooled"}
          IN /\ batch[b].state = "done" => Cardinality(pooled) >= BatchSize
             /\ Cardinality(made) <= (BatchAttempts + 1) * BatchSize
             /\ pooled = {e[3] : e \in {x \in shelf : image[x[3]].batch = b}}

\* What the processor of captcha-generation leaves in the bucket, in the table and in the
\* list, whichever of its steps fail and however often a batch is tried again.
GenerationRight == AuthoringTypeOK /\ PictureShowsAnswer /\ BatchesKept
=============================================================================
