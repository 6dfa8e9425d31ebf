----------------------------- MODULE ProfileStore -----------------------------
(***************************************************************************)
(* The prompt profiles of the remark processor as engine/profiles.py keeps  *)
(* them: what a load makes of the content of the file, and what each        *)
(* operation writes back.  A profile is a directive text with the models    *)
(* that go with it, abbreviated to one value, and a protection flag.        *)
(***************************************************************************)
CONSTANTS Custom,  \* ids of profiles a user makes
          Text,    \* what a user can put into a profile
          Factory, \* what a system profile says as shipped
          Target   \* ids that requests name

\* Three of the seven shipped profiles: the undeletable one, one that may be
\* deleted and one that is protected.
System == {"default", "rcbc_v2", "rcbc_v4"}

ASSUME ProfileAssumption ==
  Custom \cap System = {} /\ Factory \notin Text /\ Target \subseteq System \cup Custom

SystemProfiles == [id \in System |-> [text |-> Factory, is_default |-> id = "rcbc_v4"]]

FactoryData(active) == [active |-> active, profiles |-> SystemProfiles]

\* Both functions, the first where both are defined.
Over(f, g) == [x \in DOMAIN f \cup DOMAIN g |-> IF x \in DOMAIN f THEN f[x] ELSE g[x]]

\* load_profiles_data of a readable file: missing system profiles are added, and
\* an active id that names no profile gives way to rcbc_v4.
Completed(data) ==
  LET profiles == Over(data.profiles, SystemProfiles)
  IN [active |-> IF data.active \in DOMAIN profiles THEN data.active ELSE "rcbc_v4",
      profiles |-> profiles]

Known(data, id) == id \in DOMAIN data.profiles

\* What loaded data has under its active id.
get_active_profile(data) ==
  IF Known(data, data.active) THEN [id |-> data.active, text |-> data.profiles[data.active].text]
  ELSE [id |-> "default", text |-> Factory]

Without(profiles, id) == [p \in DOMAIN profiles \ {id} |-> profiles[p]]

\* delete_profile: the default and protected profiles stay.
Deletable(data, id) ==
  id # "default" /\ Known(data, id) /\ ~data.profiles[id].is_default

\* Mutant of Deleted: the profile is deactivated and stays.
DeletedDeactivates(data, id) ==
  [data EXCEPT !.active = IF data.active = id THEN "default" ELSE @]

Deleted(data, id) ==
  [active |-> IF data.active = id THEN "default" ELSE data.active,
   profiles |-> Without(data.profiles, id)]

\* save_profile: the record is replaced or added; it becomes active when asked,
\* when it is new (no id was sent), or when it was active already.
Saved(data, req) ==
  [active |-> IF req.set_active THEN req.id ELSE data.active,
   profiles |-> Over([id \in {req.id} |->
                        [text |-> req.text, is_default |-> req.id = "default" \/ req.is_default]],
                     data.profiles)]

\* What the file may be asked to change.
Request ==
  [kind: {"save"}, id: Target, text: Text, set_active: BOOLEAN, is_default: BOOLEAN]
    \cup [kind: {"activate", "delete"}, id: Target]
    \cup [kind: {"reset", "read"}]

\* A request the operation refuses with ValueError writes nothing.
Accepted(data, req) ==
  CASE req.kind = "activate" -> Known(data, req.id)
    [] req.kind = "delete" -> Deletable(data, req.id)
    [] OTHER -> req.kind # "read"

Changed(data, req) ==
  CASE req.kind = "save" -> Saved(data, req)
    [] req.kind = "activate" -> [data EXCEPT !.active = req.id]
    [] req.kind = "delete" -> Deleted(data, req.id)
    [] OTHER -> FactoryData("default")
===============================================================================
