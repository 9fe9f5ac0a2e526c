------------------------------ MODULE ImageRefs ------------------------------
(***************************************************************************)
(* Image references and the one rule that joins a runtime's reference to a *)
(* row of the images table (cmdb/domain/refs.py and the digest join of     *)
(* cmdb/domain/services/images.py).                                        *)
(*                                                                         *)
(* A reference is kept as the parts the code tells apart: the registry     *)
(* spelling (which canonical_ref drops), the repository, the tag and the   *)
(* digest.  None is the absent part, and Python's None.                    *)
(***************************************************************************)
EXTENDS Naturals

CONSTANTS Registries,   \* spellings of the registry prefix, "library/" included
          Repos,        \* repository names
          Tags,         \* tags, the literal "latest" among them
          Latest,       \* the tag canonical_ref supplies
          Digests,      \* content digests ("sha256:...")
          None          \* absent

ASSUME RefsAssumption ==
    /\ Latest \in Tags
    /\ None \notin Tags \cup Digests \cup [repo : Repos, tag : Tags]

\* What docker ps, kubectl or a scanner spells, and the key of an Image row.
RawRef == [registry : Registries, repo : Repos,
           tag : Tags \cup {None}, digest : Digests \cup {None}]
ImageRef == [repo : Repos, tag : Tags]

\* mutant: a missing tag stays missing
canonical_ref_untagged(raw) == [repo |-> raw.repo, tag |-> raw.tag]

\* Registry and digest are dropped, a missing tag becomes "latest".
canonical_ref(raw) ==
    [repo |-> raw.repo, tag |-> IF raw.tag = None THEN Latest ELSE raw.tag]

\* "repo@sha256:..." with no tag: its canonical "repo:latest" is fabricated.
is_tagless_digest_ref(raw) == raw.digest # None /\ raw.tag = None

\* The join key stored with a kubernetes workload at import.
canonical_or_none(raw) ==
    IF is_tagless_digest_ref(raw) THEN None ELSE canonical_ref(raw)

------------------------------------------------------------------------------
(* The join.  images maps each known ImageRef to a row with a rowid `id`   *)
(* (the order SQLite returns rows in) and the `digest` last reported.      *)

Carriers(images, d) == {r \in DOMAIN images : images[r].digest = d}

\* digest -> ref: a row with a real tag wins over a ":latest" one, then the
\* row met first.
digest_index(images, d) ==
    LET all  == Carriers(images, d)
        real == {r \in all : r.tag # Latest}
        pool == IF real # {} THEN real ELSE all
    IN  IF pool = {} THEN None
        ELSE CHOOSE r \in pool : \A q \in pool : images[r].id =< images[q].id

digest_hit(images, raw) ==
    IF raw.digest = None THEN None ELSE digest_index(images, raw.digest)

\* mutant: the spelling is tried first for every ref (the rule before the join
\* by digest), so a fabricated ":latest" captures a pinned container
resolve_spelling_first(raw, canonical, images) ==
    IF canonical # None /\ canonical \in DOMAIN images THEN canonical
    ELSE IF digest_hit(images, raw) # None THEN digest_hit(images, raw)
    ELSE canonical

resolve_image_ref(raw, canonical, images) ==
    LET hit == digest_hit(images, raw)
    IN  IF is_tagless_digest_ref(raw) /\ hit # None THEN hit
        ELSE IF canonical # None /\ canonical \in DOMAIN images THEN canonical
        ELSE IF hit # None THEN hit
        ELSE canonical
==============================================================================
