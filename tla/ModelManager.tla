---------------------------- MODULE ModelManager ----------------------------
(* The in-memory models of the prediction service                            *)
(* (prediction-service/app/core/model.py, class ModelManager): a primary     *)
(* slot that answers /predict and a shadow slot evaluated beside it.  Each   *)
(* operator maps the manager before a method call to the manager after it;   *)
(* the methods are synchronous, so each runs without interruption on the     *)
(* event loop of the service; two of them may fail with half their work done. *)
(*                                                                           *)
(* A slot holds the version of the model object, the version its metadata    *)
(* names, and where the model came from: a versioned artifact (v.pkl), or    *)
(* the canonical model.pkl, whose name tells nothing.                        *)

CONSTANTS
    Version,   \* version stamps minted by training runs
    Seed,      \* the version of the artifacts shipped in models/
    None       \* no model, no metadata, no process

Known == Version \cup {Seed}

Source == {"versioned", "canonical"}

Slot == [model: Known \cup {None}, meta: Known \cup {None}, from: Source]

Manager == [primary: Slot, shadow: Slot]

EmptySlot == [model |-> None, meta |-> None, from |-> "versioned"]

\* A fresh process: ModelManager.__init__.
NoModels == [primary |-> EmptySlot, shadow |-> EmptySlot]

\* Mutant: the shadow is given the metadata already in memory.
LoadShadow_StaleMetadata(m, v, hasMeta) ==
    [m EXCEPT !.shadow = [model |-> v, meta |-> m.primary.meta, from |-> "versioned"]]

\* load_shadow(path): the model of v.pkl with the metadata sibling of that
\* very file, or empty metadata when the sibling is missing.
LoadShadow(m, v, hasMeta) ==
    [m EXCEPT !.shadow = [model |-> v,
                          meta  |-> IF hasMeta THEN v ELSE None,
                          from  |-> "versioned"]]

\* load_shadow when the metadata cannot be read: the error comes after the
\* model, its path and its features were assigned, and leaves them beside the
\* metadata of the shadow before.
LoadShadowUnread(m, v) == [m EXCEPT !.shadow.model = v, !.shadow.from = "versioned"]

\* shadow_version: the stem of the path, whatever the metadata says.
ShadowVersion(m) == m.shadow.model

HasShadow(m) == m.shadow.model # None

\* Mutant: the shadow slot is not cleared.
PromoteShadow_KeepsShadow(m) == [m EXCEPT !.primary = m.shadow]

\* promote_shadow(): the four fields of the shadow move together.
PromoteShadow(m) == [primary |-> m.shadow, shadow |-> EmptySlot]

RemoveShadow(m) == [m EXCEPT !.shadow = EmptySlot]

\* load(path), first half: the model object is read and published before the
\* metadata file is opened.
LoadModel(m, v) == [m EXCEPT !.primary.model = v, !.primary.from = "canonical"]

\* load(path), second half; when it fails the first half stands.
LoadMetadata(m, v) == [m EXCEPT !.primary.meta = v]

\* runtime_version: the metadata's word first, then the artifact's stem; the
\* stem of model.pkl says nothing and settings.model_version ("v1", here None)
\* is all that is left.
RuntimeVersion(slot) ==
    IF slot.meta # None THEN slot.meta
    ELSE IF slot.from = "versioned" THEN slot.model ELSE None

=============================================================================
