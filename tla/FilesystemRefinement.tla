------------------------ MODULE FilesystemRefinement ------------------------
(***************************************************************************)
(* FilesystemMetadata implements AtomicFilesystem: the refinement mapping  *)
(* forgets the revision, the private copies and the retries.               *)
(***************************************************************************)
EXTENDS FilesystemMetadata

Atomic == INSTANCE AtomicFilesystem

\* Linearizability: with loads, private copies, retries and swaps interleaved,
\* and with a store that may fail at any of them, each call still takes effect
\* in one atomic step, between its start and its return, on the snapshot current
\* at that moment, or not at all; a commit never undoes another client's commit,
\* and only MetadataUnavailable leaves open whether the call took effect
\* (namespace.rs:220-225, service.rs:125 and 198-201, metadata.rs:231-234).
ImplementsAtomicFilesystem == Atomic!Spec
=============================================================================
