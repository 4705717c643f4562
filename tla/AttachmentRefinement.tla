------------------------ MODULE AttachmentRefinement ------------------------
(* Attachment implements Volume, for a CO that orders its calls. *)
EXTENDS Attachment

Promise == INSTANCE Volume WITH
  held <- [v \in Volumes |-> Holders(v)],
  told <- co,
  gone <- deleted

\* Whatever requests, tasks, migrations, failures and crashes lie in between,
\* a disk is plugged only into the VM that a publish asked for and only while no
\* other VM has it, stays while it is published, and every answer of
\* ControllerPublishVolume, ControllerUnpublishVolume and DeleteVolume is true when it
\* is given (controllerserver.go:176-239, 265-276, 480-504).
KeepsPromise == Promise!Spec
=============================================================================
