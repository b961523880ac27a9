----------------------------- MODULE BlobStore ------------------------------
(***************************************************************************)
(* What an object store promises (domain/stores.py, ObjectStore): a blob   *)
(* is put under its key whole, in one step, and get returns the last one   *)
(* put.  An S3-compatible service does this by itself (s3_object_store.py: *)
(* one put_object per put).                                                *)
(***************************************************************************)
CONSTANTS
  Keys, Blobs,
  NoBlob     \* get raises KeyError; exists is False

VARIABLE blob     \* what is stored under each key

BlobInit == blob = [k \in Keys |-> NoBlob]

put(k, b) == blob' = [blob EXCEPT ![k] = b]

BlobNext == \E k \in Keys, b \in Blobs : put(k, b)

BlobSpec == BlobInit /\ [][BlobNext]_blob
=============================================================================
