----------------------------- MODULE ImageServer -----------------------------
(***************************************************************************)
(* image-server: upload.cpp, download.cpp and the callback of main.cpp     *)
(* over the GridFS stores "rcar-images-<target>" (full images) and         *)
(* "rcar-thumbnails-<target>" (collections "32x32" and "64x64").           *)
(*                                                                         *)
(* One process, one request at a time; every access to GridFS is a step,   *)
(* which may fail, and the process may die between two of them.  A client  *)
(* that gets no answer may send its upload again.                          *)
(***************************************************************************)
EXTENDS Naturals, Sequences, FiniteSets

CONSTANTS
    Names,      \* image names
    Broken,     \* the names whose data epeg cannot open as an image
    Chunks,     \* how many GridFS chunks an image takes
    MaxUpload   \* bound: images of one upload

ASSUME ImageAssumption ==
    /\ Broken \subseteq Names
    /\ Chunks \in Nat \ {0}
    /\ MaxUpload \in Nat

VARIABLES
    store,      \* the names stored in each collection of each target
    pc,         \* what the server is about to do
    req,        \* the request it handles, or handled last
    index,      \* how many images of an upload are finished
    replies     \* the status codes sent for the request, in order

vars == <<store, pc, req, index, replies>>

-----------------------------------------------------------------------------

Targets == {"user", "seller"}
Sizes == {"32x32", "64x64"}
Collections == Sizes \cup {"full"}

Upload == [op : {"upload"}, target : Targets,
           images : UNION {[1..n -> Names] : n \in 0..MaxUpload}]

\* "thumbnail" is a download with the parameter thumbnail.
Download == [op : {"download", "thumbnail"}, target : Targets,
             collection : Collections, name : Names]

\* A thumbnail has a size.
Requests == Upload \cup {r \in Download : r.op = "thumbnail" => r.collection # "full"}

NoRequest == [op |-> "none"]

\* The image of an upload the server is working on.
Image == req.images[index + 1]

Reply(code) == replies' = Append(replies, code)
End == pc' = "idle"

-----------------------------------------------------------------------------

Receive(r) ==
    /\ pc = "idle"
    /\ req' = r
    /\ index' = 0
    /\ replies' = <<>>
    /\ pc' = IF r.op # "upload" THEN "find" ELSE IF r.images = <<>> THEN "idle" ELSE "full"
    /\ UNCHANGED store

\* An upload that is no JSON object, has no valid target, or a method other
\* than GET and POST: the callback returns and sends nothing.  A download with
\* an invalid size, or with thumbnail and no size, is answered with 404.
Refuse(code) ==
    /\ pc = "idle"
    /\ req' = NoRequest
    /\ index' = 0
    /\ replies' = IF code = 404 THEN <<404>> ELSE <<>>
    /\ UNCHANGED <<store, pc>>

-----------------------------------------------------------------------------
(***************************************************************************)
(* handleImageUpload                                                       *)
(***************************************************************************)

\* Variant: the reply is sent before the thumbnails are made.
AfterReplyEarly(step) ==
    CASE step = "full" -> "reply"
      [] step = "32x32" -> "64x64"
      [] OTHER -> "reply"

\* The order in which the files of one image are stored.
After(step) ==
    CASE step = "full" -> "32x32"
      [] step = "32x32" -> "64x64"
      [] OTHER -> "reply"

\* Variant: the name of the store of full images lacks the target.
SavedInOneStore(c) ==
    IF c # "full" /\ Image \in Broken THEN store
    ELSE [store EXCEPT ![IF c = "full" THEN "user" ELSE req.target][c] = @ \cup {Image}]

Saved(c) == IF c # "full" /\ Image \in Broken THEN store
            ELSE [store EXCEPT ![req.target][c] = @ \cup {Image}]

\* storeFile; no thumbnail comes of data that cannot be opened.
StoreFile(c) ==
    /\ pc = c
    /\ store' = Saved(c)
    /\ pc' = After(c)
    /\ UNCHANGED <<req, index, replies>>

\* The reply is inside the loop: one for each image.
ReplyToImage ==
    /\ pc = "reply"
    /\ Reply(200)
    /\ index' = index + 1
    /\ pc' = IF index' = Len(req.images) THEN "idle" ELSE "full"
    /\ UNCHANGED <<store, req>>

\* storeFile throws, having stored the file or not: nothing more is sent.
UploadFails(c) ==
    /\ pc = c
    /\ store' = store \/ store' = Saved(c)
    /\ End
    /\ UNCHANGED <<req, index, replies>>

-----------------------------------------------------------------------------
(***************************************************************************)
(* handleImageDownload                                                     *)
(***************************************************************************)

Find ==
    /\ pc = "find"
    /\ IF req.name \in store[req.target][req.collection]
       THEN Reply(200) /\ End
       ELSE IF req.op = "thumbnail"
            THEN pc' = "regenerate" /\ UNCHANGED replies
            ELSE Reply(404) /\ End
    /\ UNCHANGED <<store, req, index>>

\* The chunks the loop of lines 92 to 98 asks for.  An image has the chunks
\* 0..Chunks - 1, and getChunk throws a DBException for any other.
ChunksRead == 0..Chunks

Regenerates ==
    /\ req.name \in store[req.target]["full"]
    /\ \A i \in ChunksRead : i < Chunks

\* The thumbnail is made from the full image, stored and sent.  When epeg
\* cannot open the image, nothing is sent.
Regenerate ==
    /\ pc = "regenerate"
    /\ IF Regenerates /\ req.name \notin Broken
       THEN /\ store' = [store EXCEPT ![req.target][req.collection] = @ \cup {req.name}]
            /\ Reply(200)
       ELSE /\ UNCHANGED store
            /\ IF Regenerates THEN UNCHANGED replies ELSE Reply(404)
    /\ End
    /\ UNCHANGED <<req, index>>

DownloadFails ==
    /\ pc \in {"find", "regenerate"}
    /\ Reply(404)
    /\ End
    /\ UNCHANGED <<store, req, index>>

\* The process dies and is started again.
Crash ==
    /\ pc # "idle"
    /\ End
    /\ UNCHANGED <<store, req, index, replies>>

-----------------------------------------------------------------------------

Init ==
    /\ store = [t \in Targets |-> [c \in Collections |-> {}]]
    /\ pc = "idle"
    /\ req = NoRequest
    /\ index = 0
    /\ replies = <<>>

Next ==
    \/ \E r \in Requests : Receive(r)
    \/ \E code \in {0, 404} : Refuse(code)
    \/ \E c \in Collections : StoreFile(c) \/ UploadFails(c)
    \/ ReplyToImage
    \/ Find
    \/ Regenerate
    \/ DownloadFails
    \/ Crash

Spec == Init /\ [][Next]_vars

-----------------------------------------------------------------------------
(***************************************************************************)
(* Properties                                                              *)
(***************************************************************************)

\* A stored thumbnail has its full image: a client that is shown a thumbnail
\* can fetch the image, whenever the upload was cut short.
ThumbnailsHaveImages ==
    \A t \in Targets, c \in Sizes : store[t][c] \subseteq store[t]["full"]

\* Each 200 an upload has got stands for the next of its images, and that
\* image is stored, with both thumbnails unless it cannot be decoded, whatever
\* fails later.
RepliedIsStored ==
    req.op = "upload" =>
        \A k \in 1..Len(replies) :
            /\ req.images[k] \in store[req.target]["full"]
            /\ req.images[k] \notin Broken =>
                  \A c \in Sizes : req.images[k] \in store[req.target][c]
=============================================================================
