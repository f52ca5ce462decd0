-------------------------- MODULE ImageServerProofs --------------------------
(***************************************************************************)
(* Proofs about ImageServer: any set of names, any length of an upload,    *)
(* any number of chunks.                                                   *)
(***************************************************************************)
EXTENDS ImageServer, TLAPS

-----------------------------------------------------------------------------
(***************************************************************************)
(* The inductive invariant                                                 *)
(***************************************************************************)

ImageTypeOK ==
    /\ store \in [Targets -> [Collections -> SUBSET Names]]
    /\ pc \in Collections \cup {"idle", "find", "regenerate", "reply"}
    /\ req \in Requests \cup {NoRequest}
    /\ index \in Nat
    /\ replies \in Seq(Nat)

\* In the loop over the images, one reply has been sent for each image before.
LoopState ==
    pc \in Collections \cup {"reply"} => req \in Upload /\ index < Len(req.images) /\ Len(replies) = index

LookupState ==
    pc \in {"find", "regenerate"} => req \in Download

\* What is stored of the image of the current turn: the full image comes first.
StoredSoFar ==
    /\ pc \in {"32x32", "64x64", "reply"} => Image \in store[req.target]["full"]
    /\ pc \in {"64x64", "reply"} => Image \in Broken \cup store[req.target]["32x32"]
    /\ pc = "reply" => Image \in Broken \cup store[req.target]["64x64"]

ImageInv ==
    /\ ImageTypeOK
    /\ LoopState
    /\ LookupState
    /\ StoredSoFar
    /\ ThumbnailsHaveImages
    /\ RepliedIsStored

-----------------------------------------------------------------------------
(***************************************************************************)
(* The store                                                               *)
(***************************************************************************)

Stores == [Targets -> [Collections -> SUBSET Names]]

LEMMA RequestFacts ==
  ASSUME NEW r \in Requests \cup {NoRequest}
  PROVE  /\ r \in Upload \/ r \in Download \/ r = NoRequest
         /\ r.op = "upload" <=> r \in Upload
         /\ r \in Upload \cup Download => r.target \in Targets
         /\ r \in Download => r.collection \in Collections /\ r.name \in Names
BY DEF Requests, NoRequest, Upload, Download

\* A name is added to one collection of one target.
Add(st, t, c, i) == [st EXCEPT ![t][c] = @ \cup {i}]

LEMMA Added ==
  ASSUME NEW st \in Stores, NEW t \in Targets, NEW c \in Collections, NEW i \in Names
  PROVE  /\ Add(st, t, c, i) \in Stores
         /\ \A u \in Targets, d \in Collections :
               /\ u = t /\ d = c => Add(st, t, c, i)[u][d] = st[u][d] \cup {i}
               /\ u # t \/ d # c => Add(st, t, c, i)[u][d] = st[u][d]
BY DEF Stores, Add

\* An image of an upload is a name.
LEMMA ImageIsName ==
  ASSUME NEW r \in Upload, NEW k \in 1..Len(r.images)
  PROVE  r.images[k] \in Names
<1>1. PICK n \in 0..MaxUpload : r.images \in [1..n -> Names]
  BY DEF Upload
<1>2. n \in Nat
  BY ImageAssumption
<1>3. Len(r.images) = n
  BY <1>1, <1>2
<1>4. QED
  BY <1>1, <1>3

LEMMA ImageCount ==
  ASSUME NEW r \in Upload
  PROVE  Len(r.images) \in Nat /\ (r.images # <<>> => 0 < Len(r.images))
<1>1. PICK n \in 0..MaxUpload : r.images \in [1..n -> Names]
  BY DEF Upload
<1>2. n \in Nat
  BY ImageAssumption
<1>3. Len(r.images) = n /\ r.images \in Seq(Names)
  BY <1>1, <1>2
<1>4. QED
  BY <1>2, <1>3

\* storeFile adds the image, or nothing when it makes no thumbnail of it.
LEMMA SavedFacts ==
  ASSUME ImageInv, NEW c \in Collections, pc = c
  PROVE  /\ Saved(c) \in Stores
         /\ \A u \in Targets, d \in Collections :
               /\ store[u][d] \subseteq Saved(c)[u][d]
               /\ Saved(c)[u][d] # store[u][d] =>
                     u = req.target /\ d = c /\ Saved(c)[u][d] = store[u][d] \cup {Image}
         /\ (c = "full" \/ Image \notin Broken) => Image \in Saved(c)[req.target][c]
<1>1. /\ req \in Upload /\ index < Len(req.images) /\ index \in Nat
      /\ store \in Stores
  BY DEF ImageInv, LoopState, ImageTypeOK, Stores
<1>2. index + 1 \in 1..Len(req.images)
  BY <1>1, ImageCount
<1>3. Image \in Names /\ req.target \in Targets
  <2>1. Image \in Names
    BY <1>1, <1>2, ImageIsName DEF Image
  <2>2. req.target \in Targets
    BY <1>1 DEF Upload
  <2>3. QED
    BY <2>1, <2>2
<1>4. PICK new : new = Add(store, req.target, c, Image)
  OBVIOUS
<1>5. /\ new \in Stores
      /\ \A u \in Targets, d \in Collections :
            /\ u = req.target /\ d = c => new[u][d] = store[u][d] \cup {Image}
            /\ u # req.target \/ d # c => new[u][d] = store[u][d]
  BY <1>1, <1>3, <1>4, Added
<1>6. Saved(c) = store \/ Saved(c) = new
  BY <1>4 DEF Saved, Add
<1>7. (c = "full" \/ Image \notin Broken) => Saved(c) = new
  BY <1>4 DEF Saved, Add
<1>8. QED
  <2>1. CASE Saved(c) = store
    BY <1>1, <1>3, <1>5, <1>7, <2>1
  <2>2. CASE Saved(c) = new
    BY <1>1, <1>3, <1>5, <1>7, <2>2
  <2>3. QED
    BY <1>6, <2>1, <2>2

\* A store that has grown: what was stored still is.
Grown(old, new) ==
    new \in Stores /\ \A u \in Targets, d \in Collections : old[u][d] \subseteq new[u][d]

\* What was replied for is stored in a store that has grown.
LEMMA RepliedStaysStored ==
  ASSUME ImageInv, Grown(store, store'), UNCHANGED <<req, replies>>
  PROVE  RepliedIsStored'
<1>1. SUFFICES ASSUME req.op = "upload", NEW k \in 1..Len(replies)
               PROVE  /\ req.images[k] \in store'[req.target]["full"]
                      /\ req.images[k] \notin Broken =>
                            \A c \in Sizes : req.images[k] \in store'[req.target][c]
  BY DEF RepliedIsStored
<1>2. req.target \in Targets
  BY <1>1, RequestFacts DEF ImageInv, ImageTypeOK
<1>3. /\ req.images[k] \in store[req.target]["full"]
      /\ req.images[k] \notin Broken => \A c \in Sizes : req.images[k] \in store[req.target][c]
  BY <1>1 DEF ImageInv, RepliedIsStored
<1>4. "full" \in Collections /\ Sizes \subseteq Collections
  BY DEF Collections
<1>5. QED
  BY <1>2, <1>3, <1>4 DEF Grown

-----------------------------------------------------------------------------
(***************************************************************************)
(* One lemma for each kind of step                                         *)
(***************************************************************************)

LEMMA FirstReplies == <<>> \in Seq(Nat) /\ <<404>> \in Seq(Nat) /\ Len(<<>>) = 0
  OBVIOUS

LEMMA InitImage == Init => ImageInv
BY DEF Init, ImageInv, ImageTypeOK, LoopState, LookupState, StoredSoFar, ThumbnailsHaveImages,
       RepliedIsStored, NoRequest, Collections, Sizes

\* A new request: nothing has been replied.
LEMMA ReceiveImage ==
  ASSUME ImageInv, NEW r \in Requests, Receive(r)
  PROVE  ImageInv'
<1>1. /\ store' = store /\ req' = r /\ index' = 0 /\ replies' = <<>>
      /\ pc' = IF r.op # "upload" THEN "find" ELSE IF r.images = <<>> THEN "idle" ELSE "full"
  BY DEF Receive
<1>2. pc' \in {"find", "idle", "full"}
  BY <1>1
<1>3. ImageTypeOK'
  BY <1>1, <1>2, FirstReplies DEF ImageInv, ImageTypeOK, Collections
<1>4. LoopState'
  <2>1. ASSUME pc' = "full"
        PROVE  r \in Upload /\ 0 < Len(r.images)
    BY <1>1, <2>1, RequestFacts, ImageCount
  <2>2. QED
    BY <1>1, <1>2, <2>1, FirstReplies DEF LoopState, Collections, Sizes
<1>5. LookupState'
  BY <1>1, RequestFacts DEF LookupState, Requests
<1>6. StoredSoFar'
  BY <1>2 DEF StoredSoFar
<1>7. ThumbnailsHaveImages'
  BY <1>1 DEF ImageInv, ThumbnailsHaveImages
<1>8. RepliedIsStored'
  BY <1>1 DEF RepliedIsStored
<1>9. QED
  BY <1>3, <1>4, <1>5, <1>6, <1>7, <1>8 DEF ImageInv

LEMMA RefuseImage ==
  ASSUME ImageInv, NEW code, Refuse(code)
  PROVE  ImageInv'
<1>1. /\ store' = store /\ req' = NoRequest /\ index' = 0 /\ pc' = "idle"
      /\ replies' = <<404>> \/ replies' = <<>>
  BY DEF Refuse
<1>2. ImageTypeOK'
  BY <1>1, FirstReplies DEF ImageInv, ImageTypeOK, Collections
<1>3. LoopState' /\ LookupState' /\ StoredSoFar'
  BY <1>1 DEF LoopState, LookupState, StoredSoFar, Collections, Sizes
<1>4. ThumbnailsHaveImages' /\ RepliedIsStored'
  BY <1>1 DEF ImageInv, ThumbnailsHaveImages, RepliedIsStored, NoRequest
<1>5. QED
  BY <1>2, <1>3, <1>4 DEF ImageInv

\* storeFile keeps the thumbnails behind the full image: it makes them of an
\* image whose full version is stored.
LEMMA SavedKeepsImages ==
  ASSUME ImageInv, NEW c \in Collections, pc = c, store' = store \/ store' = Saved(c)
  PROVE  Grown(store, store') /\ ThumbnailsHaveImages'
<1>1. Grown(store, store')
  BY SavedFacts DEF Grown, ImageInv, ImageTypeOK, Stores
<1>2. SUFFICES ASSUME NEW t \in Targets, NEW d \in Sizes, NEW i \in store'[t][d]
               PROVE  i \in store'[t]["full"]
  BY <1>1 DEF ThumbnailsHaveImages
<1>3. d \in Collections /\ "full" \in Collections /\ d # "full"
  BY DEF Collections, Sizes
<1>4. CASE i \in store[t][d]
  BY <1>1, <1>3, <1>4 DEF Grown, ImageInv, ThumbnailsHaveImages
<1>5. CASE i \notin store[t][d]
  <2>1. store' = Saved(c) /\ t = req.target /\ d = c /\ i = Image
    BY <1>3, <1>5, SavedFacts
  <2>2. Image \in store[req.target]["full"]
    BY <2>1, <1>3 DEF ImageInv, StoredSoFar, Sizes
  <2>3. QED
    BY <1>1, <1>3, <2>1, <2>2 DEF Grown
<1>6. QED
  BY <1>4, <1>5

LEMMA StoreFileImage ==
  ASSUME ImageInv, NEW c \in Collections, StoreFile(c)
  PROVE  ImageInv'
<1>1. pc = c /\ store' = Saved(c) /\ pc' = After(c) /\ UNCHANGED <<req, index, replies>>
  BY DEF StoreFile
<1>2. Image' = Image
  BY <1>1 DEF Image
<1>3. Grown(store, store') /\ ThumbnailsHaveImages'
  BY <1>1, SavedKeepsImages
<1>4. /\ c = "full" => pc' = "32x32"
      /\ c = "32x32" => pc' = "64x64"
      /\ c = "64x64" => pc' = "reply"
      /\ c \in {"full", "32x32", "64x64"}
  BY <1>1 DEF After, Collections, Sizes
<1>5. ImageTypeOK'
  BY <1>1, <1>3, <1>4 DEF ImageInv, ImageTypeOK, Grown, Stores, Collections, Sizes
<1>6. LoopState' /\ LookupState'
  BY <1>1, <1>4 DEF ImageInv, LoopState, LookupState
<1>7. StoredSoFar'
  <2>1. req.target \in Targets
    BY <1>1 DEF ImageInv, LoopState, Upload
  <2>2. (c = "full" \/ Image \notin Broken) => Image \in store'[req.target][c]
    BY <1>1, SavedFacts
  <2>3. /\ store[req.target]["full"] \subseteq store'[req.target]["full"]
        /\ store[req.target]["32x32"] \subseteq store'[req.target]["32x32"]
    BY <1>3, <2>1 DEF Grown, Collections, Sizes
  <2>4. /\ c \in {"32x32", "64x64"} => Image \in store[req.target]["full"]
        /\ Image \notin Broken /\ c = "64x64" => Image \in store[req.target]["32x32"]
    BY <1>1 DEF ImageInv, StoredSoFar
  <2>5. QED
    BY <1>1, <1>2, <1>4, <2>2, <2>3, <2>4 DEF StoredSoFar
<1>8. RepliedIsStored'
  BY <1>1, <1>3, RepliedStaysStored
<1>9. QED
  BY <1>3, <1>5, <1>6, <1>7, <1>8 DEF ImageInv

LEMMA UploadFailsImage ==
  ASSUME ImageInv, NEW c \in Collections, UploadFails(c)
  PROVE  ImageInv'
<1>1. /\ pc = c /\ pc' = "idle" /\ UNCHANGED <<req, index, replies>>
      /\ store' = store \/ store' = Saved(c)
  BY DEF UploadFails, End
<1>2. Grown(store, store') /\ ThumbnailsHaveImages'
  BY <1>1, SavedKeepsImages
<1>3. ImageTypeOK'
  BY <1>1, <1>2 DEF ImageInv, ImageTypeOK, Grown, Stores
<1>4. LoopState' /\ LookupState' /\ StoredSoFar'
  BY <1>1 DEF LoopState, LookupState, StoredSoFar, Collections, Sizes
<1>5. RepliedIsStored'
  BY <1>1, <1>2, RepliedStaysStored
<1>6. QED
  BY <1>2, <1>3, <1>4, <1>5 DEF ImageInv

\* The reply is for the image of this turn, which is stored with both thumbnails.
LEMMA ReplyToImageImage ==
  ASSUME ImageInv, ReplyToImage
  PROVE  ImageInv'
<1>1. /\ pc = "reply" /\ replies' = Append(replies, 200) /\ index' = index + 1
      /\ pc' = IF index' = Len(req.images) THEN "idle" ELSE "full"
      /\ store' = store /\ req' = req
  BY DEF ReplyToImage, Reply
<1>2. /\ req \in Upload /\ index < Len(req.images) /\ Len(replies) = index
      /\ index \in Nat /\ replies \in Seq(Nat) /\ Len(req.images) \in Nat
  BY <1>1, ImageCount DEF ImageInv, LoopState, ImageTypeOK
<1>3. replies' \in Seq(Nat) /\ Len(replies') = index + 1
  BY <1>1, <1>2
<1>4. pc' \in {"idle", "full"} /\ (pc' = "full" => index' < Len(req.images))
  BY <1>1, <1>2
<1>5. ImageTypeOK'
  <2>1. pc' \in Collections \cup {"idle", "find", "regenerate", "reply"}
    BY <1>4 DEF Collections
  <2>2. QED
    BY <1>1, <1>2, <1>3, <2>1 DEF ImageInv, ImageTypeOK
<1>6. LoopState' /\ LookupState' /\ StoredSoFar'
  BY <1>1, <1>2, <1>3, <1>4 DEF LoopState, LookupState, StoredSoFar, Collections, Sizes
<1>7. ThumbnailsHaveImages'
  BY <1>1 DEF ImageInv, ThumbnailsHaveImages
<1>8. RepliedIsStored'
  <2>1. SUFFICES ASSUME NEW k \in 1..(index + 1)
                 PROVE  /\ req.images[k] \in store[req.target]["full"]
                        /\ req.images[k] \notin Broken =>
                              \A c \in Sizes : req.images[k] \in store[req.target][c]
    BY <1>1, <1>3 DEF RepliedIsStored
  <2>2. CASE k \in 1..index
    <3>1. req.op = "upload"
      BY <1>2 DEF Upload
    <3>2. QED
      BY <1>2, <2>2, <3>1 DEF ImageInv, RepliedIsStored
  <2>3. CASE k = index + 1
    BY <1>1, <2>3 DEF ImageInv, StoredSoFar, Image, Sizes
  <2>4. QED
    BY <1>2, <2>2, <2>3
<1>9. QED
  BY <1>5, <1>6, <1>7, <1>8 DEF ImageInv

\* A download leaves the store alone, or adds the thumbnail of a stored image.
LEMMA DownloadImage ==
  ASSUME ImageInv, Find \/ Regenerate \/ DownloadFails
  PROVE  ImageInv'
<1>1. /\ pc \in {"find", "regenerate"} /\ req' = req /\ index' = index
      /\ pc' = "idle" \/ (pc = "find" /\ pc' = "regenerate")
  BY DEF Find, Regenerate, DownloadFails, End
<1>2. req \in Download /\ req.op # "upload" /\ req.target \in Targets
      /\ req.collection \in Collections /\ req.name \in Names
  BY <1>1 DEF ImageInv, LookupState, Download
<1>3. replies' \in Seq(Nat)
  <2>1. replies' = replies \/ replies' = Append(replies, 200) \/ replies' = Append(replies, 404)
    BY DEF Find, Regenerate, DownloadFails, Reply
  <2>2. replies \in Seq(Nat)
    BY DEF ImageInv, ImageTypeOK
  <2>3. QED
    BY <2>1, <2>2
<1>4. store' \in Stores /\ ThumbnailsHaveImages'
  <2>1. CASE store' = store
    BY <2>1 DEF ImageInv, ImageTypeOK, Stores, ThumbnailsHaveImages
  <2>2. CASE /\ req.name \in store[req.target]["full"]
             /\ store' = [store EXCEPT ![req.target][req.collection] = @ \cup {req.name}]
    <3>1. PICK t \in Targets, c \in Collections, i \in Names :
             /\ i \in store[t]["full"]
             /\ store' = Add(store, t, c, i)
      BY <1>2, <2>2 DEF Add
    <3>2. /\ store' \in Stores
          /\ \A u \in Targets, d \in Collections :
                /\ u = t /\ d = c => store'[u][d] = store[u][d] \cup {i}
                /\ u # t \/ d # c => store'[u][d] = store[u][d]
      <4>1. store \in Stores
        BY DEF ImageInv, ImageTypeOK, Stores
      <4>2. QED
        BY <3>1, <4>1, Added
    <3>3. "full" \in Collections /\ Sizes \subseteq Collections
      BY DEF Collections
    <3>4. ThumbnailsHaveImages'
      <4>1. SUFFICES ASSUME NEW u \in Targets, NEW d \in Sizes, NEW j \in store'[u][d]
                     PROVE  j \in store'[u]["full"]
        BY DEF ThumbnailsHaveImages
      <4>2. store[u]["full"] \subseteq store'[u]["full"]
        BY <3>2, <3>3
      <4>3. j \in store[u][d] \/ (u = t /\ j = i)
        BY <3>2, <3>3
      <4>4. QED
        BY <3>1, <4>2, <4>3 DEF ImageInv, ThumbnailsHaveImages
    <3>5. QED
      BY <3>2, <3>4
  <2>3. QED
    BY <2>1, <2>2 DEF Find, Regenerate, DownloadFails, Regenerates
<1>5. ImageTypeOK'
  BY <1>1, <1>3, <1>4 DEF ImageInv, ImageTypeOK, Stores
<1>6. LoopState' /\ LookupState' /\ StoredSoFar'
  BY <1>1, <1>2 DEF LoopState, LookupState, StoredSoFar, Collections, Sizes
<1>7. RepliedIsStored'
  BY <1>1, <1>2 DEF RepliedIsStored
<1>8. QED
  BY <1>4, <1>5, <1>6, <1>7 DEF ImageInv

LEMMA CrashImage ==
  ASSUME ImageInv, Crash \/ UNCHANGED vars
  PROVE  ImageInv'
<1>1. UNCHANGED <<store, req, index, replies>> /\ (pc' = "idle" \/ pc' = pc)
  BY DEF Crash, End, vars
<1>2. Image' = Image
  BY <1>1 DEF Image
<1>3. ImageTypeOK' /\ LoopState' /\ LookupState'
  BY <1>1 DEF ImageInv, ImageTypeOK, LoopState, LookupState, Collections, Sizes
<1>4. StoredSoFar' /\ ThumbnailsHaveImages' /\ RepliedIsStored'
  BY <1>1, <1>2 DEF ImageInv, StoredSoFar, ThumbnailsHaveImages, RepliedIsStored
<1>5. QED
  BY <1>3, <1>4 DEF ImageInv

LEMMA NextImage == ImageInv /\ [Next]_vars => ImageInv'
<1>1. SUFFICES ASSUME ImageInv, [Next]_vars
               PROVE  ImageInv'
  OBVIOUS
<1>2. ASSUME NEW r \in Requests, Receive(r)
      PROVE  ImageInv'
  BY <1>1, <1>2, ReceiveImage
<1>3. ASSUME NEW code \in {0, 404}, Refuse(code)
      PROVE  ImageInv'
  BY <1>1, <1>3, RefuseImage
<1>4. ASSUME NEW c \in Collections, StoreFile(c) \/ UploadFails(c)
      PROVE  ImageInv'
  BY <1>1, <1>4, StoreFileImage, UploadFailsImage
<1>5. CASE ReplyToImage
  BY <1>1, <1>5, ReplyToImageImage
<1>6. CASE Find \/ Regenerate \/ DownloadFails
  BY <1>1, <1>6, DownloadImage
<1>7. CASE Crash \/ UNCHANGED vars
  BY <1>1, <1>7, CrashImage
<1>8. QED
  BY <1>1, <1>2, <1>3, <1>4, <1>5, <1>6, <1>7 DEF Next

-----------------------------------------------------------------------------
(***************************************************************************)
(* The theorems                                                            *)
(***************************************************************************)

LEMMA ImageInvariant == Spec => []ImageInv
BY InitImage, NextImage, PTL DEF Spec

\* A stored thumbnail has its full image, wherever handleImageUpload is cut
\* short by a failure of GridFS or by the end of the process, and whatever
\* handleImageDownload makes again.
THEOREM ThumbnailsFollowImages == Spec => []ThumbnailsHaveImages
<1>1. ImageInv => ThumbnailsHaveImages
  BY DEF ImageInv
<1>2. QED
  BY <1>1, ImageInvariant, PTL

\* Every 200 of handleImageUpload is for the next image of the upload, which
\* is stored with both thumbnails unless epeg cannot open it.
THEOREM UploadedIsStored == Spec => []RepliedIsStored
<1>1. ImageInv => RepliedIsStored
  BY DEF ImageInv
<1>2. QED
  BY <1>1, ImageInvariant, PTL

=============================================================================
