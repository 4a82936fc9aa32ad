------------------------------- MODULE Media -------------------------------
(***************************************************************************)
(* The photos and videos of one company: media.service.ts.  Hands are the  *)
(* requests under way.  Every await is a step; a request that dies stops   *)
(* between two of them.  Captions and the display order are left out: the  *)
(* first photo in the order is any photo.                                  *)
(***************************************************************************)
EXTENDS Naturals, FiniteSets

CONSTANTS Hands, Items, None,
          Max          \* MAX_MEDIA_PER_COMPANY

VARIABLES
  images, videos,  \* the rows of VenueMedia
  covers,          \* the rows with is_cover
  files,           \* the objects in storage; a photo's key is its own
  hand,            \* what each request is at, and what it has read
  \* history
  crossed,         \* a cover changed between another request's read and its write
  dropped          \* the cover was given up, and no other was made

mediaVars == <<images, videos, covers, files, hand, crossed, dropped>>

Rows == images \cup videos
Free == [pc |-> "idle", item |-> None, was |-> FALSE, seen |-> {}]
Decided  == {"create", "set", "deleteFile", "deleteRow", "promote", "promoteWrite"}
Deleting == {"deleteFile", "deleteRow"}

\* Counting first and creating later lets requests pass the limit together, by at
\* most one row for every request that was past its count (the last conjunct).
TypeOK ==
  /\ images \cup videos \cup covers \cup files \subseteq Items
  /\ images \cap videos = {} /\ covers \subseteq images
  /\ hand \in [Hands -> [pc : {"idle", "put", "look", "video", "cover", "unset"} \cup Decided,
                         item : Items \cup {None}, was : BOOLEAN, seen : SUBSET Items]]
  /\ \A h \in Hands : hand[h].pc \notin {"idle", "promote"} => hand[h].item \in Items
  /\ {crossed, dropped} \subseteq BOOLEAN
  /\ Cardinality(Rows) < Max + Cardinality(Hands)

Init ==
  /\ images = {} /\ videos = {} /\ covers = {} /\ files = {}
  /\ hand = [h \in Hands |-> Free]
  /\ crossed = FALSE /\ dropped = FALSE

At(h, pc)        == hand[h].pc = pc
To(h, pc)        == hand' = [hand EXCEPT ![h].pc = pc]
Done(h)          == hand' = [hand EXCEPT ![h] = Free]
Begins(h, pc, m) == hand' = [hand EXCEPT ![h] = [Free EXCEPT !.pc = pc, !.item = m]]
\* A file that no row and no request names any more may give its name away.
Unused           == Items \ (Rows \cup {hand[h].item : h \in Hands})
NewName          == CHOOSE m \in Unused : TRUE      \* a new uuid: which one tells nothing apart
Others(h)        == \E g \in Hands \ {h} : hand[g].pc \in Decided
SameRows         == UNCHANGED <<images, videos, covers, crossed, dropped>>

\* The covers become new, by request h.
CoversBecome(h, new) ==
  /\ covers' = new
  /\ crossed' = (crossed \/ (new # covers /\ Others(h)))

-----------------------------------------------------------------------------
\* Mutant: one more than the limit (TypeOK).
RoomOneMore == Cardinality(Rows) <= Max

\* assertRoom.
Room == Cardinality(Rows) < Max

\* addImage: assertRoom, then the file, then the count of covers, then the row.
AddImage(h) ==
  /\ At(h, "idle") /\ Room /\ Unused # {}
  /\ Begins(h, "put", NewName) /\ files' = files \ {NewName}
  /\ SameRows

PutFile(h) ==
  /\ At(h, "put")
  /\ \/ files' = files \cup {hand[h].item} /\ To(h, "look")
     \/ UNCHANGED files /\ Done(h)                    \* storage fails
  /\ SameRows

LookForCover(h) ==
  /\ At(h, "look")
  /\ hand' = [hand EXCEPT ![h].pc = "create", ![h].was = covers # {}]
  /\ SameRows /\ UNCHANGED files

CreateImage(h) ==
  /\ At(h, "create")
  /\ images' = images \cup {hand[h].item}
  /\ CoversBecome(h, IF hand[h].was THEN covers ELSE covers \cup {hand[h].item})
  /\ dropped' = (dropped /\ hand[h].was)
  /\ Done(h)
  /\ UNCHANGED <<videos, files>>

AddVideo(h) ==
  \/ /\ At(h, "idle") /\ Room /\ Unused # {}
     /\ Begins(h, "video", NewName)
     /\ SameRows /\ UNCHANGED files
  \/ /\ At(h, "video")
     /\ videos' = videos \cup {hand[h].item} /\ Done(h)
     /\ UNCHANGED <<images, covers, files, crossed, dropped>>

\* updateMedia: getOwned, then a transaction.
UpdateMedia(h) ==
  /\ At(h, "idle")
  /\ \/ \E m \in images : Begins(h, "cover", m)
     \/ \E m \in Rows : Begins(h, "unset", m)
  /\ SameRows /\ UNCHANGED files

\* updateMany sees the covers of this moment; what other transactions commit
\* later it does not clear.
ClearCovers(h) ==
  /\ At(h, "cover")
  /\ hand' = [hand EXCEPT ![h].pc = "set", ![h].seen = covers]
  /\ SameRows /\ UNCHANGED files

\* Mutant: the old cover is not cleared (CoverIsKept).
SetCoverOnly(h) ==
  /\ At(h, "set")
  /\ IF hand[h].item \in images
     THEN /\ CoversBecome(h, covers \cup {hand[h].item})
          /\ dropped' = FALSE
     ELSE UNCHANGED <<covers, crossed, dropped>>
  /\ Done(h)
  /\ UNCHANGED <<images, videos, files>>

\* The update by id and the commit.  Of a photo that is gone nothing is written.
SetCover(h) ==
  /\ At(h, "set")
  /\ IF hand[h].item \in images
     THEN /\ covers' = (covers \ hand[h].seen) \cup {hand[h].item}
          /\ crossed' = (Others(h) \/ ~(covers \subseteq hand[h].seen \cup {hand[h].item}))
          /\ dropped' = FALSE
     ELSE UNCHANGED <<covers, crossed, dropped>>
  /\ Done(h)
  /\ UNCHANGED <<images, videos, files>>

UnsetCover(h) ==
  /\ At(h, "unset")
  /\ CoversBecome(h, covers \ {hand[h].item})
  /\ dropped' = (dropped \/ hand[h].item \in covers)
  /\ Done(h)
  /\ UNCHANGED <<images, videos, files>>

\* deleteMedia.  A photo's file goes first, and may fail to.
DeleteMedia(h) ==
  /\ At(h, "idle")
  /\ \E m \in Rows :
       hand' = [hand EXCEPT ![h] = [Free EXCEPT !.item = m, !.was = m \in covers,
                                    !.pc = IF m \in images THEN "deleteFile" ELSE "deleteRow"]]
  /\ SameRows /\ UNCHANGED files

DeleteFile(h) ==
  /\ At(h, "deleteFile")
  /\ files' \in {files, files \ {hand[h].item}}
  /\ To(h, "deleteRow")
  /\ SameRows

DeleteRow(h) ==
  /\ At(h, "deleteRow")
  /\ images' = images \ {hand[h].item}
  /\ videos' = videos \ {hand[h].item}
  /\ CoversBecome(h, covers \ {hand[h].item})
  /\ IF hand[h].item \in Rows /\ hand[h].was
     THEN hand' = [hand EXCEPT ![h] = [Free EXCEPT !.pc = "promote"]]
     ELSE Done(h)
  /\ UNCHANGED <<files, dropped>>

PromoteFind(h) ==
  /\ At(h, "promote")
  /\ IF images = {} THEN Done(h) ELSE \E m \in images : Begins(h, "promoteWrite", m)
  /\ SameRows /\ UNCHANGED files

PromoteWrite(h) ==
  /\ At(h, "promoteWrite")
  /\ IF hand[h].item \in images
     THEN CoversBecome(h, covers \cup {hand[h].item}) /\ dropped' = FALSE
     ELSE UNCHANGED <<covers, crossed>> /\ dropped' = TRUE
  /\ Done(h)
  /\ UNCHANGED <<images, videos, files>>

\* The API process dies, or the database or storage fails the request.
MediaDies(h) ==
  /\ ~At(h, "idle")
  /\ dropped' = (dropped \/ hand[h].pc \in {"promote", "promoteWrite"})
  /\ Done(h)
  /\ UNCHANGED <<images, videos, covers, files, crossed>>

Next ==
  \E h \in Hands :
    \/ AddImage(h) \/ PutFile(h) \/ LookForCover(h) \/ CreateImage(h)
    \/ AddVideo(h)
    \/ UpdateMedia(h) \/ ClearCovers(h) \/ SetCover(h) \/ UnsetCover(h)
    \/ DeleteMedia(h) \/ DeleteFile(h) \/ DeleteRow(h)
    \/ PromoteFind(h) \/ PromoteWrite(h)
    \/ MediaDies(h)

Spec == Init /\ [][Next]_mediaVars
-----------------------------------------------------------------------------
(***************************************************************************)
(* Properties.                                                             *)
(***************************************************************************)

\* Until the changes of two requests cross, at most one photo is the cover; the
\* next change of the cover that nobody crosses repairs a second one.
OneCover == ~crossed => Cardinality(covers) <= 1

\* Until changes cross, and unless the cover was given up (by hand, or by a delete
\* that died before it made another one), a company with photos has a cover.
SomeCover ==
  ~crossed /\ ~dropped /\ images # {}
  /\ (\A h \in Hands : hand[h].pc \notin {"promote", "promoteWrite"})
    => covers # {}

\* The cover of a venue's photos: one of them, and only one.
CoverIsKept == OneCover /\ SomeCover
=============================================================================
