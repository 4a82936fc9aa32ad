--------------------------- MODULE Settings_proofs ---------------------------
(***************************************************************************)
(* Theorems of what a venue keeps in its settings, for any number of       *)
(* requests, files, ids, attempts and gateways: every invariant of the     *)
(* four components of MCSettings, each with its own inductive invariant.   *)
(* A behaviour of MCSettings is, for every component, one of that          *)
(* component or a stutter; the last theorems say so.                       *)
(***************************************************************************)
EXTENDS MCSettings, FiniteSetTheorems, TLAPS

-----------------------------------------------------------------------------
(* Photos: the rows of a venue, its cover and its limit (media.service.ts). *)

(* The steps of a request that has a file's name and no row yet; every step; what a request looks like. *)
Adding == {"put", "look", "create", "video"}
MediaSteps == {"idle", "put", "look", "video", "cover", "unset"} \cup Photos!Decided
HandTypes == [pc : MediaSteps, item : Items \cup {None}, was : BOOLEAN, seen : SUBSET Items]

(* A new file has a name that no row and no other request has. *)
NamesApart ==
  \A h \in Hands : hand[h].pc \in Adding =>
    /\ hand[h].item \in Items \ (images \cup videos)
    /\ \A g \in Hands \ {h} : hand[g].item # hand[h].item

(* Types: the rows are apart, a cover is an image, and a request names a file. *)
PhotoTypes ==
  /\ images \cup videos \cup covers \cup files \subseteq Items
  /\ images \cap videos = {} /\ covers \subseteq images
  /\ hand \in [Hands -> HandTypes]
  /\ \A h \in Hands : hand[h].pc \notin {"idle", "promote"} => hand[h].item \in Items
  /\ {crossed, dropped} \subseteq BOOLEAN

(* Request h goes on to step pc, for item m. *)
Becomes(h, pc, m) ==
  /\ hand' \in [Hands -> HandTypes]
  /\ hand'[h].pc = pc /\ hand'[h].item = m
  /\ \A g \in Hands \ {h} : hand'[g] = hand[g]

(* A request may be replaced by one of the right type. *)
LEMMA HandReplaced ==
  ASSUME PhotoTypes, NEW h \in Hands, NEW d \in HandTypes, hand' = [hand EXCEPT ![h] = d]
  PROVE  Becomes(h, d.pc, d.item) /\ hand'[h].was = d.was
BY DEF PhotoTypes, Becomes

(* The steps of a request that keep, set or drop the file's name. *)
LEMMA HandGoes ==
  ASSUME PhotoTypes, NEW h \in Hands
  PROVE  /\ \A pc \in MediaSteps, m \in Items : Photos!Begins(h, pc, m) => Becomes(h, pc, m)
         /\ \A pc \in MediaSteps : Photos!To(h, pc) => Becomes(h, pc, hand[h].item) /\ hand'[h].was = hand[h].was
         /\ Photos!Done(h) => Becomes(h, "idle", None)
<1>1. ASSUME NEW pc \in MediaSteps, NEW m \in Items, Photos!Begins(h, pc, m) PROVE Becomes(h, pc, m)
  <2> DEFINE d == [Photos!Free EXCEPT !.pc = pc, !.item = m]
  <2>1. d \in HandTypes /\ d.pc = pc /\ d.item = m
    BY DEF HandTypes, Photos!Free
  <2>2. hand' = [hand EXCEPT ![h] = d] BY <1>1 DEF Photos!Begins
  <2> HIDE DEF d
  <2> QED BY <2>1, <2>2, HandReplaced
<1>2. ASSUME NEW pc \in MediaSteps, Photos!To(h, pc) PROVE Becomes(h, pc, hand[h].item) /\ hand'[h].was = hand[h].was
  <2> DEFINE d == [hand[h] EXCEPT !.pc = pc]
  <2>1. d \in HandTypes /\ d.pc = pc /\ d.item = hand[h].item /\ d.was = hand[h].was
    BY DEF HandTypes, PhotoTypes
  <2>2. hand' = [hand EXCEPT ![h] = d] BY <1>2 DEF Photos!To, PhotoTypes
  <2> HIDE DEF d
  <2> QED BY <2>1, <2>2, HandReplaced
<1>3. ASSUME Photos!Done(h) PROVE Becomes(h, "idle", None)
  <2>1. Photos!Free \in HandTypes BY DEF HandTypes, MediaSteps, Photos!Free
  <2> QED BY <1>3, <2>1, HandReplaced DEF Photos!Done, Photos!Free
<1> QED BY <1>1, <1>2, <1>3

(* The steps of a request that remember something of the covers. *)
LEMMA HandReads ==
  ASSUME PhotoTypes, NEW h \in Hands
  PROVE  /\ Photos!LookForCover(h) => Becomes(h, "create", hand[h].item) /\ (hand'[h].was <=> covers # {})
         /\ Photos!ClearCovers(h) => Becomes(h, "set", hand[h].item)
         /\ Photos!DeleteMedia(h) => \E m \in images \cup videos, pc \in Photos!Deleting :
                                       Becomes(h, pc, m) /\ (hand'[h].was <=> m \in covers)
         /\ hand' = [hand EXCEPT ![h] = [Photos!Free EXCEPT !.pc = "promote"]] => Becomes(h, "promote", None)
<1>1. ASSUME Photos!LookForCover(h) PROVE Becomes(h, "create", hand[h].item) /\ (hand'[h].was <=> covers # {})
  <2> DEFINE d == [hand[h] EXCEPT !.pc = "create", !.was = (covers # {})]
  <2>1. d \in HandTypes /\ d.pc = "create" /\ d.item = hand[h].item /\ (d.was <=> covers # {})
    BY DEF HandTypes, PhotoTypes, MediaSteps, Photos!Decided
  <2>2. hand' = [hand EXCEPT ![h] = d] BY <1>1 DEF Photos!LookForCover, PhotoTypes
  <2> HIDE DEF d
  <2> QED BY <2>1, <2>2, HandReplaced
<1>2. ASSUME Photos!ClearCovers(h) PROVE Becomes(h, "set", hand[h].item)
  <2> DEFINE d == [hand[h] EXCEPT !.pc = "set", !.seen = covers]
  <2>1. d \in HandTypes /\ d.pc = "set" /\ d.item = hand[h].item
    BY DEF HandTypes, PhotoTypes, MediaSteps, Photos!Decided
  <2>2. hand' = [hand EXCEPT ![h] = d] BY <1>2 DEF Photos!ClearCovers, PhotoTypes
  <2> HIDE DEF d
  <2> QED BY <2>1, <2>2, HandReplaced
<1>3. ASSUME Photos!DeleteMedia(h)
      PROVE  \E m \in images \cup videos, pc \in Photos!Deleting : Becomes(h, pc, m) /\ (hand'[h].was <=> m \in covers)
  <2> DEFINE d(m, pc, was) == [Photos!Free EXCEPT !.item = m, !.was = was, !.pc = pc]
  <2>1. PICK m \in images \cup videos :
          hand' = [hand EXCEPT ![h] = d(m, IF m \in images THEN "deleteFile" ELSE "deleteRow", m \in covers)]
    BY <1>3 DEF Photos!DeleteMedia, Photos!Rows
  <2> DEFINE pc == IF m \in images THEN "deleteFile" ELSE "deleteRow"
             was == m \in covers
  <2>2. hand' = [hand EXCEPT ![h] = d(m, pc, was)] /\ pc \in Photos!Deleting /\ was \in BOOLEAN /\ m \in Items
    BY <2>1 DEF Photos!Deleting, PhotoTypes
  <2> HIDE DEF pc, was
  <2>3. d(m, pc, was) \in HandTypes /\ d(m, pc, was).pc = pc /\ d(m, pc, was).item = m /\ d(m, pc, was).was = was
    BY <2>2 DEF HandTypes, MediaSteps, Photos!Decided, Photos!Deleting, Photos!Free
  <2> HIDE DEF d
  <2>4. Becomes(h, pc, m) /\ hand'[h].was = was
    BY <2>2, <2>3, HandReplaced
  <2> QED BY <2>2, <2>4 DEF was
<1>4. ASSUME hand' = [hand EXCEPT ![h] = [Photos!Free EXCEPT !.pc = "promote"]] PROVE Becomes(h, "promote", None)
  <2> DEFINE d == [Photos!Free EXCEPT !.pc = "promote"]
  <2>1. d \in HandTypes /\ d.pc = "promote" /\ d.item = None
    BY DEF HandTypes, Photos!Free, MediaSteps, Photos!Decided
  <2>2. hand' = [hand EXCEPT ![h] = d] BY <1>4
  <2> HIDE DEF d
  <2> QED BY <2>1, <2>2, HandReplaced
<1> QED BY <1>1, <1>2, <1>3, <1>4

(* Types, and that a new file's name is nobody else's, are kept by every step. *)
LEMMA PhotoTypesKept ==
  ASSUME PhotoTypes, NamesApart, [Photos!Next]_(Photos!mediaVars)
  PROVE  PhotoTypes' /\ NamesApart'
<1> USE DEF Photos!At, Photos!SameRows, Photos!Rows, Adding
<1>1. Photos!Unused # {} => Photos!NewName \in Photos!Unused
  BY DEF Photos!NewName
<1>2. Photos!Unused \subseteq Items \ (images \cup videos) /\ \A n \in Photos!Unused : \A g \in Hands : hand[g].item # n
  BY DEF Photos!Unused
<1>m. {"idle", "put", "look", "video", "cover", "unset", "create", "set", "deleteFile", "deleteRow", "promote",
       "promoteWrite"} = MediaSteps
  BY DEF MediaSteps, Photos!Decided
<1>3. ASSUME NEW h \in Hands, NEW n \in Photos!Unused, NEW pc \in {"put", "video"}, Becomes(h, pc, n),
             UNCHANGED <<images, videos, covers, crossed, dropped>>, files' \in {files, files \ {n}}
      PROVE PhotoTypes' /\ NamesApart'
  BY <1>2, <1>3 DEF PhotoTypes, NamesApart, Becomes
<1>4. ASSUME NEW h \in Hands, NEW pc \in {"look", "create"}, hand[h].pc \in Adding, Becomes(h, pc, hand[h].item),
             UNCHANGED <<images, videos, covers, crossed, dropped>>, files' \in {files, files \cup {hand[h].item}}
      PROVE PhotoTypes' /\ NamesApart'
  BY <1>4 DEF PhotoTypes, NamesApart, Becomes
<1>5. ASSUME NEW h \in Hands, NEW pc \in MediaSteps, NEW m \in Items \cup {None}, Becomes(h, pc, m), pc \notin Adding,
             \/ m \in images \cup videos
             \/ m = None /\ pc \in {"idle", "promote"}
             \/ m = hand[h].item /\ hand[h].pc \notin Adding,
             pc \in {"idle", "promote"} \/ m \in Items,
             images' \subseteq images, videos' \subseteq videos, covers' \subseteq images', files' \subseteq files,
             crossed' \in BOOLEAN, dropped' \in BOOLEAN
      PROVE PhotoTypes' /\ NamesApart'
  <2>1. PhotoTypes' BY MediaAssumption, <1>5 DEF PhotoTypes, Becomes
  <2>2. NamesApart' BY MediaAssumption, <1>5 DEF PhotoTypes, NamesApart, Becomes
  <2> QED BY <2>1, <2>2
<1>a. ASSUME NEW h \in Hands, hand[h].pc \in Adding, Becomes(h, "idle", None), UNCHANGED files,
             \/ images' = images \cup {hand[h].item} /\ UNCHANGED videos
             \/ videos' = videos \cup {hand[h].item} /\ UNCHANGED images,
             covers' \subseteq images', crossed' \in BOOLEAN, dropped' \in BOOLEAN
      PROVE PhotoTypes' /\ NamesApart'
  <2>1. PhotoTypes' BY MediaAssumption, <1>a, <1>m DEF PhotoTypes, NamesApart, Becomes
  <2>2. NamesApart' BY MediaAssumption, <1>a DEF PhotoTypes, NamesApart, Becomes
  <2> QED BY <2>1, <2>2
<1>6. ASSUME NEW h \in Hands, Photos!AddImage(h) \/ Photos!AddVideo(h) PROVE PhotoTypes' /\ NamesApart'
  <2>1. CASE hand[h].pc = "idle"
    <3>1. PICK pc \in {"put", "video"} : Becomes(h, pc, Photos!NewName)
      BY <1>1, <1>2, <1>6, <1>m, <2>1, HandGoes DEF Photos!AddImage, Photos!AddVideo
    <3> QED BY <1>1, <1>3, <1>6, <2>1, <3>1 DEF Photos!AddImage, Photos!AddVideo
  <2>2. CASE hand[h].pc # "idle"
    <3>1. /\ hand[h].pc = "video" /\ Becomes(h, "idle", None) /\ videos' = videos \cup {hand[h].item}
          /\ UNCHANGED <<images, covers, files, crossed, dropped>>
      BY <1>6, <2>2, HandGoes DEF Photos!AddImage, Photos!AddVideo
    <3> QED BY <1>a, <3>1 DEF PhotoTypes
  <2> QED BY <2>1, <2>2
<1>7. ASSUME NEW h \in Hands, Photos!PutFile(h) PROVE PhotoTypes' /\ NamesApart'
  <2>1. Becomes(h, "look", hand[h].item) \/ (Becomes(h, "idle", None) /\ UNCHANGED files)
    BY <1>7, <1>m, HandGoes DEF Photos!PutFile
  <2> QED BY <1>4, <1>5, <1>7, <1>m, <2>1 DEF Photos!PutFile, PhotoTypes
<1>8. ASSUME NEW h \in Hands, Photos!LookForCover(h) PROVE PhotoTypes' /\ NamesApart'
  BY <1>4, <1>8, HandReads DEF Photos!LookForCover
<1>9. ASSUME NEW h \in Hands, Photos!CreateImage(h) PROVE PhotoTypes' /\ NamesApart'
  <2>1. Becomes(h, "idle", None) BY <1>9, HandGoes DEF Photos!CreateImage
  <2>2. crossed' \in BOOLEAN /\ dropped' \in BOOLEAN /\ covers' \subseteq images'
    BY <1>9 DEF Photos!CreateImage, Photos!CoversBecome, PhotoTypes, Photos!Others, HandTypes
  <2> QED BY <1>a, <1>9, <2>1, <2>2 DEF Photos!CreateImage
<1>10. ASSUME NEW h \in Hands, Photos!UpdateMedia(h) PROVE PhotoTypes' /\ NamesApart'
  <2>1. PICK m \in images \cup videos, pc \in {"cover", "unset"} : Becomes(h, pc, m)
    BY <1>10, <1>m, HandGoes DEF Photos!UpdateMedia, PhotoTypes
  <2> QED BY <1>5, <1>10, <1>m, <2>1 DEF Photos!UpdateMedia, PhotoTypes, NamesApart
<1>11. ASSUME NEW h \in Hands, Photos!ClearCovers(h) PROVE PhotoTypes' /\ NamesApart'
  BY <1>5, <1>11, <1>m, HandReads DEF Photos!ClearCovers, PhotoTypes
<1>12. ASSUME NEW h \in Hands, Photos!SetCover(h) \/ Photos!UnsetCover(h) \/ Photos!PromoteWrite(h) \/ Photos!MediaDies(h)
       PROVE PhotoTypes' /\ NamesApart'
  <2>1. Becomes(h, "idle", None)
    BY <1>12, HandGoes DEF Photos!SetCover, Photos!UnsetCover, Photos!PromoteWrite, Photos!MediaDies
  <2>2. UNCHANGED <<images, videos, files>> /\ covers' \subseteq images'
    BY <1>12 DEF Photos!SetCover, Photos!UnsetCover, Photos!PromoteWrite, Photos!MediaDies, Photos!CoversBecome, PhotoTypes
  <2>3. crossed' \in BOOLEAN /\ dropped' \in BOOLEAN
    BY <1>12 DEF Photos!SetCover, Photos!UnsetCover, Photos!PromoteWrite, Photos!MediaDies, Photos!CoversBecome, PhotoTypes,
                Photos!Others
  <2> QED BY <1>5, <1>m, <2>1, <2>2, <2>3
<1>13. ASSUME NEW h \in Hands, Photos!DeleteMedia(h) PROVE PhotoTypes' /\ NamesApart'
  <2>1. PICK m \in images \cup videos, pc \in Photos!Deleting : Becomes(h, pc, m)
    BY <1>13, HandReads
  <2>2. pc \in MediaSteps \ Adding /\ m \in Items
    BY <1>m DEF Photos!Deleting, PhotoTypes
  <2> QED BY <1>5, <1>13, <2>1, <2>2 DEF Photos!DeleteMedia, PhotoTypes
<1>14. ASSUME NEW h \in Hands, Photos!DeleteFile(h) PROVE PhotoTypes' /\ NamesApart'
  <2>1. Becomes(h, "deleteRow", hand[h].item) BY <1>14, <1>m, HandGoes DEF Photos!DeleteFile
  <2>2. hand[h].item \in Items BY <1>14 DEF Photos!DeleteFile, PhotoTypes
  <2> QED BY <1>5, <1>14, <1>m, <2>1, <2>2 DEF Photos!DeleteFile, PhotoTypes
<1>15. ASSUME NEW h \in Hands, Photos!DeleteRow(h) PROVE PhotoTypes' /\ NamesApart'
  <2>1. PICK pc \in {"idle", "promote"} : Becomes(h, pc, None)
    BY <1>15, HandGoes, HandReads DEF Photos!DeleteRow
  <2>2. images' \subseteq images /\ videos' \subseteq videos /\ covers' \subseteq images' /\ UNCHANGED <<files, dropped>>
    BY <1>15 DEF Photos!DeleteRow, Photos!CoversBecome, PhotoTypes
  <2>3. crossed' \in BOOLEAN
    BY <1>15 DEF Photos!DeleteRow, Photos!CoversBecome, PhotoTypes, Photos!Others
  <2> QED BY <1>5, <1>m, <2>1, <2>2, <2>3 DEF PhotoTypes
<1>16. ASSUME NEW h \in Hands, Photos!PromoteFind(h) PROVE PhotoTypes' /\ NamesApart'
  <2>1. Becomes(h, "idle", None) \/ \E m \in images : Becomes(h, "promoteWrite", m)
    BY <1>16, <1>m, HandGoes DEF Photos!PromoteFind, PhotoTypes
  <2>2. UNCHANGED <<images, videos, covers, files, crossed, dropped>> /\ images \subseteq Items
    BY <1>16 DEF Photos!PromoteFind, PhotoTypes
  <2> QED BY <1>5, <1>m, <2>1, <2>2 DEF PhotoTypes
<1>17. CASE UNCHANGED Photos!mediaVars
  BY <1>17 DEF Photos!mediaVars, PhotoTypes, NamesApart
<1> QED
  BY <1>6, <1>7, <1>8, <1>9, <1>10, <1>11, <1>12, <1>13, <1>14, <1>15, <1>16, <1>17 DEF Photos!Next

(* What the requests have read of the covers is still true while nothing crossed. *)
CoverKnown ==
  ~crossed =>
    /\ \A m, n \in covers : m = n
    /\ \A h \in Hands :
         /\ hand[h].pc = "create" => (hand[h].was <=> covers # {})
         /\ hand[h].pc \in Photos!Deleting => (hand[h].was <=> hand[h].item \in covers)
         /\ hand[h].pc \in {"promote", "promoteWrite"} => covers = {}

(* What is known of the cover is kept by every step: only a crossing breaks it. *)
LEMMA CoverKept ==
  ASSUME PhotoTypes, CoverKnown, Photos!SomeCover, [Photos!Next]_(Photos!mediaVars)
  PROVE  CoverKnown' /\ Photos!SomeCover'
<1> USE DEF Photos!At, Photos!SameRows, Photos!Rows, Photos!Deleting, Photos!SomeCover
<1>m. {"idle", "put", "look", "video", "cover", "unset", "create", "set", "deleteFile", "deleteRow", "promote",
       "promoteWrite"} = MediaSteps
  BY DEF MediaSteps, Photos!Decided
<1>d. \A h \in Hands : ~Photos!Others(h) =>
        \A g \in Hands \ {h} : hand[g].pc \notin {"create", "deleteFile", "deleteRow", "promote", "promoteWrite"}
  BY DEF Photos!Others, Photos!Decided
<1>1. ASSUME NEW h \in Hands, NEW pc \in MediaSteps, NEW m, Becomes(h, pc, m),
             pc \notin {"create", "deleteFile", "deleteRow", "promote", "promoteWrite"},
             hand[h].pc \notin {"promote", "promoteWrite"},
             UNCHANGED <<images, covers, crossed, dropped>>
      PROVE  CoverKnown' /\ Photos!SomeCover'
  BY <1>1 DEF CoverKnown, Becomes
<1>2. ASSUME NEW h \in Hands, Photos!AddImage(h) PROVE CoverKnown' /\ Photos!SomeCover'
  <2>1. Photos!NewName \in Items BY <1>2 DEF Photos!AddImage, Photos!NewName, Photos!Unused
  <2>2. Becomes(h, "put", Photos!NewName) BY <1>2, <1>m, <2>1, HandGoes DEF Photos!AddImage
  <2> QED BY <1>1, <1>2, <1>m, <2>2 DEF Photos!AddImage
<1>3. ASSUME NEW h \in Hands, Photos!AddVideo(h) PROVE CoverKnown' /\ Photos!SomeCover'
  <2>1. CASE hand[h].pc = "idle"
    <3>1. Photos!NewName \in Items BY <1>3, <2>1 DEF Photos!AddVideo, Photos!NewName, Photos!Unused
    <3>2. Becomes(h, "video", Photos!NewName) BY <1>3, <1>m, <2>1, <3>1, HandGoes DEF Photos!AddVideo
    <3> QED BY <1>1, <1>3, <1>m, <2>1, <3>2 DEF Photos!AddVideo
  <2>2. CASE hand[h].pc = "video"
    BY <1>1, <1>3, <1>m, <2>2, HandGoes DEF Photos!AddVideo
  <2> QED BY <1>3, <2>1, <2>2 DEF Photos!AddVideo
<1>4. ASSUME NEW h \in Hands, Photos!PutFile(h) PROVE CoverKnown' /\ Photos!SomeCover'
  BY <1>1, <1>4, <1>m, HandGoes DEF Photos!PutFile
<1>5. ASSUME NEW h \in Hands, Photos!LookForCover(h) PROVE CoverKnown' /\ Photos!SomeCover'
  <2>1. Becomes(h, "create", hand[h].item) /\ (hand'[h].was <=> covers # {}) BY <1>5, HandReads
  <2> QED BY <1>5, <2>1 DEF Photos!LookForCover, Becomes, CoverKnown
<1>6. ASSUME NEW h \in Hands, Photos!CreateImage(h) PROVE CoverKnown' /\ Photos!SomeCover'
  <2>1. Becomes(h, "idle", None) BY <1>6, HandGoes DEF Photos!CreateImage
  <2>2. CASE hand[h].was
    <3>1. UNCHANGED <<covers, crossed, dropped>> /\ hand[h].pc = "create"
      BY <1>6, <2>2 DEF Photos!CreateImage, Photos!CoversBecome, PhotoTypes
    <3> QED BY <2>1, <2>2, <3>1 DEF Becomes, CoverKnown
  <2>3. CASE ~hand[h].was
    <3>1. covers' = covers \cup {hand[h].item} /\ hand[h].pc = "create"
      BY <1>6, <2>3 DEF Photos!CreateImage, Photos!CoversBecome
    <3>2. ~crossed' => ~crossed /\ (covers' = covers \/ ~Photos!Others(h))
      BY <1>6, <2>3 DEF Photos!CreateImage, Photos!CoversBecome
    <3> QED BY <1>d, <2>1, <2>3, <3>1, <3>2 DEF Becomes, CoverKnown
  <2> QED BY <2>2, <2>3
<1>7. ASSUME NEW h \in Hands, Photos!UpdateMedia(h) \/ Photos!ClearCovers(h) PROVE CoverKnown' /\ Photos!SomeCover'
  <2>1. PICK pc \in {"cover", "unset", "set"} : \E m \in Items : Becomes(h, pc, m)
    BY <1>7, <1>m, HandGoes, HandReads DEF Photos!UpdateMedia, Photos!ClearCovers, PhotoTypes
  <2> QED BY <1>1, <1>7, <1>m, <2>1 DEF Photos!UpdateMedia, Photos!ClearCovers
<1>8. ASSUME NEW h \in Hands, Photos!SetCover(h) PROVE CoverKnown' /\ Photos!SomeCover'
  <2>1. Becomes(h, "idle", None) BY <1>8, HandGoes DEF Photos!SetCover
  <2>2. CASE hand[h].item \in images
    <3>1. hand[h].item \in covers' /\ (~crossed' => covers' = {hand[h].item} /\ ~Photos!Others(h))
      BY <1>8, <2>2 DEF Photos!SetCover
    <3> QED BY <1>d, <2>1, <3>1 DEF Becomes, CoverKnown
  <2>3. CASE hand[h].item \notin images
    BY <1>1, <1>8, <1>m, <2>1, <2>3 DEF Photos!SetCover
  <2> QED BY <2>2, <2>3
<1>9. ASSUME NEW h \in Hands, Photos!UnsetCover(h) PROVE CoverKnown' /\ Photos!SomeCover'
  <2>1. Becomes(h, "idle", None) /\ covers' = covers \ {hand[h].item} /\ hand[h].pc = "unset" /\ UNCHANGED images
    BY <1>9, HandGoes DEF Photos!UnsetCover, Photos!CoversBecome
  <2>2. ~crossed' => ~crossed /\ (covers' = covers \/ ~Photos!Others(h))
    BY <1>9 DEF Photos!UnsetCover, Photos!CoversBecome
  <2>3. ~dropped' => ~dropped /\ covers' = covers
    BY <1>9, <2>1 DEF Photos!UnsetCover
  <2>4. CoverKnown'
    BY <1>d, <2>1, <2>2 DEF Becomes, CoverKnown
  <2> QED BY <2>1, <2>2, <2>3, <2>4 DEF Becomes
<1>10. ASSUME NEW h \in Hands, Photos!DeleteMedia(h) PROVE CoverKnown' /\ Photos!SomeCover'
  <2>1. PICK m \in images \cup videos, pc \in Photos!Deleting : Becomes(h, pc, m) /\ (hand'[h].was <=> m \in covers)
    BY <1>10, HandReads
  <2> QED BY <1>10, <2>1 DEF Photos!DeleteMedia, Becomes, CoverKnown
<1>11. ASSUME NEW h \in Hands, Photos!DeleteFile(h) PROVE CoverKnown' /\ Photos!SomeCover'
  <2>1. Becomes(h, "deleteRow", hand[h].item) /\ hand'[h].was = hand[h].was
    BY <1>11, <1>m, HandGoes DEF Photos!DeleteFile
  <2> QED BY <1>11, <2>1 DEF Photos!DeleteFile, Becomes, CoverKnown
<1>12. ASSUME NEW h \in Hands, Photos!DeleteRow(h) PROVE CoverKnown' /\ Photos!SomeCover'
  <2>1. Becomes(h, IF hand[h].item \in images \cup videos /\ hand[h].was THEN "promote" ELSE "idle", None)
    BY <1>12, HandGoes, HandReads DEF Photos!DeleteRow
  <2>2. covers' = covers \ {hand[h].item} /\ hand[h].pc = "deleteRow" /\ images' = images \ {hand[h].item} /\ UNCHANGED dropped
    BY <1>12 DEF Photos!DeleteRow, Photos!CoversBecome
  <2>3. ~crossed' => ~crossed /\ (covers' = covers \/ ~Photos!Others(h))
    BY <1>12 DEF Photos!DeleteRow, Photos!CoversBecome
  <2>4. ~crossed => (hand[h].was <=> hand[h].item \in covers) /\ (hand[h].was => covers' = {})
    BY <2>2 DEF CoverKnown
  <2>5. CoverKnown'
    BY <1>d, <2>1, <2>2, <2>3, <2>4 DEF Becomes, CoverKnown
  <2>6. Photos!SomeCover'
    BY <2>1, <2>2, <2>3, <2>4 DEF Becomes, PhotoTypes
  <2> QED BY <2>5, <2>6
<1>13. ASSUME NEW h \in Hands, Photos!PromoteFind(h) PROVE CoverKnown' /\ Photos!SomeCover'
  <2>1. CASE images = {}
    BY <1>13, <2>1, HandGoes DEF Photos!PromoteFind, Becomes, CoverKnown
  <2>2. CASE images # {}
    <3>1. PICK m \in images : Becomes(h, "promoteWrite", m)
      BY <1>13, <1>m, <2>2, HandGoes DEF Photos!PromoteFind, PhotoTypes
    <3> QED BY <1>13, <3>1 DEF Photos!PromoteFind, Becomes, CoverKnown
  <2> QED BY <2>1, <2>2
<1>14. ASSUME NEW h \in Hands, Photos!PromoteWrite(h) PROVE CoverKnown' /\ Photos!SomeCover'
  <2>1. Becomes(h, "idle", None) /\ UNCHANGED images /\ hand[h].pc = "promoteWrite" BY <1>14, HandGoes DEF Photos!PromoteWrite
  <2>2. CASE hand[h].item \in images
    <3>1. covers' = covers \cup {hand[h].item} /\ (~crossed' => ~crossed /\ (covers' = covers \/ ~Photos!Others(h)))
      BY <1>14, <2>2 DEF Photos!PromoteWrite, Photos!CoversBecome
    <3> QED BY <1>d, <2>1, <3>1 DEF Becomes, CoverKnown
  <2>3. CASE hand[h].item \notin images
    <3>1. UNCHANGED <<covers, crossed>> /\ dropped'
      BY <1>14, <2>3 DEF Photos!PromoteWrite
    <3> QED BY <2>1, <3>1 DEF Becomes, CoverKnown
  <2> QED BY <2>2, <2>3
<1>15. ASSUME NEW h \in Hands, Photos!MediaDies(h) PROVE CoverKnown' /\ Photos!SomeCover'
  <2>1. Becomes(h, "idle", None) BY <1>15, HandGoes DEF Photos!MediaDies
  <2> QED BY <1>15, <2>1 DEF Photos!MediaDies, Becomes, CoverKnown
<1>16. CASE UNCHANGED Photos!mediaVars
  BY <1>16 DEF Photos!mediaVars, CoverKnown
<1> QED
  BY <1>2, <1>3, <1>4, <1>5, <1>6, <1>7, <1>8, <1>9, <1>10, <1>11, <1>12, <1>13, <1>14, <1>15, <1>16 DEF Photos!Next

(* The operator Cardinality of the instance is that of FiniteSets. *)
LEMMA CountedAlike == \A S : Photos!Cardinality(S) = Cardinality(S)
BY DEF Photos!Cardinality, Cardinality

(* The requests that have passed the limit check and have no row yet, and the rows:
   together they never reach the limit and one for each request.                     *)
Past == {h \in Hands : hand[h].pc \in Adding}
RoomLeft ==
  /\ IsFiniteSet(images \cup videos)
  /\ Cardinality(images \cup videos) + Cardinality(Past) < Max + Cardinality(Hands)

(* Requests are finitely many, and so are those past the check. *)
LEMMA PastIsFinite ==
  /\ IsFiniteSet(Past) /\ Cardinality(Past) \in Nat /\ Cardinality(Past) <= Cardinality(Hands)
  /\ IsFiniteSet(Past') /\ Cardinality(Past') \in Nat /\ Cardinality(Past') <= Cardinality(Hands)
  /\ Cardinality(Hands) \in Nat
<1>1. Past \subseteq Hands /\ Past' \subseteq Hands
  BY DEF Past
<1> QED BY <1>1, MediaAssumption, FS_Subset, FS_CardinalityType

(* A step that adds no row and lets nobody past the check keeps the room. *)
LEMMA RoomStays ==
  ASSUME RoomLeft, images' \cup videos' \subseteq images \cup videos, Past' \subseteq Past
  PROVE  RoomLeft'
<1>1. IsFiniteSet(images' \cup videos') /\ Cardinality(images' \cup videos') <= Cardinality(images \cup videos)
  BY FS_Subset DEF RoomLeft
<1>2. Cardinality(Past') <= Cardinality(Past)
  BY PastIsFinite, FS_Subset
<1>3. Cardinality(images' \cup videos') \in Nat /\ Cardinality(images \cup videos) \in Nat
  BY <1>1, FS_CardinalityType DEF RoomLeft
<1> QED BY <1>1, <1>2, <1>3, PastIsFinite, MediaAssumption DEF RoomLeft

(* A request past the check that makes its row keeps the room. *)
LEMMA RoomTaken ==
  ASSUME RoomLeft, NEW h \in Past, NEW m,
         images' \cup videos' = (images \cup videos) \cup {m}, Past' = Past \ {h}
  PROVE  RoomLeft'
<1>1. /\ IsFiniteSet(images' \cup videos')
      /\ Cardinality(images' \cup videos') <= Cardinality(images \cup videos) + 1
      /\ Cardinality(images' \cup videos') \in Nat /\ Cardinality(images \cup videos) \in Nat
  <2> DEFINE rows == images \cup videos
  <2>1. IsFiniteSet(rows) /\ Cardinality(rows) \in Nat BY FS_CardinalityType DEF RoomLeft
  <2> HIDE DEF rows
  <2>2. IsFiniteSet(rows \cup {m}) /\ Cardinality(rows \cup {m}) = IF m \in rows THEN Cardinality(rows) ELSE Cardinality(rows) + 1
    BY <2>1, FS_AddElement
  <2> QED BY <2>1, <2>2 DEF rows
<1>2. Cardinality(Past') = Cardinality(Past) - 1
  BY PastIsFinite, FS_RemoveElement
<1> QED BY <1>1, <1>2, PastIsFinite, MediaAssumption DEF RoomLeft

(* Who passes the check finds fewer rows than the limit. *)
LEMMA RoomFound ==
  ASSUME RoomLeft, Photos!Room, UNCHANGED <<images, videos>>
  PROVE  RoomLeft'
<1>1. Cardinality(images \cup videos) < Max /\ Cardinality(images \cup videos) \in Nat
  BY CountedAlike, FS_CardinalityType DEF RoomLeft, Photos!Room, Photos!Rows
<1> QED BY <1>1, PastIsFinite, MediaAssumption DEF RoomLeft

(* The room is kept by every step. *)
LEMMA RoomKept ==
  ASSUME PhotoTypes, RoomLeft, [Photos!Next]_(Photos!mediaVars)
  PROVE  RoomLeft'
<1> USE DEF Photos!At, Photos!SameRows, Photos!Rows
<1>m. {"idle", "put", "look", "video", "cover", "unset", "create", "set", "deleteFile", "deleteRow", "promote",
       "promoteWrite"} = MediaSteps
  BY DEF MediaSteps, Photos!Decided
<1>1. ASSUME NEW h \in Hands, NEW pc \in MediaSteps, NEW m, Becomes(h, pc, m), pc \in Adding => hand[h].pc \in Adding
      PROVE  Past' \subseteq Past
  BY <1>1 DEF Past, Becomes
<1>2. ASSUME NEW h \in Hands, hand[h].pc \in Adding, Becomes(h, "idle", None)
      PROVE  h \in Past /\ Past' = Past \ {h}
  BY <1>2 DEF Past, Becomes, Adding
<1>3. ASSUME NEW h \in Hands, Photos!AddImage(h) PROVE RoomLeft'
  BY <1>3, RoomFound DEF Photos!AddImage
<1>4. ASSUME NEW h \in Hands, Photos!AddVideo(h) PROVE RoomLeft'
  <2>1. CASE hand[h].pc = "idle"
    BY <1>4, <2>1, RoomFound DEF Photos!AddVideo
  <2>2. CASE hand[h].pc # "idle"
    <3>1. hand[h].pc \in Adding /\ Becomes(h, "idle", None)
      BY <1>4, <2>2, HandGoes DEF Photos!AddVideo, Adding
    <3>2. images' \cup videos' = (images \cup videos) \cup {hand[h].item}
      BY <1>4, <2>2 DEF Photos!AddVideo
    <3> QED BY <1>2, <3>1, <3>2, RoomTaken
  <2> QED BY <2>1, <2>2
<1>5. ASSUME NEW h \in Hands, Photos!CreateImage(h) PROVE RoomLeft'
  <2>1. hand[h].pc \in Adding /\ Becomes(h, "idle", None)
    BY <1>5, HandGoes DEF Photos!CreateImage, Adding
  <2>2. images' \cup videos' = (images \cup videos) \cup {hand[h].item}
    BY <1>5 DEF Photos!CreateImage
  <2> QED BY <1>2, <2>1, <2>2, RoomTaken
<1>6. ASSUME NEW h \in Hands, Photos!PutFile(h) \/ Photos!LookForCover(h) PROVE RoomLeft'
  <2>1. \E pc \in {"look", "create", "idle"}, m \in Items \cup {None} : Becomes(h, pc, m)
    BY <1>6, <1>m, HandGoes, HandReads DEF Photos!PutFile, Photos!LookForCover, PhotoTypes
  <2>2. hand[h].pc \in Adding /\ UNCHANGED <<images, videos>>
    BY <1>6 DEF Photos!PutFile, Photos!LookForCover, Adding
  <2> QED BY <1>1, <1>m, <2>1, <2>2, RoomStays
<1>7. ASSUME NEW h \in Hands, Photos!UpdateMedia(h) \/ Photos!ClearCovers(h) \/ Photos!DeleteMedia(h) \/ Photos!DeleteFile(h)
                              \/ Photos!PromoteFind(h)
      PROVE RoomLeft'
  <2>1. \E pc \in {"cover", "unset", "set", "deleteFile", "deleteRow", "idle", "promoteWrite"}, m \in Items \cup {None} :
          Becomes(h, pc, m)
    <3>1. CASE Photos!UpdateMedia(h)
      BY <3>1, <1>m, HandGoes DEF Photos!UpdateMedia, PhotoTypes
    <3>2. CASE Photos!ClearCovers(h) \/ Photos!DeleteFile(h)
      <4>1. hand[h].item \in Items BY <3>2 DEF Photos!ClearCovers, Photos!DeleteFile, PhotoTypes
      <4> QED BY <3>2, <4>1, <1>m, HandGoes, HandReads DEF Photos!ClearCovers, Photos!DeleteFile
    <3>3. CASE Photos!DeleteMedia(h)
      BY <3>3, HandReads DEF PhotoTypes, Photos!Deleting
    <3>4. CASE Photos!PromoteFind(h)
      BY <3>4, <1>m, HandGoes DEF Photos!PromoteFind, PhotoTypes
    <3> QED BY <1>7, <3>1, <3>2, <3>3, <3>4
  <2>2. UNCHANGED <<images, videos>>
    BY <1>7 DEF Photos!UpdateMedia, Photos!ClearCovers, Photos!DeleteMedia, Photos!DeleteFile, Photos!PromoteFind
  <2> QED BY <1>1, <1>m, <2>1, <2>2, RoomStays DEF Adding
<1>8. ASSUME NEW h \in Hands, Photos!SetCover(h) \/ Photos!UnsetCover(h) \/ Photos!PromoteWrite(h) \/ Photos!MediaDies(h)
                              \/ Photos!DeleteRow(h)
      PROVE RoomLeft'
  <2>1. Becomes(h, "idle", None) \/ Becomes(h, "promote", None)
    BY <1>8, HandGoes, HandReads
       DEF Photos!SetCover, Photos!UnsetCover, Photos!PromoteWrite, Photos!MediaDies, Photos!DeleteRow
  <2>2. images' \subseteq images /\ videos' \subseteq videos
    BY <1>8 DEF Photos!SetCover, Photos!UnsetCover, Photos!PromoteWrite, Photos!MediaDies, Photos!DeleteRow
  <2> QED BY <1>1, <1>m, <2>1, <2>2, RoomStays DEF Adding
<1>9. CASE UNCHANGED Photos!mediaVars
  BY <1>9, RoomStays DEF Photos!mediaVars, Past
<1> QED BY <1>3, <1>4, <1>5, <1>6, <1>7, <1>8, <1>9 DEF Photos!Next

(* The inductive invariant of Media. *)
PhotosInv == PhotoTypes /\ NamesApart /\ CoverKnown /\ Photos!SomeCover /\ RoomLeft

(* media.service.ts: types and cover hold in every behaviour of the component. *)
THEOREM PhotosCorrect == Photos!Spec => [](Photos!TypeOK /\ Photos!CoverIsKept)
<1>1. Photos!Init => PhotosInv
  <2> SUFFICES ASSUME Photos!Init PROVE PhotosInv OBVIOUS
  <2> USE DEF Photos!Init
  <2>1. PhotoTypes
    BY DEF PhotoTypes, HandTypes, MediaSteps, Photos!Free
  <2>2. \A h \in Hands : hand[h].pc = "idle"
    BY DEF Photos!Free
  <2>3. NamesApart /\ CoverKnown /\ Photos!SomeCover
    BY <2>2 DEF NamesApart, Adding, CoverKnown, Photos!SomeCover, Photos!Deleting
  <2>4. Past = {} /\ images \cup videos = {}
    BY <2>2 DEF Past, Adding
  <2>5. RoomLeft
    BY <2>4, FS_EmptySet, FS_CardinalityType, MediaAssumption DEF RoomLeft
  <2> QED BY <2>1, <2>3, <2>5 DEF PhotosInv
<1>2. PhotosInv /\ [Photos!Next]_(Photos!mediaVars) => PhotosInv'
  BY PhotoTypesKept, CoverKept, RoomKept DEF PhotosInv
<1>3. PhotosInv => Photos!TypeOK /\ Photos!CoverIsKept
  <2> SUFFICES ASSUME PhotosInv PROVE Photos!TypeOK /\ Photos!CoverIsKept OBVIOUS
  <2>1. Photos!TypeOK
    <3>1. Cardinality(images \cup videos) < Max + Cardinality(Hands)
      BY PastIsFinite, FS_CardinalityType, MediaAssumption DEF PhotosInv, RoomLeft
    <3> QED BY <3>1, CountedAlike DEF PhotosInv, PhotoTypes, HandTypes, MediaSteps, Photos!TypeOK, Photos!Rows
  <2>2. Photos!OneCover
    <3>1. CASE covers = {}
      BY <3>1, CountedAlike, FS_EmptySet DEF Photos!OneCover
    <3>2. ASSUME ~crossed, NEW m \in covers PROVE Cardinality(covers) <= 1
      <4>1. covers = {m} BY <3>2 DEF PhotosInv, CoverKnown
      <4>2. Cardinality({m}) = 1 BY FS_Singleton
      <4> QED BY <4>1, <4>2
    <3> QED BY <3>1, <3>2, CountedAlike DEF Photos!OneCover
  <2> QED BY <2>1, <2>2 DEF PhotosInv, Photos!CoverIsKept
<1> QED BY <1>1, <1>2, <1>3, PTL DEF Photos!Spec

-----------------------------------------------------------------------------
(* Domain: one custom domain, its proof and its certificate (domain.service.ts, domain-ssl.worker.ts). *)

(* The steps of a request, what a request knows, what a job is. *)
ClaimSteps == {"idle", "token", "get", "dns", "mark", "attach", "enqueue", "detach", "forget", "delete"}
Claims == [pc : ClaimSteps, row : Choices \cup {None}, saw : Choices \cup {None}]
Tries  == [row : Choices, left : 1 .. Attempts, ready : BOOLEAN]

(* Types; a request under way names a row. *)
DomainTypes ==
  /\ row \in Choices \cup {None} /\ token \in Choices \cup {None} /\ dns \in Choices \cup {None}
  /\ {verified, ssl, proof, attached, issued, muddled, stray, lost} \subseteq BOOLEAN
  /\ jobs \subseteq Tries
  /\ claim \in [Hands -> Claims]
  /\ \A h \in Hands : claim[h].pc # "idle" => claim[h].row \in Choices

(* Only a verified row has a certificate, a job or a request that attaches its name. *)
WorkIsVerified ==
  /\ ssl => verified
  /\ verified => row # None
  /\ \A h \in Hands : claim[h].row = row /\ claim[h].pc \in {"attach", "enqueue"} => verified
  /\ \A j \in jobs : j.row = row => verified

(* Unless an add set the key late, the key and what a check has read of it are the present row's. *)
KeyIsOwn ==
  ~muddled =>
    /\ token \in {None, row}
    /\ \A h \in Hands : claim[h].row = row =>
         /\ claim[h].pc = "delete" => token = None
         /\ claim[h].pc \in {"dns", "mark"} => claim[h].saw = row

(* A row that is about to go is detached, or the name is known to have stayed. *)
RemovedIsDetached ==
  \A h \in Hands : claim[h].row = row /\ claim[h].pc \in {"forget", "delete"} /\ attached => stray

(* Who has seen the certificate, or attached the name, is right about it. *)
ChecksAreSound ==
  ~lost =>
    /\ \A j \in jobs : j.ready /\ j.row = row => attached /\ issued
    /\ \A h \in Hands : claim[h].row = row /\ claim[h].pc = "enqueue" => attached

(* The inductive invariant. *)
DomainInv ==
  /\ DomainTypes /\ WorkIsVerified /\ KeyIsOwn /\ RemovedIsDetached /\ ChecksAreSound
  /\ Domain!DomainIsProven /\ Domain!CertificateIsAwaited

(* The other requests stand still; request h goes to pc for row r; request h is over. *)
Others(h) ==
  /\ claim' \in [Hands -> Claims]
  /\ \A g \in Hands \ {h} : claim'[g] = claim[g]
Moves(h, pc, r) == Others(h) /\ claim'[h].pc = pc /\ claim'[h].row = r /\ r \in Choices
Stops(h)        == Others(h) /\ claim'[h].pc = "idle"

(* A request may be replaced by one of the right type. *)
LEMMA ClaimReplaced ==
  ASSUME DomainTypes, NEW h \in Hands, NEW d \in Claims, claim' = [claim EXCEPT ![h] = d]
  PROVE  Others(h) /\ claim'[h] = d
BY DEF DomainTypes, Others

(* Where every step of a request leads. *)
LEMMA ClaimGoes ==
  ASSUME DomainTypes, NEW h \in Hands
  PROVE  /\ Domain!AddDomain(h) => Moves(h, "token", row')
         /\ Domain!SetToken(h) => Stops(h)
         /\ Domain!VerifyDomain(h) => Moves(h, "get", row)
         /\ Domain!GetToken(h) =>
              \/ Stops(h)
              \/ token # None /\ Moves(h, "dns", claim[h].row) /\ claim'[h].saw = token
         /\ Domain!ResolveTxt(h) =>
              \/ Stops(h)
              \/ Moves(h, "mark", claim[h].row) /\ claim'[h].saw = claim[h].saw /\ claim[h].pc = "dns"
         /\ Domain!MarkVerified(h) =>
              \/ claim[h].row # row /\ Stops(h)
              \/ claim[h].row = row /\ Moves(h, "attach", row)
         /\ Domain!AttachDomain(h) => Moves(h, "enqueue", claim[h].row)
         /\ Domain!EnqueueCheck(h) => Stops(h)
         /\ Domain!RemoveDomain(h) => Moves(h, "detach", row)
         /\ Domain!DetachDomain(h) => Moves(h, "forget", claim[h].row)
         /\ Domain!ForgetToken(h) => Moves(h, "delete", claim[h].row)
         /\ Domain!DeleteRow(h) => Stops(h)
         /\ Domain!RequestDies(h) => Stops(h)
<1> USE DEF Domain!At, Domain!Mine, Domain!To, Domain!Ends
<1>t. /\ claim[h] \in Claims /\ claim \in [Hands -> Claims]
      /\ row \in Choices \cup {None} /\ token \in Choices \cup {None}
      /\ claim[h].pc # "idle" => claim[h].row \in Choices
  BY DEF DomainTypes
<1>c. {"token", "get", "dns", "mark", "attach", "enqueue", "detach", "forget", "delete"} \subseteq ClaimSteps
  BY DEF ClaimSteps
<1>k. ASSUME NEW pc \in ClaimSteps, claim' = [claim EXCEPT ![h].pc = pc]
      PROVE  Others(h) /\ claim'[h].pc = pc /\ claim'[h].row = claim[h].row /\ claim'[h].saw = claim[h].saw
  <2> DEFINE d == [claim[h] EXCEPT !.pc = pc]
  <2>1. d \in Claims /\ d.pc = pc /\ d.row = claim[h].row /\ d.saw = claim[h].saw
    BY <1>t DEF Claims
  <2>2. claim' = [claim EXCEPT ![h] = d] BY <1>k, <1>t
  <2> HIDE DEF d
  <2> QED BY <2>1, <2>2, ClaimReplaced
<1>g. ASSUME token # None, claim' = [claim EXCEPT ![h].pc = "dns", ![h].saw = token]
      PROVE  Others(h) /\ claim'[h].pc = "dns" /\ claim'[h].row = claim[h].row /\ claim'[h].saw = token
  <2> DEFINE d == [claim[h] EXCEPT !.pc = "dns", !.saw = token]
  <2>1. d \in Claims /\ d.pc = "dns" /\ d.row = claim[h].row /\ d.saw = token
    BY <1>t, <1>c DEF Claims
  <2>2. claim' = [claim EXCEPT ![h] = d] BY <1>g, <1>t
  <2> HIDE DEF d
  <2> QED BY <2>1, <2>2, ClaimReplaced
<1>s. ASSUME NEW pc \in ClaimSteps, NEW r \in Choices,
             claim' = [claim EXCEPT ![h] = [Domain!Idle EXCEPT !.pc = pc, !.row = r]]
      PROVE  Moves(h, pc, r)
  <2> DEFINE d == [Domain!Idle EXCEPT !.pc = pc, !.row = r]
  <2>1. d \in Claims /\ d.pc = pc /\ d.row = r
    BY DEF Claims, Domain!Idle
  <2>2. claim' = [claim EXCEPT ![h] = d] BY <1>s
  <2> HIDE DEF d
  <2> QED BY <2>1, <2>2, ClaimReplaced DEF Moves
<1>e. ASSUME claim' = [claim EXCEPT ![h] = Domain!Idle] PROVE Stops(h)
  <2>1. Domain!Idle \in Claims /\ Domain!Idle.pc = "idle" BY DEF Domain!Idle, Claims, ClaimSteps
  <2> QED BY <1>e, <2>1, ClaimReplaced DEF Stops
<1>1. ASSUME Domain!AddDomain(h) PROVE Moves(h, "token", row')
  <2>1. PICK new \in Choices :
          row' = new /\ claim' = [claim EXCEPT ![h] = [Domain!Idle EXCEPT !.pc = "token", !.row = new]]
    BY <1>1 DEF Domain!AddDomain, Domain!Fresh
  <2> QED BY <2>1, <1>s, <1>c
<1>2. ASSUME Domain!SetToken(h) PROVE Stops(h) BY <1>2, <1>e DEF Domain!SetToken
<1>3. ASSUME Domain!VerifyDomain(h) PROVE Moves(h, "get", row)
  BY <1>3, <1>t, <1>c, <1>s DEF Domain!VerifyDomain
<1>4. ASSUME Domain!GetToken(h)
      PROVE  Stops(h) \/ (token # None /\ Moves(h, "dns", claim[h].row) /\ claim'[h].saw = token)
  BY <1>4, <1>t, <1>e, <1>g DEF Domain!GetToken, Moves
<1>5. ASSUME Domain!ResolveTxt(h)
      PROVE  \/ Stops(h)
             \/ Moves(h, "mark", claim[h].row) /\ claim'[h].saw = claim[h].saw /\ claim[h].pc = "dns"
  BY <1>5, <1>t, <1>c, <1>k, <1>e DEF Domain!ResolveTxt, Moves
<1>6. ASSUME Domain!MarkVerified(h)
      PROVE  (claim[h].row # row /\ Stops(h)) \/ (claim[h].row = row /\ Moves(h, "attach", row))
  BY <1>6, <1>t, <1>c, <1>k, <1>e DEF Domain!MarkVerified, Moves
<1>7. ASSUME Domain!AttachDomain(h) PROVE Moves(h, "enqueue", claim[h].row)
  BY <1>7, <1>t, <1>c, <1>k DEF Domain!AttachDomain, Moves
<1>8. ASSUME Domain!EnqueueCheck(h) PROVE Stops(h) BY <1>8, <1>e DEF Domain!EnqueueCheck
<1>9. ASSUME Domain!RemoveDomain(h) PROVE Moves(h, "detach", row)
  BY <1>9, <1>t, <1>c, <1>s DEF Domain!RemoveDomain
<1>10. ASSUME Domain!DetachDomain(h) PROVE Moves(h, "forget", claim[h].row)
  BY <1>10, <1>t, <1>c, <1>k DEF Domain!DetachDomain, Moves
<1>11. ASSUME Domain!ForgetToken(h) PROVE Moves(h, "delete", claim[h].row)
  BY <1>11, <1>t, <1>c, <1>k DEF Domain!ForgetToken, Moves
<1>12. ASSUME Domain!DeleteRow(h) PROVE Stops(h) BY <1>12, <1>e DEF Domain!DeleteRow
<1>13. ASSUME Domain!RequestDies(h) PROVE Stops(h) BY <1>13, <1>e DEF Domain!RequestDies
<1> QED BY <1>1, <1>2, <1>3, <1>4, <1>5, <1>6, <1>7, <1>8, <1>9, <1>10, <1>11, <1>12, <1>13

(* What the worker does with a job: it comes back, or it was the last attempt. *)
LEMMA JobsGo ==
  ASSUME DomainTypes, NEW j \in jobs,
         Domain!Fails(j) \/ jobs' = (jobs \ {j}) \cup {[j EXCEPT !.ready = TRUE]}
  PROVE  /\ jobs' \subseteq Tries
         /\ \A k \in jobs' : k \in jobs \/ k.row = j.row
         /\ \A k \in jobs : k = j \/ k \in jobs'
         /\ Domain!Fails(j) =>
              /\ \A k \in jobs' : k \in jobs \/ ~k.ready
              /\ lost' = (lost \/ (j.left = 1 /\ j.row = row))
              /\ j.left = 1 \/ \E k \in jobs' : k.row = j.row
         /\ jobs' = (jobs \ {j}) \cup {[j EXCEPT !.ready = TRUE]} => \E k \in jobs' : k.row = j.row
<1>t. j \in Tries /\ jobs \subseteq Tries BY DEF DomainTypes
<1>1. ASSUME Domain!Fails(j)
      PROVE  /\ jobs' \subseteq Tries
             /\ \A k \in jobs' : k \in jobs \/ (k.row = j.row /\ ~k.ready)
             /\ \A k \in jobs : k = j \/ k \in jobs'
             /\ lost' = (lost \/ (j.left = 1 /\ j.row = row))
             /\ j.left = 1 \/ \E k \in jobs' : k.row = j.row
  <2> DEFINE n == j.left - 1
             later == [j EXCEPT !.left = n, !.ready = FALSE]
  <2>1. j.left \in 1 .. Attempts /\ Attempts \in Nat BY <1>t, DomainAssumption DEF Tries
  <2>2. n \in Int /\ (n > 0 => n \in 1 .. Attempts) /\ (n > 0 \/ j.left = 1) BY <2>1
  <2>3. jobs' = (jobs \ {j}) \cup {k \in {later} : k.left > 0}
    BY <1>1 DEF Domain!Fails
  <2>4. lost' = (lost \/ (j.left = 1 /\ j.row = row)) BY <1>1 DEF Domain!Fails
  <2> HIDE DEF n
  <2>5. later.left = n /\ later.row = j.row /\ ~later.ready /\ (n \in 1 .. Attempts => later \in Tries)
    BY <1>t DEF Tries
  <2> HIDE DEF later
  <2>6. \A k : k \in jobs' <=> (k \in jobs /\ k # j) \/ (k = later /\ n > 0)
    BY <2>3, <2>5
  <2> QED BY <1>t, <2>2, <2>4, <2>5, <2>6
<1>2. ASSUME jobs' = (jobs \ {j}) \cup {[j EXCEPT !.ready = TRUE]}
      PROVE  /\ jobs' \subseteq Tries
             /\ \A k \in jobs' : k \in jobs \/ k.row = j.row
             /\ \A k \in jobs : k = j \/ k \in jobs'
             /\ \E k \in jobs' : k.row = j.row
  <2> DEFINE seenIt == [j EXCEPT !.ready = TRUE]
  <2>1. seenIt \in Tries /\ seenIt.row = j.row BY <1>t DEF Tries
  <2>2. jobs' = (jobs \ {j}) \cup {seenIt} BY <1>2
  <2> HIDE DEF seenIt
  <2> QED BY <1>t, <2>1, <2>2
<1> QED BY <1>1, <1>2

(* An add draws an id that nothing else has, and the row starts unverified. *)
LEMMA FreshRow ==
  ASSUME DomainTypes, NEW h \in Hands, Domain!AddDomain(h)
  PROVE  /\ row' \in Choices /\ row' # token /\ row' # row
         /\ \A g \in Hands : claim[g].row # row'
         /\ \A j \in jobs : j.row # row'
         /\ row = None /\ ~verified' /\ ~ssl' /\ proof' /\ {verified', ssl', proof'} \subseteq BOOLEAN
         /\ UNCHANGED <<token, dns, attached, issued, jobs, muddled, stray, lost>>
BY DEF Domain!AddDomain, Domain!Fresh, Domain!Mine, Domain!history

(* A removal deletes its own row, or nothing. *)
LEMMA RowGone ==
  ASSUME DomainTypes, NEW h \in Hands, Domain!DeleteRow(h)
  PROVE  /\ \/ claim[h].row # row /\ UNCHANGED <<row, verified, ssl, proof, lost>>
            \/ claim[h].row = row /\ row' = None /\ ~verified' /\ ~ssl' /\ proof' /\ ~lost'
         /\ verified' \in BOOLEAN /\ ssl' \in BOOLEAN
         /\ claim[h].pc = "delete"
         /\ UNCHANGED <<token, dns, attached, issued, jobs, muddled, stray>>
BY DEF DomainTypes, Domain!DeleteRow, Domain!Mine, Domain!At, Domain!record

(* A verified row's request puts a job into the queue. *)
LEMMA JobNew ==
  ASSUME DomainTypes, NEW h \in Hands, Domain!EnqueueCheck(h)
  PROVE  /\ jobs \subseteq jobs' /\ jobs' \subseteq Tries
         /\ \E k \in jobs' : k.row = claim[h].row
         /\ \A k \in jobs' : k \in jobs \/ (k.row = claim[h].row /\ ~k.ready)
         /\ claim[h].pc = "enqueue"
         /\ UNCHANGED <<row, verified, ssl, proof, token, dns, attached, issued, muddled, stray, lost>>
<1> DEFINE new == [row |-> claim[h].row, left |-> Attempts, ready |-> FALSE]
<1>1. claim[h].pc = "enqueue" /\ claim[h].row \in Choices /\ jobs \subseteq Tries
  BY DEF DomainTypes, Domain!EnqueueCheck, Domain!At
<1>2. new \in Tries /\ new.row = claim[h].row /\ ~new.ready
  BY <1>1, DomainAssumption DEF Tries
<1>3. jobs' = jobs \cup {new} BY DEF Domain!EnqueueCheck, Domain!Mine
<1> HIDE DEF new
<1>4. UNCHANGED <<row, verified, ssl, proof, token, dns, attached, issued, muddled, stray, lost>>
  BY DEF Domain!EnqueueCheck, Domain!record, Domain!history
<1> QED BY <1>1, <1>2, <1>3, <1>4

(* Attaching fails and is lost, or succeeds; a removal it crosses is noted. *)
LEMMA Attaching ==
  ASSUME DomainTypes, NEW h \in Hands, Domain!AttachDomain(h)
  PROVE  /\ \/ lost' /\ UNCHANGED <<attached, stray>>
            \/ /\ attached' /\ UNCHANGED lost
               /\ stray => stray'
               /\ claim[h].row # row => stray'
               /\ \A g \in Hands : claim[g].row = row /\ claim[g].pc \in {"forget", "delete"} => stray'
         /\ {attached', stray', lost'} \subseteq BOOLEAN
         /\ claim[h].pc = "attach"
         /\ UNCHANGED <<row, verified, ssl, proof, token, dns, issued, jobs, muddled>>
<1>1. {attached, stray, lost} \subseteq BOOLEAN BY DEF DomainTypes
<1>2. (\E g \in Hands : claim[g].row = row /\ claim[g].pc \in {"forget", "delete"}) => Domain!Removing
  BY DEF Domain!Removing, Domain!Mine
<1>3. Domain!Removing \in BOOLEAN BY DEF Domain!Removing
<1> QED BY <1>1, <1>2, <1>3 DEF Domain!AttachDomain, Domain!Mine, Domain!At, Domain!record

(* Every step keeps the types. *)
LEMMA ClaimTypesKept ==
  ASSUME DomainTypes,
         [Domain!Next]_(Domain!domainVars)
  PROVE  DomainTypes'
<1> USE DomainAssumption DEF Domain!At, Domain!Mine, Domain!history, Domain!record, Moves, Stops, Others,
             Domain!Fresh, Domain!Removing
<1>t. /\ row \in Choices \cup {None} /\ token \in Choices \cup {None} /\ dns \in Choices \cup {None}
      /\ {verified, ssl, proof, attached, issued, muddled, stray, lost} \subseteq BOOLEAN
      /\ jobs \subseteq Tries /\ \A j \in jobs : j.row \in Choices
      /\ claim \in [Hands -> Claims]
      /\ \A h \in Hands : claim[h].pc # "idle" => claim[h].row \in Choices
  BY DEF DomainTypes, Tries
<1>1. ASSUME NEW h \in Hands, Domain!AddDomain(h) PROVE DomainTypes'
  BY <1>t, <1>1, ClaimGoes, FreshRow DEF DomainTypes
<1>2. ASSUME NEW h \in Hands, Domain!SetToken(h) PROVE DomainTypes'
  BY <1>t, <1>2, ClaimGoes DEF Domain!SetToken, DomainTypes
<1>3. ASSUME NEW h \in Hands, Domain!VerifyDomain(h) PROVE DomainTypes'
  BY <1>t, <1>3, ClaimGoes DEF Domain!VerifyDomain, DomainTypes
<1>4. ASSUME NEW h \in Hands, Domain!GetToken(h) PROVE DomainTypes'
  BY <1>t, <1>4, ClaimGoes DEF Domain!GetToken, DomainTypes
<1>5. ASSUME NEW h \in Hands, Domain!ResolveTxt(h) PROVE DomainTypes'
  BY <1>t, <1>5, ClaimGoes DEF Domain!ResolveTxt, DomainTypes
<1>6. ASSUME NEW h \in Hands, Domain!MarkVerified(h) PROVE DomainTypes'
  BY <1>t, <1>6, ClaimGoes DEF Domain!MarkVerified, DomainTypes
<1>7. ASSUME NEW h \in Hands, Domain!AttachDomain(h) PROVE DomainTypes'
  BY <1>t, <1>7, ClaimGoes, Attaching DEF DomainTypes
<1>8. ASSUME NEW h \in Hands, Domain!EnqueueCheck(h) PROVE DomainTypes'
  BY <1>t, <1>8, ClaimGoes, JobNew DEF DomainTypes
<1>9. ASSUME NEW h \in Hands, Domain!RemoveDomain(h) PROVE DomainTypes'
  BY <1>t, <1>9, ClaimGoes DEF Domain!RemoveDomain, DomainTypes
<1>10. ASSUME NEW h \in Hands, Domain!DetachDomain(h) PROVE DomainTypes'
  BY <1>t, <1>10, ClaimGoes DEF Domain!DetachDomain, DomainTypes
<1>11. ASSUME NEW h \in Hands, Domain!ForgetToken(h) PROVE DomainTypes'
  BY <1>t, <1>11, ClaimGoes DEF Domain!ForgetToken, DomainTypes
<1>12. ASSUME NEW h \in Hands, Domain!DeleteRow(h) PROVE DomainTypes'
  BY <1>t, <1>12, ClaimGoes DEF Domain!DeleteRow, DomainTypes
<1>13. ASSUME NEW h \in Hands, Domain!RequestDies(h) PROVE DomainTypes'
  BY <1>t, <1>13, ClaimGoes DEF Domain!RequestDies, DomainTypes
<1>14. ASSUME NEW j \in jobs, Domain!CheckCertificate(j) PROVE DomainTypes'
  BY <1>t, <1>14, JobsGo DEF Domain!CheckCertificate, DomainTypes
<1>15. ASSUME NEW j \in jobs, Domain!ProvisionSsl(j) PROVE DomainTypes'
  <2>1. CASE j.row = row
    BY <1>t, <1>15, <2>1 DEF Domain!ProvisionSsl, DomainTypes
  <2>2. CASE j.row # row
    BY <1>t, <1>15, <2>2, JobsGo DEF Domain!ProvisionSsl, DomainTypes
  <2> QED BY <2>1, <2>2
<1>16. ASSUME Domain!PublishTxt \/ Domain!IssueCertificate \/ Domain!TokenExpires \/ UNCHANGED Domain!domainVars
      PROVE  DomainTypes'
  <2>1. UNCHANGED <<row, verified, ssl, proof, attached, jobs, claim, muddled, stray, lost>>
    BY <1>16 DEF Domain!PublishTxt, Domain!IssueCertificate, Domain!TokenExpires, Domain!domainVars
  <2>2. dns' \in Choices \cup {None} /\ token' \in Choices \cup {None} /\ issued' \in BOOLEAN
    BY <1>t, <1>16 DEF Domain!PublishTxt, Domain!IssueCertificate, Domain!TokenExpires, Domain!domainVars, Claims
  <2> QED BY <1>t, <2>1, <2>2 DEF DomainTypes
<1> HIDE DEF Domain!At, Domain!Mine, Domain!history, Domain!record, Domain!Removing
<1> QED BY <1>1, <1>2, <1>3, <1>4, <1>5, <1>6, <1>7, <1>8, <1>9, <1>10, <1>11, <1>12, <1>13, <1>14, <1>15, <1>16 DEF Domain!Next

(* Only a verified row is worked on. *)
LEMMA WorkKept ==
  ASSUME DomainTypes, WorkIsVerified,
         [Domain!Next]_(Domain!domainVars)
  PROVE  WorkIsVerified'
<1> USE DomainAssumption DEF Domain!At, Domain!Mine, Domain!history, Domain!record, Moves, Stops, Others,
             Domain!Fresh, Domain!Removing
<1>t. /\ row \in Choices \cup {None} /\ token \in Choices \cup {None} /\ dns \in Choices \cup {None}
      /\ {verified, ssl, proof, attached, issued, muddled, stray, lost} \subseteq BOOLEAN
      /\ jobs \subseteq Tries /\ \A j \in jobs : j.row \in Choices
      /\ claim \in [Hands -> Claims]
      /\ \A h \in Hands : claim[h].pc # "idle" => claim[h].row \in Choices
  BY DEF DomainTypes, Tries
<1>1. ASSUME NEW h \in Hands, Domain!AddDomain(h) PROVE WorkIsVerified'
  BY <1>t, <1>1, ClaimGoes, FreshRow DEF WorkIsVerified
<1>2. ASSUME NEW h \in Hands, Domain!SetToken(h) PROVE WorkIsVerified'
  BY <1>t, <1>2, ClaimGoes DEF Domain!SetToken, WorkIsVerified
<1>3. ASSUME NEW h \in Hands, Domain!VerifyDomain(h) PROVE WorkIsVerified'
  BY <1>t, <1>3, ClaimGoes DEF Domain!VerifyDomain, WorkIsVerified
<1>4. ASSUME NEW h \in Hands, Domain!GetToken(h) PROVE WorkIsVerified'
  BY <1>t, <1>4, ClaimGoes DEF Domain!GetToken, WorkIsVerified
<1>5. ASSUME NEW h \in Hands, Domain!ResolveTxt(h) PROVE WorkIsVerified'
  BY <1>t, <1>5, ClaimGoes DEF Domain!ResolveTxt, WorkIsVerified
<1>6. ASSUME NEW h \in Hands, Domain!MarkVerified(h) PROVE WorkIsVerified'
  BY <1>t, <1>6, ClaimGoes DEF Domain!MarkVerified, WorkIsVerified
<1>7. ASSUME NEW h \in Hands, Domain!AttachDomain(h) PROVE WorkIsVerified'
  BY <1>t, <1>7, ClaimGoes, Attaching DEF WorkIsVerified
<1>8. ASSUME NEW h \in Hands, Domain!EnqueueCheck(h) PROVE WorkIsVerified'
  BY <1>t, <1>8, ClaimGoes, JobNew DEF WorkIsVerified
<1>9. ASSUME NEW h \in Hands, Domain!RemoveDomain(h) PROVE WorkIsVerified'
  BY <1>t, <1>9, ClaimGoes DEF Domain!RemoveDomain, WorkIsVerified
<1>10. ASSUME NEW h \in Hands, Domain!DetachDomain(h) PROVE WorkIsVerified'
  BY <1>t, <1>10, ClaimGoes DEF Domain!DetachDomain, WorkIsVerified
<1>11. ASSUME NEW h \in Hands, Domain!ForgetToken(h) PROVE WorkIsVerified'
  BY <1>t, <1>11, ClaimGoes DEF Domain!ForgetToken, WorkIsVerified
<1>12. ASSUME NEW h \in Hands, Domain!DeleteRow(h) PROVE WorkIsVerified'
  <2>1. CASE claim[h].row # row
    BY <1>t, <1>12, <2>1, ClaimGoes, RowGone DEF WorkIsVerified
  <2>2. CASE row' = None /\ ~verified' /\ ~ssl'
    <3>1. \A g \in Hands : claim'[g].row = None => claim'[g].pc = "idle"
      BY <1>t, <1>12, ClaimGoes
    <3>2. UNCHANGED jobs /\ \A j \in jobs : j.row # None BY <1>t, <1>12, RowGone
    <3> QED BY <2>2, <3>1, <3>2 DEF WorkIsVerified
  <2> QED BY <2>1, <2>2, <1>12, RowGone
<1>13. ASSUME NEW h \in Hands, Domain!RequestDies(h) PROVE WorkIsVerified'
  BY <1>t, <1>13, ClaimGoes DEF Domain!RequestDies, WorkIsVerified
<1>14. ASSUME NEW j \in jobs, Domain!CheckCertificate(j) PROVE WorkIsVerified'
  BY <1>t, <1>14, JobsGo DEF Domain!CheckCertificate, WorkIsVerified
<1>15. ASSUME NEW j \in jobs, Domain!ProvisionSsl(j) PROVE WorkIsVerified'
  <2>1. CASE j.row = row
    BY <1>t, <1>15, <2>1 DEF Domain!ProvisionSsl, WorkIsVerified
  <2>2. CASE j.row # row
    BY <1>t, <1>15, <2>2, JobsGo DEF Domain!ProvisionSsl, WorkIsVerified
  <2> QED BY <2>1, <2>2
<1>16. ASSUME Domain!PublishTxt \/ Domain!IssueCertificate \/ Domain!TokenExpires \/ UNCHANGED Domain!domainVars
      PROVE  WorkIsVerified'
  BY <1>t, <1>16 DEF Domain!PublishTxt, Domain!IssueCertificate, Domain!TokenExpires, Domain!domainVars, WorkIsVerified
<1> HIDE DEF Domain!At, Domain!Mine, Domain!history, Domain!record, Domain!Removing
<1> QED BY <1>1, <1>2, <1>3, <1>4, <1>5, <1>6, <1>7, <1>8, <1>9, <1>10, <1>11, <1>12, <1>13, <1>14, <1>15, <1>16 DEF Domain!Next

(* The key stays the present row's, and what is verified is so by its own record. *)
LEMMA KeyKept ==
  ASSUME DomainTypes, WorkIsVerified, KeyIsOwn, Domain!ProofIsOwn,
         [Domain!Next]_(Domain!domainVars)
  PROVE  KeyIsOwn' /\ Domain!ProofIsOwn'
<1> USE DomainAssumption DEF Domain!At, Domain!Mine, Domain!history, Domain!record, Moves, Stops, Others,
             Domain!Fresh, Domain!Removing
<1>t. /\ row \in Choices \cup {None} /\ token \in Choices \cup {None} /\ dns \in Choices \cup {None}
      /\ {verified, ssl, proof, attached, issued, muddled, stray, lost} \subseteq BOOLEAN
      /\ jobs \subseteq Tries /\ \A j \in jobs : j.row \in Choices
      /\ claim \in [Hands -> Claims]
      /\ \A h \in Hands : claim[h].pc # "idle" => claim[h].row \in Choices
  BY DEF DomainTypes, Tries
<1>1. ASSUME NEW h \in Hands, Domain!AddDomain(h) PROVE KeyIsOwn' /\ Domain!ProofIsOwn'
  BY <1>t, <1>1, ClaimGoes, FreshRow DEF KeyIsOwn, WorkIsVerified, Domain!ProofIsOwn
<1>2. ASSUME NEW h \in Hands, Domain!SetToken(h) PROVE KeyIsOwn' /\ Domain!ProofIsOwn'
  BY <1>t, <1>2, ClaimGoes DEF Domain!SetToken, KeyIsOwn, WorkIsVerified, Domain!ProofIsOwn
<1>3. ASSUME NEW h \in Hands, Domain!VerifyDomain(h) PROVE KeyIsOwn' /\ Domain!ProofIsOwn'
  BY <1>t, <1>3, ClaimGoes DEF Domain!VerifyDomain, KeyIsOwn, WorkIsVerified, Domain!ProofIsOwn
<1>4. ASSUME NEW h \in Hands, Domain!GetToken(h) PROVE KeyIsOwn' /\ Domain!ProofIsOwn'
  BY <1>t, <1>4, ClaimGoes DEF Domain!GetToken, KeyIsOwn, WorkIsVerified, Domain!ProofIsOwn
<1>5. ASSUME NEW h \in Hands, Domain!ResolveTxt(h) PROVE KeyIsOwn' /\ Domain!ProofIsOwn'
  BY <1>t, <1>5, ClaimGoes DEF Domain!ResolveTxt, KeyIsOwn, WorkIsVerified, Domain!ProofIsOwn
<1>6. ASSUME NEW h \in Hands, Domain!MarkVerified(h) PROVE KeyIsOwn' /\ Domain!ProofIsOwn'
  BY <1>t, <1>6, ClaimGoes DEF Domain!MarkVerified, KeyIsOwn, WorkIsVerified, Domain!ProofIsOwn
<1>7. ASSUME NEW h \in Hands, Domain!AttachDomain(h) PROVE KeyIsOwn' /\ Domain!ProofIsOwn'
  BY <1>t, <1>7, ClaimGoes, Attaching DEF KeyIsOwn, WorkIsVerified, Domain!ProofIsOwn
<1>8. ASSUME NEW h \in Hands, Domain!EnqueueCheck(h) PROVE KeyIsOwn' /\ Domain!ProofIsOwn'
  BY <1>t, <1>8, ClaimGoes, JobNew DEF KeyIsOwn, WorkIsVerified, Domain!ProofIsOwn
<1>9. ASSUME NEW h \in Hands, Domain!RemoveDomain(h) PROVE KeyIsOwn' /\ Domain!ProofIsOwn'
  BY <1>t, <1>9, ClaimGoes DEF Domain!RemoveDomain, KeyIsOwn, WorkIsVerified, Domain!ProofIsOwn
<1>10. ASSUME NEW h \in Hands, Domain!DetachDomain(h) PROVE KeyIsOwn' /\ Domain!ProofIsOwn'
  BY <1>t, <1>10, ClaimGoes DEF Domain!DetachDomain, KeyIsOwn, WorkIsVerified, Domain!ProofIsOwn
<1>11. ASSUME NEW h \in Hands, Domain!ForgetToken(h) PROVE KeyIsOwn' /\ Domain!ProofIsOwn'
  BY <1>t, <1>11, ClaimGoes DEF Domain!ForgetToken, KeyIsOwn, WorkIsVerified, Domain!ProofIsOwn
<1>12. ASSUME NEW h \in Hands, Domain!DeleteRow(h) PROVE KeyIsOwn' /\ Domain!ProofIsOwn'
  BY <1>t, <1>12, ClaimGoes, RowGone DEF KeyIsOwn, WorkIsVerified, Domain!ProofIsOwn
<1>13. ASSUME NEW h \in Hands, Domain!RequestDies(h) PROVE KeyIsOwn' /\ Domain!ProofIsOwn'
  BY <1>t, <1>13, ClaimGoes DEF Domain!RequestDies, KeyIsOwn, WorkIsVerified, Domain!ProofIsOwn
<1>14. ASSUME NEW j \in jobs, Domain!CheckCertificate(j) PROVE KeyIsOwn' /\ Domain!ProofIsOwn'
  BY <1>t, <1>14, JobsGo DEF Domain!CheckCertificate, KeyIsOwn, WorkIsVerified, Domain!ProofIsOwn
<1>15. ASSUME NEW j \in jobs, Domain!ProvisionSsl(j) PROVE KeyIsOwn' /\ Domain!ProofIsOwn'
  <2>1. CASE j.row = row
    BY <1>t, <1>15, <2>1 DEF Domain!ProvisionSsl, KeyIsOwn, WorkIsVerified, Domain!ProofIsOwn
  <2>2. CASE j.row # row
    BY <1>t, <1>15, <2>2, JobsGo DEF Domain!ProvisionSsl, KeyIsOwn, WorkIsVerified, Domain!ProofIsOwn
  <2> QED BY <2>1, <2>2
<1>16. ASSUME Domain!PublishTxt \/ Domain!IssueCertificate \/ Domain!TokenExpires \/ UNCHANGED Domain!domainVars
      PROVE  KeyIsOwn' /\ Domain!ProofIsOwn'
  BY <1>t, <1>16 DEF Domain!PublishTxt, Domain!IssueCertificate, Domain!TokenExpires, Domain!domainVars, KeyIsOwn, WorkIsVerified, Domain!ProofIsOwn
<1> HIDE DEF Domain!At, Domain!Mine, Domain!history, Domain!record, Domain!Removing
<1> QED BY <1>1, <1>2, <1>3, <1>4, <1>5, <1>6, <1>7, <1>8, <1>9, <1>10, <1>11, <1>12, <1>13, <1>14, <1>15, <1>16 DEF Domain!Next

(* The name is attached only for a verified row. *)
LEMMA DetachedKept ==
  ASSUME DomainTypes, WorkIsVerified, RemovedIsDetached, Domain!AttachedIsVerified,
         [Domain!Next]_(Domain!domainVars)
  PROVE  RemovedIsDetached' /\ Domain!AttachedIsVerified'
<1> USE DomainAssumption DEF Domain!At, Domain!Mine, Domain!history, Domain!record, Moves, Stops, Others,
             Domain!Fresh, Domain!Removing
<1>t. /\ row \in Choices \cup {None} /\ token \in Choices \cup {None} /\ dns \in Choices \cup {None}
      /\ {verified, ssl, proof, attached, issued, muddled, stray, lost} \subseteq BOOLEAN
      /\ jobs \subseteq Tries /\ \A j \in jobs : j.row \in Choices
      /\ claim \in [Hands -> Claims]
      /\ \A h \in Hands : claim[h].pc # "idle" => claim[h].row \in Choices
  BY DEF DomainTypes, Tries
<1>1. ASSUME NEW h \in Hands, Domain!AddDomain(h) PROVE RemovedIsDetached' /\ Domain!AttachedIsVerified'
  BY <1>t, <1>1, ClaimGoes, FreshRow DEF RemovedIsDetached, WorkIsVerified, Domain!AttachedIsVerified
<1>2. ASSUME NEW h \in Hands, Domain!SetToken(h) PROVE RemovedIsDetached' /\ Domain!AttachedIsVerified'
  BY <1>t, <1>2, ClaimGoes DEF Domain!SetToken, RemovedIsDetached, WorkIsVerified, Domain!AttachedIsVerified
<1>3. ASSUME NEW h \in Hands, Domain!VerifyDomain(h) PROVE RemovedIsDetached' /\ Domain!AttachedIsVerified'
  BY <1>t, <1>3, ClaimGoes DEF Domain!VerifyDomain, RemovedIsDetached, WorkIsVerified, Domain!AttachedIsVerified
<1>4. ASSUME NEW h \in Hands, Domain!GetToken(h) PROVE RemovedIsDetached' /\ Domain!AttachedIsVerified'
  BY <1>t, <1>4, ClaimGoes DEF Domain!GetToken, RemovedIsDetached, WorkIsVerified, Domain!AttachedIsVerified
<1>5. ASSUME NEW h \in Hands, Domain!ResolveTxt(h) PROVE RemovedIsDetached' /\ Domain!AttachedIsVerified'
  BY <1>t, <1>5, ClaimGoes DEF Domain!ResolveTxt, RemovedIsDetached, WorkIsVerified, Domain!AttachedIsVerified
<1>6. ASSUME NEW h \in Hands, Domain!MarkVerified(h) PROVE RemovedIsDetached' /\ Domain!AttachedIsVerified'
  BY <1>t, <1>6, ClaimGoes DEF Domain!MarkVerified, RemovedIsDetached, WorkIsVerified, Domain!AttachedIsVerified
<1>7. ASSUME NEW h \in Hands, Domain!AttachDomain(h) PROVE RemovedIsDetached' /\ Domain!AttachedIsVerified'
  BY <1>t, <1>7, ClaimGoes, Attaching DEF RemovedIsDetached, WorkIsVerified, Domain!AttachedIsVerified
<1>8. ASSUME NEW h \in Hands, Domain!EnqueueCheck(h) PROVE RemovedIsDetached' /\ Domain!AttachedIsVerified'
  BY <1>t, <1>8, ClaimGoes, JobNew DEF RemovedIsDetached, WorkIsVerified, Domain!AttachedIsVerified
<1>9. ASSUME NEW h \in Hands, Domain!RemoveDomain(h) PROVE RemovedIsDetached' /\ Domain!AttachedIsVerified'
  BY <1>t, <1>9, ClaimGoes DEF Domain!RemoveDomain, RemovedIsDetached, WorkIsVerified, Domain!AttachedIsVerified
<1>10. ASSUME NEW h \in Hands, Domain!DetachDomain(h) PROVE RemovedIsDetached' /\ Domain!AttachedIsVerified'
  BY <1>t, <1>10, ClaimGoes DEF Domain!DetachDomain, RemovedIsDetached, WorkIsVerified, Domain!AttachedIsVerified
<1>11. ASSUME NEW h \in Hands, Domain!ForgetToken(h) PROVE RemovedIsDetached' /\ Domain!AttachedIsVerified'
  BY <1>t, <1>11, ClaimGoes DEF Domain!ForgetToken, RemovedIsDetached, WorkIsVerified, Domain!AttachedIsVerified
<1>12. ASSUME NEW h \in Hands, Domain!DeleteRow(h) PROVE RemovedIsDetached' /\ Domain!AttachedIsVerified'
  BY <1>t, <1>12, ClaimGoes, RowGone DEF RemovedIsDetached, WorkIsVerified, Domain!AttachedIsVerified
<1>13. ASSUME NEW h \in Hands, Domain!RequestDies(h) PROVE RemovedIsDetached' /\ Domain!AttachedIsVerified'
  BY <1>t, <1>13, ClaimGoes DEF Domain!RequestDies, RemovedIsDetached, WorkIsVerified, Domain!AttachedIsVerified
<1>14. ASSUME NEW j \in jobs, Domain!CheckCertificate(j) PROVE RemovedIsDetached' /\ Domain!AttachedIsVerified'
  BY <1>t, <1>14, JobsGo DEF Domain!CheckCertificate, RemovedIsDetached, WorkIsVerified, Domain!AttachedIsVerified
<1>15. ASSUME NEW j \in jobs, Domain!ProvisionSsl(j) PROVE RemovedIsDetached' /\ Domain!AttachedIsVerified'
  <2>1. CASE j.row = row
    BY <1>t, <1>15, <2>1 DEF Domain!ProvisionSsl, RemovedIsDetached, WorkIsVerified, Domain!AttachedIsVerified
  <2>2. CASE j.row # row
    BY <1>t, <1>15, <2>2, JobsGo DEF Domain!ProvisionSsl, RemovedIsDetached, WorkIsVerified, Domain!AttachedIsVerified
  <2> QED BY <2>1, <2>2
<1>16. ASSUME Domain!PublishTxt \/ Domain!IssueCertificate \/ Domain!TokenExpires \/ UNCHANGED Domain!domainVars
      PROVE  RemovedIsDetached' /\ Domain!AttachedIsVerified'
  BY <1>t, <1>16 DEF Domain!PublishTxt, Domain!IssueCertificate, Domain!TokenExpires, Domain!domainVars, RemovedIsDetached, WorkIsVerified, Domain!AttachedIsVerified
<1> HIDE DEF Domain!At, Domain!Mine, Domain!history, Domain!record, Domain!Removing
<1> QED BY <1>1, <1>2, <1>3, <1>4, <1>5, <1>6, <1>7, <1>8, <1>9, <1>10, <1>11, <1>12, <1>13, <1>14, <1>15, <1>16 DEF Domain!Next

(* A live row has its certificate, and one that waits has somebody who works on it. *)
LEMMA ChecksKept ==
  ASSUME DomainTypes, WorkIsVerified, ChecksAreSound, Domain!LiveIsAttached, Domain!CertificateIsAwaited,
         [Domain!Next]_(Domain!domainVars)
  PROVE  ChecksAreSound' /\ Domain!LiveIsAttached' /\ Domain!CertificateIsAwaited'
<1> USE DomainAssumption DEF Domain!At, Domain!Mine, Domain!history, Domain!record, Moves, Stops, Others,
             Domain!Fresh, Domain!Removing
<1>t. /\ row \in Choices \cup {None} /\ token \in Choices \cup {None} /\ dns \in Choices \cup {None}
      /\ {verified, ssl, proof, attached, issued, muddled, stray, lost} \subseteq BOOLEAN
      /\ jobs \subseteq Tries /\ \A j \in jobs : j.row \in Choices
      /\ claim \in [Hands -> Claims]
      /\ \A h \in Hands : claim[h].pc # "idle" => claim[h].row \in Choices
  BY DEF DomainTypes, Tries
<1>1. ASSUME NEW h \in Hands, Domain!AddDomain(h) PROVE ChecksAreSound' /\ Domain!LiveIsAttached' /\ Domain!CertificateIsAwaited'
  BY <1>t, <1>1, ClaimGoes, FreshRow DEF WorkIsVerified, ChecksAreSound, Domain!LiveIsAttached, Domain!CertificateIsAwaited
<1>2. ASSUME NEW h \in Hands, Domain!SetToken(h) PROVE ChecksAreSound' /\ Domain!LiveIsAttached' /\ Domain!CertificateIsAwaited'
  BY <1>t, <1>2, ClaimGoes DEF Domain!SetToken, WorkIsVerified, ChecksAreSound, Domain!LiveIsAttached, Domain!CertificateIsAwaited
<1>3. ASSUME NEW h \in Hands, Domain!VerifyDomain(h) PROVE ChecksAreSound' /\ Domain!LiveIsAttached' /\ Domain!CertificateIsAwaited'
  BY <1>t, <1>3, ClaimGoes DEF Domain!VerifyDomain, WorkIsVerified, ChecksAreSound, Domain!LiveIsAttached, Domain!CertificateIsAwaited
<1>4. ASSUME NEW h \in Hands, Domain!GetToken(h) PROVE ChecksAreSound' /\ Domain!LiveIsAttached' /\ Domain!CertificateIsAwaited'
  BY <1>t, <1>4, ClaimGoes DEF Domain!GetToken, WorkIsVerified, ChecksAreSound, Domain!LiveIsAttached, Domain!CertificateIsAwaited
<1>5. ASSUME NEW h \in Hands, Domain!ResolveTxt(h) PROVE ChecksAreSound' /\ Domain!LiveIsAttached' /\ Domain!CertificateIsAwaited'
  BY <1>t, <1>5, ClaimGoes DEF Domain!ResolveTxt, WorkIsVerified, ChecksAreSound, Domain!LiveIsAttached, Domain!CertificateIsAwaited
<1>6. ASSUME NEW h \in Hands, Domain!MarkVerified(h) PROVE ChecksAreSound' /\ Domain!LiveIsAttached' /\ Domain!CertificateIsAwaited'
  BY <1>t, <1>6, ClaimGoes DEF Domain!MarkVerified, WorkIsVerified, ChecksAreSound, Domain!LiveIsAttached, Domain!CertificateIsAwaited
<1>7. ASSUME NEW h \in Hands, Domain!AttachDomain(h) PROVE ChecksAreSound' /\ Domain!LiveIsAttached' /\ Domain!CertificateIsAwaited'
  <2>1. CASE lost'
    BY <1>t, <1>7, <2>1, ClaimGoes, Attaching DEF WorkIsVerified, ChecksAreSound, Domain!LiveIsAttached, Domain!CertificateIsAwaited
  <2>2. CASE attached' /\ UNCHANGED lost
    BY <1>t, <1>7, <2>2, ClaimGoes, Attaching DEF WorkIsVerified, ChecksAreSound, Domain!LiveIsAttached, Domain!CertificateIsAwaited
  <2> QED BY <2>1, <2>2, <1>7, Attaching
<1>8. ASSUME NEW h \in Hands, Domain!EnqueueCheck(h) PROVE ChecksAreSound' /\ Domain!LiveIsAttached' /\ Domain!CertificateIsAwaited'
  BY <1>t, <1>8, ClaimGoes, JobNew DEF WorkIsVerified, ChecksAreSound, Domain!LiveIsAttached, Domain!CertificateIsAwaited
<1>9. ASSUME NEW h \in Hands, Domain!RemoveDomain(h) PROVE ChecksAreSound' /\ Domain!LiveIsAttached' /\ Domain!CertificateIsAwaited'
  BY <1>t, <1>9, ClaimGoes DEF Domain!RemoveDomain, WorkIsVerified, ChecksAreSound, Domain!LiveIsAttached, Domain!CertificateIsAwaited
<1>10. ASSUME NEW h \in Hands, Domain!DetachDomain(h) PROVE ChecksAreSound' /\ Domain!LiveIsAttached' /\ Domain!CertificateIsAwaited'
  BY <1>t, <1>10, ClaimGoes DEF Domain!DetachDomain, WorkIsVerified, ChecksAreSound, Domain!LiveIsAttached, Domain!CertificateIsAwaited
<1>11. ASSUME NEW h \in Hands, Domain!ForgetToken(h) PROVE ChecksAreSound' /\ Domain!LiveIsAttached' /\ Domain!CertificateIsAwaited'
  BY <1>t, <1>11, ClaimGoes DEF Domain!ForgetToken, WorkIsVerified, ChecksAreSound, Domain!LiveIsAttached, Domain!CertificateIsAwaited
<1>12. ASSUME NEW h \in Hands, Domain!DeleteRow(h) PROVE ChecksAreSound' /\ Domain!LiveIsAttached' /\ Domain!CertificateIsAwaited'
  <2>1. CASE claim[h].row # row
    BY <1>t, <1>12, <2>1, ClaimGoes, RowGone DEF WorkIsVerified, ChecksAreSound, Domain!LiveIsAttached, Domain!CertificateIsAwaited
  <2>2. CASE row' = None /\ ~verified' /\ ~ssl'
    <3>1. \A g \in Hands : claim'[g].row = None => claim'[g].pc = "idle"
      BY <1>t, <1>12, ClaimGoes
    <3>2. UNCHANGED jobs /\ \A j \in jobs : j.row # None BY <1>t, <1>12, RowGone
    <3> QED BY <2>2, <3>1, <3>2 DEF WorkIsVerified, ChecksAreSound, Domain!LiveIsAttached, Domain!CertificateIsAwaited
  <2> QED BY <2>1, <2>2, <1>12, RowGone
<1>13. ASSUME NEW h \in Hands, Domain!RequestDies(h) PROVE ChecksAreSound' /\ Domain!LiveIsAttached' /\ Domain!CertificateIsAwaited'
  BY <1>t, <1>13, ClaimGoes DEF Domain!RequestDies, WorkIsVerified, ChecksAreSound, Domain!LiveIsAttached, Domain!CertificateIsAwaited
<1>14. ASSUME NEW j \in jobs, Domain!CheckCertificate(j) PROVE ChecksAreSound' /\ Domain!LiveIsAttached' /\ Domain!CertificateIsAwaited'
  BY <1>t, <1>14, JobsGo DEF Domain!CheckCertificate, WorkIsVerified, ChecksAreSound, Domain!LiveIsAttached, Domain!CertificateIsAwaited
<1>15. ASSUME NEW j \in jobs, Domain!ProvisionSsl(j) PROVE ChecksAreSound' /\ Domain!LiveIsAttached' /\ Domain!CertificateIsAwaited'
  <2>1. CASE j.row = row
    BY <1>t, <1>15, <2>1 DEF Domain!ProvisionSsl, WorkIsVerified, ChecksAreSound, Domain!LiveIsAttached, Domain!CertificateIsAwaited
  <2>2. CASE j.row # row
    BY <1>t, <1>15, <2>2, JobsGo DEF Domain!ProvisionSsl, WorkIsVerified, ChecksAreSound, Domain!LiveIsAttached, Domain!CertificateIsAwaited
  <2> QED BY <2>1, <2>2
<1>16. ASSUME Domain!PublishTxt \/ Domain!IssueCertificate \/ Domain!TokenExpires \/ UNCHANGED Domain!domainVars
      PROVE  ChecksAreSound' /\ Domain!LiveIsAttached' /\ Domain!CertificateIsAwaited'
  BY <1>t, <1>16 DEF Domain!PublishTxt, Domain!IssueCertificate, Domain!TokenExpires, Domain!domainVars, WorkIsVerified, ChecksAreSound, Domain!LiveIsAttached, Domain!CertificateIsAwaited
<1> HIDE DEF Domain!At, Domain!Mine, Domain!history, Domain!record, Domain!Removing
<1> QED BY <1>1, <1>2, <1>3, <1>4, <1>5, <1>6, <1>7, <1>8, <1>9, <1>10, <1>11, <1>12, <1>13, <1>14, <1>15, <1>16 DEF Domain!Next

(* A verified domain is verified by its own record, served only then, shown as
   live only with its certificate, and somebody looks for a missing one. *)
THEOREM DomainCorrect ==
  Domain!Spec => [](Domain!TypeOK /\ Domain!DomainIsProven /\ Domain!CertificateIsAwaited)
<1>1. Domain!Init => DomainInv
  <2> SUFFICES ASSUME Domain!Init PROVE DomainInv OBVIOUS
  <2>1. Domain!Idle \in Claims /\ Domain!Idle.pc = "idle" /\ Domain!Idle.row = None
    BY DEF Domain!Idle, Claims, ClaimSteps
  <2>2. claim \in [Hands -> Claims] /\ \A h \in Hands : claim[h].pc = "idle"
    BY <2>1 DEF Domain!Init
  <2>3. DomainTypes BY <2>2 DEF Domain!Init, DomainTypes
  <2>4. WorkIsVerified /\ KeyIsOwn /\ RemovedIsDetached /\ ChecksAreSound
    BY <2>2 DEF Domain!Init, WorkIsVerified, KeyIsOwn, RemovedIsDetached, ChecksAreSound
  <2>5. Domain!DomainIsProven /\ Domain!CertificateIsAwaited
    BY DEF Domain!Init, Domain!DomainIsProven, Domain!ProofIsOwn, Domain!AttachedIsVerified,
           Domain!LiveIsAttached, Domain!CertificateIsAwaited
  <2> QED BY <2>3, <2>4, <2>5 DEF DomainInv
<1>2. DomainInv /\ [Domain!Next]_(Domain!domainVars) => DomainInv'
  BY ClaimTypesKept, WorkKept, KeyKept, DetachedKept, ChecksKept DEF DomainInv, Domain!DomainIsProven
<1>3. DomainInv => Domain!TypeOK /\ Domain!DomainIsProven /\ Domain!CertificateIsAwaited
  BY DEF DomainInv, DomainTypes, WorkIsVerified, Domain!TypeOK, Tries, Claims, ClaimSteps
<1> QED BY <1>1, <1>2, <1>3, PTL DEF Domain!Spec

-----------------------------------------------------------------------------
(* Staff: one address, its user, its membership and its links (company.service.ts, auth.service.ts). *)

(* The steps of a request; what a request knows; what a membership is. *)
TaskSteps == {"idle", "register", "change", "remove", "send"} \cup Staff!Inviting \cup Staff!Resetting
Tasks   == [pc : TaskSteps, role : Choices \cup {None}, places : {None} \cup SUBSET Places,
            new : BOOLEAN, link : Choices \cup {None}]
Members == [status : {"none", "invited", "inactive"}, role : Choices \cup {None}, places : SUBSET Places]

(* Types. *)
StaffTypes ==
  /\ secret \in {None, "random", "chosen"}
  /\ {owner, told, overlap, roleCrossed} \subseteq BOOLEAN
  /\ member \in Members
  /\ links \subseteq Choices /\ loose \subseteq Choices
  /\ task \in [Hands -> Tasks]
  /\ asked \in Choices \cup {None}
  /\ spent \in [once : SUBSET Choices, again : SUBSET Choices]

(* A membership is a user's, with a role; who owns a company has chosen the password. *)
MemberIsUser ==
  /\ member = Staff!Nobody \/ (member.status # "none" /\ member.role \in Choices /\ secret # None)
  /\ owner => secret = "chosen"

(* What every request that is under way may rely on. *)
TasksAreSound ==
  \A h \in Hands :
    /\ task[h].pc = "create" => task[h].new
    /\ task[h].pc \in Staff!Inviting => task[h].role \in Choices /\ task[h].places \in SUBSET Places
    /\ task[h].pc \in Staff!Inviting \ {"create"} => secret # None
    /\ task[h].pc = "mail" /\ task[h].new => task[h].link \in Choices
    /\ task[h].pc \in {"change", "remove"} => member # Staff!Nobody
    /\ task[h].pc = "change" => task[h].role \in Choices
    /\ task[h].pc \in Staff!Resetting => task[h].link \in Choices

(* A link that was used is about to be deleted, or known to be loose. *)
LinksAreWatched ==
  /\ spent.again \subseteq loose
  /\ \A l \in links : l \in spent.once =>
       l \in loose \/ \E g \in Hands : task[g].pc = "delete" /\ task[g].link = l
  /\ \A h \in Hands : task[h].pc = "write" /\ task[h].link \in spent.once => task[h].link \in loose
  /\ \A g, h \in Hands : /\ task[g].pc \in Staff!Resetting /\ task[h].pc \in Staff!Resetting
                         /\ task[g].link = task[h].link
                         => g = h \/ task[h].link \in loose

(* One invitation at a time: the one that made the user is still on its way until its mail is queued. *)
InvitationGoesOn ==
  ~overlap =>
    /\ \A g, h \in Hands : task[g].pc \in Staff!Inviting /\ task[h].pc \in Staff!Inviting => g = h
    /\ secret = "random" /\ ~told =>
         \E h \in Hands : /\ task[h].new
                          /\ \/ task[h].pc \in {"member", "insert"} /\ member = Staff!Nobody
                             \/ task[h].pc \in {"link", "mail"}

(* An update that keeps the role is about to write the one the row has. *)
RoleIsKept ==
  ~roleCrossed =>
    /\ member # Staff!Nobody => member.role = asked
    /\ \A h \in Hands : task[h].pc = "change" /\ ~task[h].new => task[h].role = member.role

(* The inductive invariant. *)
StaffInv ==
  StaffTypes /\ MemberIsUser /\ TasksAreSound /\ LinksAreWatched /\ InvitationGoesOn /\ RoleIsKept

(* The other requests stand still; request h goes to pc and keeps what it knows; request h is over. *)
OtherTasks(h) ==
  /\ task' \in [Hands -> Tasks]
  /\ \A g \in Hands \ {h} : task'[g] = task[g]
Keeps(h, pc) ==
  /\ OtherTasks(h) /\ task'[h].pc = pc
  /\ task'[h].role = task[h].role /\ task'[h].places = task[h].places
  /\ task'[h].new = task[h].new /\ task'[h].link = task[h].link
Rests(h) == OtherTasks(h) /\ task'[h].pc = "idle" /\ ~task'[h].new /\ task'[h].link = None

(* A request may be replaced by one of the right type. *)
LEMMA TaskReplaced ==
  ASSUME StaffTypes, NEW h \in Hands, NEW d \in Tasks, task' = [task EXCEPT ![h] = d]
  PROVE  OtherTasks(h) /\ task'[h] = d
BY DEF StaffTypes, OtherTasks

(* Where every step of a request leads. *)
LEMMA TaskGoes ==
  ASSUME StaffTypes, MemberIsUser, NEW h \in Hands
  PROVE  /\ Staff!RegisterStep(h) =>
              \/ task[h].pc = "idle" /\ Keeps(h, "register") /\ UNCHANGED <<secret, owner>>
              \/ task[h].pc = "register" /\ Rests(h)
         /\ Staff!Invite(h) =>
              /\ OtherTasks(h) /\ task'[h].pc = IF secret = None THEN "create" ELSE "member"
              /\ task'[h].role \in Choices /\ task'[h].places \in SUBSET Places
              /\ task'[h].new = (secret = None) /\ task'[h].link = None
         /\ Staff!CreateUser(h) => (secret = None /\ Keeps(h, "member")) \/ (secret # None /\ Rests(h))
         /\ Staff!FindMember(h) =>
              \/ member.status = "none" /\ Keeps(h, "insert")
              \/ member.status = "inactive" /\ Keeps(h, "update")
              \/ member.status = "invited" /\ Rests(h)
         /\ Staff!CommitMember(h) =>
              \/ task[h].pc = "insert" /\ member # Staff!Nobody /\ Rests(h)
              \/ /\ task[h].pc = "insert" => member = Staff!Nobody
                 /\ Keeps(h, IF task[h].new THEN "link" ELSE "mail")
         /\ Staff!SetLink(h) =>
              /\ OtherTasks(h) /\ task'[h].pc = "mail" /\ task'[h].link \in Staff!Unused
              /\ task'[h].role = task[h].role /\ task'[h].places = task[h].places
              /\ task'[h].new = task[h].new /\ links' = links \cup {task'[h].link}
         /\ Staff!QueueInvite(h) => Rests(h)
         /\ Staff!UpdateMember(h) =>
              /\ OtherTasks(h) /\ task'[h].pc = "change" /\ task'[h].role \in Choices
              /\ task'[h].new \/ task'[h].role = member.role
         /\ Staff!CommitUpdate(h) => Rests(h)
         /\ Staff!RemoveMember(h) =>
              \/ task[h].pc = "idle" /\ member # Staff!Nobody /\ Keeps(h, "remove") /\ UNCHANGED member
              \/ task[h].pc = "remove" /\ Rests(h)
         /\ Staff!ForgotPassword(h) =>
              \/ task[h].pc = "idle" /\ Keeps(h, "send") /\ UNCHANGED links
              \/ task[h].pc = "send" /\ Rests(h)
         /\ Staff!GetLink(h) =>
              /\ OtherTasks(h) /\ task'[h].pc = "write" /\ task'[h].link \in links /\ ~task'[h].new
              /\ loose' \subseteq loose \cup {task'[h].link} /\ loose \subseteq loose'
              /\ \A g \in Hands : task[g].pc \in Staff!Resetting /\ task[g].link = task'[h].link =>
                   task'[h].link \in loose'
         /\ Staff!WritePassword(h) => Keeps(h, "delete")
         /\ Staff!DeleteLink(h) => Rests(h)
         /\ Staff!RequestDies(h) => Rests(h)
<1> USE DEF Staff!At, Staff!To, Staff!Ends
<1>t. /\ task[h] \in Tasks /\ task \in [Hands -> Tasks] /\ member \in Members
      /\ secret \in {None, "random", "chosen"} /\ links \subseteq Choices
  BY DEF StaffTypes
<1>c. {"idle", "register", "change", "remove", "send", "create", "member", "insert", "update", "link", "mail",
       "write", "delete"} \subseteq TaskSteps
  BY DEF TaskSteps, Staff!Inviting, Staff!Resetting
<1>k. ASSUME NEW pc \in TaskSteps, task' = [task EXCEPT ![h].pc = pc] PROVE Keeps(h, pc)
  <2> DEFINE d == [task[h] EXCEPT !.pc = pc]
  <2>1. /\ d \in Tasks /\ d.pc = pc /\ d.role = task[h].role /\ d.places = task[h].places
        /\ d.new = task[h].new /\ d.link = task[h].link
    BY <1>t DEF Tasks
  <2>2. task' = [task EXCEPT ![h] = d] BY <1>k, <1>t
  <2> HIDE DEF d
  <2> QED BY <2>1, <2>2, TaskReplaced DEF Keeps
<1>e. ASSUME task' = [task EXCEPT ![h] = Staff!Idle] PROVE Rests(h)
  <2>1. /\ Staff!Idle \in Tasks /\ Staff!Idle.pc = "idle" /\ ~Staff!Idle.new /\ Staff!Idle.link = None
    BY <1>c DEF Staff!Idle, Tasks
  <2> QED BY <1>e, <2>1, TaskReplaced DEF Rests
<1>1. ASSUME Staff!RegisterStep(h)
      PROVE  \/ task[h].pc = "idle" /\ Keeps(h, "register") /\ UNCHANGED <<secret, owner>>
             \/ task[h].pc = "register" /\ Rests(h)
  BY <1>1, <1>c, <1>k, <1>e DEF Staff!RegisterStep, Staff!Register
<1>2. ASSUME Staff!Invite(h)
      PROVE  /\ OtherTasks(h) /\ task'[h].pc = IF secret = None THEN "create" ELSE "member"
             /\ task'[h].role \in Choices /\ task'[h].places \in SUBSET Places
             /\ task'[h].new = (secret = None) /\ task'[h].link = None
  <2>1. PICK r \in Choices, ps \in SUBSET Places :
          task' = [task EXCEPT ![h] = [pc |-> IF secret = None THEN "create" ELSE "member", role |-> r,
                                       places |-> ps, new |-> secret = None, link |-> None]]
    BY <1>2 DEF Staff!Invite
  <2> DEFINE step == IF secret = None THEN "create" ELSE "member"
             new == secret = None
             d == [pc |-> step, role |-> r, places |-> ps, new |-> new, link |-> None]
  <2>2. step \in TaskSteps /\ new \in BOOLEAN BY <1>c
  <2>3. task' = [task EXCEPT ![h] = d] BY <2>1
  <2>4. step = (IF secret = None THEN "create" ELSE "member") /\ new = (secret = None) OBVIOUS
  <2> HIDE DEF step, new
  <2>5. /\ d \in Tasks /\ d.pc = step /\ d.role = r /\ d.places = ps /\ d.new = new /\ d.link = None
    BY <2>2 DEF Tasks
  <2> HIDE DEF d
  <2>6. OtherTasks(h) /\ task'[h] = d BY <2>3, <2>5, TaskReplaced
  <2> QED BY <2>4, <2>5, <2>6
<1>3. ASSUME Staff!CreateUser(h)
      PROVE  (secret = None /\ Keeps(h, "member")) \/ (secret # None /\ Rests(h))
  BY <1>3, <1>c, <1>k, <1>e DEF Staff!CreateUser
<1>4. ASSUME Staff!FindMember(h)
      PROVE  \/ member.status = "none" /\ Keeps(h, "insert")
             \/ member.status = "inactive" /\ Keeps(h, "update")
             \/ member.status = "invited" /\ Rests(h)
  <2>1. \/ member.status = "none" /\ task' = [task EXCEPT ![h].pc = "insert"]
        \/ member.status = "inactive" /\ task' = [task EXCEPT ![h].pc = "update"]
        \/ member.status = "invited" /\ task' = [task EXCEPT ![h] = Staff!Idle]
    BY <1>4, <1>t DEF Staff!FindMember, Members
  <2> QED BY <2>1, <1>c, <1>k, <1>e
<1>5. ASSUME Staff!CommitMember(h)
      PROVE  \/ task[h].pc = "insert" /\ member # Staff!Nobody /\ Rests(h)
             \/ /\ task[h].pc = "insert" => member = Staff!Nobody
                /\ Keeps(h, IF task[h].new THEN "link" ELSE "mail")
  <2>1. (IF task[h].new THEN "link" ELSE "mail") \in TaskSteps BY <1>c
  <2>2. CASE task[h].pc = "insert" /\ member # Staff!Nobody
    BY <1>5, <2>2, <1>e DEF Staff!CommitMember
  <2>3. CASE ~(task[h].pc = "insert" /\ member # Staff!Nobody)
    <3>1. task' = [task EXCEPT ![h].pc = IF task[h].new THEN "link" ELSE "mail"]
      BY <1>5, <2>3 DEF Staff!CommitMember
    <3> QED BY <2>1, <2>3, <3>1, <1>k
  <2> QED BY <2>2, <2>3
<1>6. ASSUME Staff!SetLink(h)
      PROVE  /\ OtherTasks(h) /\ task'[h].pc = "mail" /\ task'[h].link \in Staff!Unused
             /\ task'[h].role = task[h].role /\ task'[h].places = task[h].places
             /\ task'[h].new = task[h].new /\ links' = links \cup {task'[h].link}
  <2>1. PICK l \in Staff!Unused :
          links' = links \cup {l} /\ task' = [task EXCEPT ![h].pc = "mail", ![h].link = l]
    BY <1>6 DEF Staff!SetLink
  <2> DEFINE d == [task[h] EXCEPT !.pc = "mail", !.link = l]
  <2>2. l \in Choices BY DEF Staff!Unused
  <2>3. /\ d \in Tasks /\ d.pc = "mail" /\ d.role = task[h].role /\ d.places = task[h].places
        /\ d.new = task[h].new /\ d.link = l
    BY <1>t, <1>c, <2>2 DEF Tasks
  <2>4. task' = [task EXCEPT ![h] = d] BY <2>1, <1>t
  <2> HIDE DEF d
  <2>5. OtherTasks(h) /\ task'[h] = d BY <2>3, <2>4, TaskReplaced
  <2> QED BY <2>1, <2>3, <2>5
<1>7. ASSUME Staff!QueueInvite(h) PROVE Rests(h) BY <1>7, <1>e DEF Staff!QueueInvite
<1>8. ASSUME Staff!UpdateMember(h)
      PROVE  /\ OtherTasks(h) /\ task'[h].pc = "change" /\ task'[h].role \in Choices
             /\ task'[h].new \/ task'[h].role = member.role
  <2>1. PICK r \in Choices \cup {None}, ps \in {None} \cup SUBSET Places :
          task' = [task EXCEPT ![h] = [Staff!Idle EXCEPT !.pc = "change", !.places = ps,
                                         !.role = IF r = None THEN member.role ELSE r, !.new = (r # None)]]
    BY <1>8 DEF Staff!UpdateMember
  <2> DEFINE role == IF r = None THEN member.role ELSE r
             new == r # None
             d == [Staff!Idle EXCEPT !.pc = "change", !.places = ps, !.role = role, !.new = new]
  <2>2. role \in Choices /\ new \in BOOLEAN /\ (new \/ role = member.role)
    BY <1>8 DEF Staff!UpdateMember, MemberIsUser
  <2>3. task' = [task EXCEPT ![h] = d] BY <2>1
  <2> HIDE DEF role, new
  <2>4. d \in Tasks /\ d.pc = "change" /\ d.role = role /\ d.new = new
    BY <2>2, <1>c DEF Tasks, Staff!Idle
  <2> HIDE DEF d
  <2>5. OtherTasks(h) /\ task'[h] = d BY <2>3, <2>4, TaskReplaced
  <2> QED BY <2>2, <2>4, <2>5
<1>9. ASSUME Staff!CommitUpdate(h) PROVE Rests(h) BY <1>9, <1>e DEF Staff!CommitUpdate
<1>10. ASSUME Staff!RemoveMember(h)
       PROVE  \/ task[h].pc = "idle" /\ member # Staff!Nobody /\ Keeps(h, "remove") /\ UNCHANGED member
              \/ task[h].pc = "remove" /\ Rests(h)
  BY <1>10, <1>c, <1>k, <1>e DEF Staff!RemoveMember
<1>11. ASSUME Staff!ForgotPassword(h)
       PROVE  \/ task[h].pc = "idle" /\ Keeps(h, "send") /\ UNCHANGED links
              \/ task[h].pc = "send" /\ Rests(h)
  BY <1>11, <1>c, <1>k, <1>e DEF Staff!ForgotPassword
<1>12. ASSUME Staff!GetLink(h)
       PROVE  /\ OtherTasks(h) /\ task'[h].pc = "write" /\ task'[h].link \in links /\ ~task'[h].new
              /\ loose' \subseteq loose \cup {task'[h].link} /\ loose \subseteq loose'
              /\ \A g \in Hands : task[g].pc \in Staff!Resetting /\ task[g].link = task'[h].link =>
                   task'[h].link \in loose'
  <2>1. PICK l \in links :
          /\ task' = [task EXCEPT ![h] = [Staff!Idle EXCEPT !.pc = "write", !.link = l]]
          /\ loose' = loose \cup {k \in {l} : \E g \in Hands : task[g].pc \in Staff!Resetting /\ task[g].link = k}
    BY <1>12 DEF Staff!GetLink
  <2> DEFINE d == [Staff!Idle EXCEPT !.pc = "write", !.link = l]
  <2>2. d \in Tasks /\ d.pc = "write" /\ d.link = l /\ ~d.new
    BY <1>t, <1>c DEF Tasks, Staff!Idle
  <2>3. task' = [task EXCEPT ![h] = d] BY <2>1
  <2> HIDE DEF d
  <2>4. OtherTasks(h) /\ task'[h] = d BY <2>2, <2>3, TaskReplaced
  <2>5. /\ loose' \subseteq loose \cup {l} /\ loose \subseteq loose'
        /\ \A g \in Hands : task[g].pc \in Staff!Resetting /\ task[g].link = l => l \in loose'
    BY <2>1
  <2> QED BY <2>2, <2>4, <2>5
<1>13. ASSUME Staff!WritePassword(h) PROVE Keeps(h, "delete") BY <1>13, <1>c, <1>k DEF Staff!WritePassword
<1>14. ASSUME Staff!DeleteLink(h) PROVE Rests(h) BY <1>14, <1>e DEF Staff!DeleteLink
<1>15. ASSUME Staff!RequestDies(h) PROVE Rests(h) BY <1>15, <1>e DEF Staff!RequestDies
<1> QED BY <1>1, <1>2, <1>3, <1>4, <1>5, <1>6, <1>7, <1>8, <1>9, <1>10, <1>11, <1>12, <1>13, <1>14, <1>15

(* What becomes of the membership. *)
LEMMA MemberGoes ==
  ASSUME StaffTypes, NEW h \in Hands
  PROVE  /\ Staff!CommitMember(h) =>
              IF task[h].pc = "insert" /\ member # Staff!Nobody
              THEN UNCHANGED <<member, asked, roleCrossed>>
              ELSE /\ task[h].role \in Choices /\ task[h].places \in SUBSET Places => member' \in Members
                   /\ member'.status = "invited" /\ member'.role = task[h].role
                   /\ asked' = task[h].role /\ roleCrossed' = Staff!KeepsRole(h)
         /\ Staff!CommitUpdate(h) =>
              /\ task[h].role \in Choices => member' \in Members
              /\ member'.status = member.status /\ member'.role = task[h].role
         /\ Staff!RemoveMember(h) =>
              /\ member' \in Members /\ member'.role = member.role
              /\ member' = member \/ member'.status = "inactive"
<1>t. /\ member \in Members /\ task[h] \in Tasks BY DEF StaffTypes
<1>1. ASSUME Staff!CommitMember(h), task[h].pc = "insert" /\ member # Staff!Nobody
      PROVE  UNCHANGED <<member, asked, roleCrossed>>
  BY <1>1 DEF Staff!CommitMember, Staff!At, Staff!roles
<1>2. ASSUME Staff!CommitMember(h), ~(task[h].pc = "insert" /\ member # Staff!Nobody)
      PROVE  /\ task[h].role \in Choices /\ task[h].places \in SUBSET Places => member' \in Members
             /\ member'.status = "invited" /\ member'.role = task[h].role
             /\ asked' = task[h].role /\ roleCrossed' = Staff!KeepsRole(h)
  <2>1. /\ member' = [status |-> "invited", role |-> task[h].role, places |-> task[h].places]
        /\ asked' = task[h].role /\ roleCrossed' = Staff!KeepsRole(h)
    BY <1>2 DEF Staff!CommitMember, Staff!At
  <2> QED BY <2>1 DEF Members
<1>3. ASSUME Staff!CommitUpdate(h)
      PROVE  /\ task[h].role \in Choices => member' \in Members
             /\ member'.status = member.status /\ member'.role = task[h].role
  <2> DEFINE at == IF task[h].places = None THEN member.places ELSE task[h].places
  <2>1. member' = [member EXCEPT !.role = task[h].role, !.places = at]
    BY <1>3 DEF Staff!CommitUpdate
  <2>2. at \in SUBSET Places BY <1>t DEF Tasks, Members
  <2> HIDE DEF at
  <2> QED BY <1>t, <2>1, <2>2 DEF Members
<1>4. ASSUME Staff!RemoveMember(h)
      PROVE  /\ member' \in Members /\ member'.role = member.role
             /\ member' = member \/ member'.status = "inactive"
  BY <1>t, <1>4 DEF Staff!RemoveMember, Members
<1> QED BY <1>1, <1>2, <1>3, <1>4

(* A reset that writes a password uses its link. *)
LEMMA SpentGoes ==
  ASSUME StaffTypes, NEW h \in Hands, Staff!WritePassword(h), task[h].link \in Choices
  PROVE  /\ spent' \in [once : SUBSET Choices, again : SUBSET Choices]
         /\ spent'.once = spent.once \cup {task[h].link}
         /\ spent'.again = spent.again \cup ({task[h].link} \cap spent.once)
BY DEF StaffTypes, Staff!WritePassword

(* What the steps that change the request most leave alone. *)
LEMMA StaffFrames ==
  ASSUME StaffTypes, NEW h \in Hands
  PROVE  /\ Staff!CommitMember(h) =>
              /\ task[h].pc \in {"insert", "update"}
              /\ UNCHANGED <<secret, owner, links, told, overlap, spent, loose>>
         /\ Staff!SetLink(h) =>
              /\ task[h].pc = "link"
              /\ UNCHANGED <<secret, owner, member, told, overlap, asked, roleCrossed, spent, loose>>
         /\ Staff!QueueInvite(h) =>
              /\ task[h].pc = "mail" /\ told' = (told \/ task[h].link # None)
              /\ UNCHANGED <<secret, owner, member, links, overlap, asked, roleCrossed, spent, loose>>
         /\ Staff!UpdateMember(h) =>
              /\ task[h].pc = "idle" /\ member # Staff!Nobody
              /\ UNCHANGED <<secret, owner, member, links, told, overlap, asked, roleCrossed, spent, loose>>
         /\ Staff!CommitUpdate(h) =>
              /\ task[h].pc = "change"
              /\ UNCHANGED <<secret, owner, links, told, overlap, spent, loose>>
         /\ Staff!ForgotPassword(h) =>
              /\ \A l \in links' : l \in links \/ l \in Staff!Unused
              /\ UNCHANGED <<secret, owner, member, told, overlap, asked, roleCrossed, spent, loose>>
         /\ Staff!GetLink(h) =>
              /\ task[h].pc = "idle"
              /\ UNCHANGED <<secret, owner, member, links, told, overlap, asked, roleCrossed, spent>>
         /\ Staff!RequestDies(h) =>
              /\ task[h].pc # "idle"
              /\ overlap' = (overlap \/ task[h].pc \in Staff!Inviting)
              /\ loose' = IF task[h].pc = "delete" THEN loose \cup {task[h].link} ELSE loose
              /\ UNCHANGED <<secret, owner, member, links, told, asked, roleCrossed, spent>>
BY DEF Staff!CommitMember, Staff!SetLink, Staff!QueueInvite, Staff!UpdateMember, Staff!CommitUpdate,
       Staff!ForgotPassword, Staff!GetLink, Staff!RequestDies, Staff!At, Staff!invites, Staff!roles, Staff!resets

(* Every step keeps the types. *)
LEMMA StaffTypesKept ==
  ASSUME StaffTypes, MemberIsUser, TasksAreSound,
         [Staff!Next]_(Staff!accountVars)
  PROVE  StaffTypes'
<1> USE StaffAssumption DEF Staff!At, Staff!invites, Staff!roles, Staff!resets, Staff!Inviting, Staff!Resetting,
             Keeps, Rests, OtherTasks
<1>t. /\ task \in [Hands -> Tasks] /\ links \subseteq Choices /\ loose \subseteq Choices
      /\ secret \in {None, "random", "chosen"} /\ {owner, told, overlap, roleCrossed} \subseteq BOOLEAN
  BY DEF StaffTypes
<1>1. ASSUME NEW h \in Hands, Staff!RegisterStep(h) PROVE StaffTypes'
  BY <1>t, <1>1, TaskGoes DEF Staff!RegisterStep, Staff!Register, StaffTypes
<1>2. ASSUME NEW h \in Hands, Staff!Invite(h) PROVE StaffTypes'
  BY <1>t, <1>2, TaskGoes DEF Staff!Invite, StaffTypes
<1>3. ASSUME NEW h \in Hands, Staff!CreateUser(h) PROVE StaffTypes'
  BY <1>t, <1>3, TaskGoes DEF Staff!CreateUser, StaffTypes
<1>4. ASSUME NEW h \in Hands, Staff!FindMember(h) PROVE StaffTypes'
  BY <1>t, <1>4, TaskGoes DEF Staff!FindMember, StaffTypes
<1>5. ASSUME NEW h \in Hands, Staff!CommitMember(h) PROVE StaffTypes'
  <2>1. UNCHANGED <<secret, owner, links, told, overlap, spent, loose>> BY <1>5, StaffFrames
  <2>2. task' \in [Hands -> Tasks] BY <1>5, TaskGoes
  <2>3. task[h] \in Tasks /\ task[h].role \in Choices /\ task[h].places \in SUBSET Places BY <1>t, <1>5, StaffFrames DEF TasksAreSound
  <2>4. member' \in Members BY <1>5, <2>3, MemberGoes DEF StaffTypes
  <2>5. asked' \in Choices \cup {None} /\ roleCrossed' \in BOOLEAN
    BY <1>5, <2>3, MemberGoes DEF StaffTypes, Staff!KeepsRole
  <2> QED BY <1>t, <2>1, <2>2, <2>4, <2>5 DEF StaffTypes
<1>6. ASSUME NEW h \in Hands, Staff!SetLink(h) PROVE StaffTypes'
  <2>1. task' \in [Hands -> Tasks] BY <1>6, TaskGoes
  <2>2. links' \subseteq Choices BY <1>t, <1>6, TaskGoes DEF Staff!Unused
  <2> QED BY <1>t, <1>6, <2>1, <2>2, StaffFrames DEF StaffTypes
<1>7. ASSUME NEW h \in Hands, Staff!QueueInvite(h) PROVE StaffTypes'
  BY <1>t, <1>7, TaskGoes, StaffFrames DEF StaffTypes
<1>8. ASSUME NEW h \in Hands, Staff!UpdateMember(h) PROVE StaffTypes'
  BY <1>t, <1>8, TaskGoes, StaffFrames DEF StaffTypes
<1>9. ASSUME NEW h \in Hands, Staff!CommitUpdate(h) PROVE StaffTypes'
  <2>1. UNCHANGED <<secret, owner, links, told, overlap, spent, loose>> BY <1>9, StaffFrames
  <2>2. task' \in [Hands -> Tasks] BY <1>9, TaskGoes
  <2>3. task[h] \in Tasks /\ task[h].role \in Choices BY <1>t, <1>9, StaffFrames DEF TasksAreSound
  <2>4. member' \in Members BY <1>9, <2>3, MemberGoes DEF StaffTypes
  <2>5. asked' \in Choices \cup {None} /\ roleCrossed' \in BOOLEAN
    BY <1>9, <2>3 DEF StaffTypes, Staff!CommitUpdate, Staff!KeepsRole
  <2> QED BY <1>t, <2>1, <2>2, <2>4, <2>5 DEF StaffTypes
<1>10. ASSUME NEW h \in Hands, Staff!RemoveMember(h) PROVE StaffTypes'
  BY <1>t, <1>10, TaskGoes, MemberGoes DEF Staff!RemoveMember, StaffTypes
<1>11. ASSUME NEW h \in Hands, Staff!ForgotPassword(h) PROVE StaffTypes'
  <2>1. task' \in [Hands -> Tasks] BY <1>11, TaskGoes
  <2>2. links' \subseteq Choices BY <1>t, <1>11, StaffFrames DEF Staff!Unused
  <2> QED BY <1>t, <1>11, <2>1, <2>2, StaffFrames DEF StaffTypes
<1>12. ASSUME NEW h \in Hands, Staff!GetLink(h) PROVE StaffTypes'
  BY <1>t, <1>12, TaskGoes, StaffFrames DEF StaffTypes
<1>13. ASSUME NEW h \in Hands, Staff!WritePassword(h) PROVE StaffTypes'
  <2>1. task' \in [Hands -> Tasks] BY <1>13, TaskGoes
  <2>2. spent' \in [once : SUBSET Choices, again : SUBSET Choices]
    BY <1>t, <1>13, SpentGoes DEF TasksAreSound, Staff!WritePassword
  <2> QED BY <1>t, <1>13, <2>1, <2>2 DEF StaffTypes, Staff!WritePassword
<1>14. ASSUME NEW h \in Hands, Staff!DeleteLink(h) PROVE StaffTypes'
  BY <1>t, <1>14, TaskGoes DEF Staff!DeleteLink, StaffTypes
<1>15. ASSUME NEW h \in Hands, Staff!RequestDies(h) PROVE StaffTypes'
  <2>1. task' \in [Hands -> Tasks] BY <1>15, TaskGoes
  <2>2. task[h].pc = "delete" => task[h].link \in Choices BY DEF TasksAreSound
  <2>3. loose' \subseteq Choices BY <1>t, <1>15, <2>2, StaffFrames
  <2>4. overlap' \in BOOLEAN BY <1>t, <1>15, StaffFrames
  <2> QED BY <1>t, <1>15, <2>1, <2>3, <2>4, StaffFrames DEF StaffTypes
<1>16. ASSUME Staff!LinkExpires \/ UNCHANGED Staff!accountVars PROVE StaffTypes'
  BY <1>t, <1>16 DEF Staff!LinkExpires, Staff!accountVars, StaffTypes
<1> HIDE DEF Staff!At, Staff!invites, Staff!roles, Staff!resets, Staff!Inviting, Staff!Resetting
<1> QED BY <1>1, <1>2, <1>3, <1>4, <1>5, <1>6, <1>7, <1>8, <1>9, <1>10, <1>11, <1>12, <1>13, <1>14, <1>15, <1>16 DEF Staff!Next

(* A membership stays a user's. *)
LEMMA MemberKept ==
  ASSUME StaffTypes, MemberIsUser, TasksAreSound,
         [Staff!Next]_(Staff!accountVars)
  PROVE  MemberIsUser'
<1> USE StaffAssumption DEF Staff!At, Staff!invites, Staff!roles, Staff!resets, Staff!Inviting, Staff!Resetting,
             Keeps, Rests, OtherTasks
<1>t. /\ task \in [Hands -> Tasks] /\ links \subseteq Choices /\ loose \subseteq Choices
      /\ secret \in {None, "random", "chosen"} /\ {owner, told, overlap, roleCrossed} \subseteq BOOLEAN
  BY DEF StaffTypes
<1>1. ASSUME NEW h \in Hands, Staff!RegisterStep(h) PROVE MemberIsUser'
  BY <1>t, <1>1, TaskGoes DEF Staff!RegisterStep, Staff!Register, MemberIsUser, Staff!Nobody
<1>2. ASSUME NEW h \in Hands, Staff!Invite(h) PROVE MemberIsUser'
  BY <1>t, <1>2, TaskGoes DEF Staff!Invite, MemberIsUser, Staff!Nobody
<1>3. ASSUME NEW h \in Hands, Staff!CreateUser(h) PROVE MemberIsUser'
  BY <1>t, <1>3, TaskGoes DEF Staff!CreateUser, MemberIsUser, Staff!Nobody
<1>4. ASSUME NEW h \in Hands, Staff!FindMember(h) PROVE MemberIsUser'
  BY <1>t, <1>4, TaskGoes DEF Staff!FindMember, MemberIsUser, Staff!Nobody
<1>5. ASSUME NEW h \in Hands, Staff!CommitMember(h) PROVE MemberIsUser'
  <2>1. task[h].role \in Choices /\ task[h].places \in SUBSET Places /\ secret # None
    BY <1>5, StaffFrames DEF TasksAreSound
  <2>2. CASE task[h].pc = "insert" /\ member # Staff!Nobody
    BY <1>5, <2>2, MemberGoes, StaffFrames DEF MemberIsUser
  <2>3. CASE ~(task[h].pc = "insert" /\ member # Staff!Nobody)
    BY <1>5, <2>1, <2>3, MemberGoes, StaffFrames DEF MemberIsUser
  <2> QED BY <2>2, <2>3
<1>6. ASSUME NEW h \in Hands, Staff!SetLink(h) PROVE MemberIsUser'
  BY <1>t, <1>6, TaskGoes, StaffFrames DEF MemberIsUser, Staff!Nobody
<1>7. ASSUME NEW h \in Hands, Staff!QueueInvite(h) PROVE MemberIsUser'
  BY <1>t, <1>7, TaskGoes, StaffFrames DEF MemberIsUser, Staff!Nobody
<1>8. ASSUME NEW h \in Hands, Staff!UpdateMember(h) PROVE MemberIsUser'
  BY <1>t, <1>8, TaskGoes, StaffFrames DEF MemberIsUser, Staff!Nobody
<1>9. ASSUME NEW h \in Hands, Staff!CommitUpdate(h) PROVE MemberIsUser'
  <2>1. task[h].role \in Choices /\ member # Staff!Nobody BY <1>9, StaffFrames DEF TasksAreSound
  <2> QED BY <1>9, <2>1, MemberGoes, StaffFrames DEF MemberIsUser
<1>10. ASSUME NEW h \in Hands, Staff!RemoveMember(h) PROVE MemberIsUser'
  <2>1. UNCHANGED <<secret, owner>> /\ member # Staff!Nobody
    BY <1>10, TaskGoes DEF Staff!RemoveMember, TasksAreSound
  <2> QED BY <1>10, <2>1, MemberGoes DEF MemberIsUser
<1>11. ASSUME NEW h \in Hands, Staff!ForgotPassword(h) PROVE MemberIsUser'
  BY <1>t, <1>11, TaskGoes, StaffFrames DEF MemberIsUser, Staff!Nobody
<1>12. ASSUME NEW h \in Hands, Staff!GetLink(h) PROVE MemberIsUser'
  BY <1>t, <1>12, TaskGoes, StaffFrames DEF MemberIsUser, Staff!Nobody
<1>13. ASSUME NEW h \in Hands, Staff!WritePassword(h) PROVE MemberIsUser'
  BY <1>t, <1>13, TaskGoes, SpentGoes DEF Staff!WritePassword, MemberIsUser, Staff!Nobody
<1>14. ASSUME NEW h \in Hands, Staff!DeleteLink(h) PROVE MemberIsUser'
  BY <1>t, <1>14, TaskGoes DEF Staff!DeleteLink, MemberIsUser, Staff!Nobody
<1>15. ASSUME NEW h \in Hands, Staff!RequestDies(h) PROVE MemberIsUser'
  BY <1>t, <1>15, TaskGoes, StaffFrames DEF MemberIsUser, Staff!Nobody
<1>16. ASSUME Staff!LinkExpires \/ UNCHANGED Staff!accountVars PROVE MemberIsUser'
  BY <1>t, <1>16 DEF Staff!LinkExpires, Staff!accountVars, MemberIsUser, Staff!Nobody
<1> HIDE DEF Staff!At, Staff!invites, Staff!roles, Staff!resets, Staff!Inviting, Staff!Resetting
<1> QED BY <1>1, <1>2, <1>3, <1>4, <1>5, <1>6, <1>7, <1>8, <1>9, <1>10, <1>11, <1>12, <1>13, <1>14, <1>15, <1>16 DEF Staff!Next

(* A request may rely on what it did before. *)
LEMMA TasksKept ==
  ASSUME StaffTypes, MemberIsUser, TasksAreSound,
         [Staff!Next]_(Staff!accountVars)
  PROVE  TasksAreSound'
<1> USE StaffAssumption DEF Staff!At, Staff!invites, Staff!roles, Staff!resets, Staff!Inviting, Staff!Resetting,
             Keeps, Rests, OtherTasks
<1>t. /\ task \in [Hands -> Tasks] /\ links \subseteq Choices /\ loose \subseteq Choices
      /\ secret \in {None, "random", "chosen"} /\ {owner, told, overlap, roleCrossed} \subseteq BOOLEAN
  BY DEF StaffTypes
<1>1. ASSUME NEW h \in Hands, Staff!RegisterStep(h) PROVE TasksAreSound'
  BY <1>t, <1>1, TaskGoes DEF Staff!RegisterStep, Staff!Register, TasksAreSound, MemberIsUser, Staff!Nobody
<1>2. ASSUME NEW h \in Hands, Staff!Invite(h) PROVE TasksAreSound'
  <2>1. UNCHANGED <<secret, member>> BY <1>2 DEF Staff!Invite
  <2>2. /\ OtherTasks(h) /\ task'[h].pc = IF secret = None THEN "create" ELSE "member"
        /\ task'[h].role \in Choices /\ task'[h].places \in SUBSET Places
        /\ task'[h].new = (secret = None)
    BY <1>2, TaskGoes
  <2> QED BY <1>t, <2>1, <2>2 DEF TasksAreSound
<1>3. ASSUME NEW h \in Hands, Staff!CreateUser(h) PROVE TasksAreSound'
  BY <1>t, <1>3, TaskGoes DEF Staff!CreateUser, TasksAreSound, MemberIsUser, Staff!Nobody
<1>4. ASSUME NEW h \in Hands, Staff!FindMember(h) PROVE TasksAreSound'
  BY <1>t, <1>4, TaskGoes DEF Staff!FindMember, TasksAreSound, MemberIsUser, Staff!Nobody
<1>5. ASSUME NEW h \in Hands, Staff!CommitMember(h) PROVE TasksAreSound'
  BY <1>t, <1>5, TaskGoes, MemberGoes, StaffFrames DEF TasksAreSound, MemberIsUser, Staff!Nobody
<1>6. ASSUME NEW h \in Hands, Staff!SetLink(h) PROVE TasksAreSound'
  <2>1. task'[h].link \in Choices BY <1>6, TaskGoes DEF Staff!Unused
  <2> QED BY <1>t, <1>6, <2>1, TaskGoes, StaffFrames DEF TasksAreSound
<1>7. ASSUME NEW h \in Hands, Staff!QueueInvite(h) PROVE TasksAreSound'
  BY <1>t, <1>7, TaskGoes, StaffFrames DEF TasksAreSound, MemberIsUser, Staff!Nobody
<1>8. ASSUME NEW h \in Hands, Staff!UpdateMember(h) PROVE TasksAreSound'
  BY <1>t, <1>8, TaskGoes, StaffFrames DEF TasksAreSound, MemberIsUser, Staff!Nobody
<1>9. ASSUME NEW h \in Hands, Staff!CommitUpdate(h) PROVE TasksAreSound'
  BY <1>t, <1>9, TaskGoes, MemberGoes, StaffFrames DEF TasksAreSound, MemberIsUser, Staff!Nobody
<1>10. ASSUME NEW h \in Hands, Staff!RemoveMember(h) PROVE TasksAreSound'
  BY <1>t, <1>10, TaskGoes, MemberGoes DEF Staff!RemoveMember, TasksAreSound, MemberIsUser, Staff!Nobody
<1>11. ASSUME NEW h \in Hands, Staff!ForgotPassword(h) PROVE TasksAreSound'
  BY <1>t, <1>11, TaskGoes, StaffFrames DEF TasksAreSound, MemberIsUser, Staff!Nobody
<1>12. ASSUME NEW h \in Hands, Staff!GetLink(h) PROVE TasksAreSound'
  BY <1>t, <1>12, TaskGoes, StaffFrames DEF TasksAreSound, MemberIsUser, Staff!Nobody
<1>13. ASSUME NEW h \in Hands, Staff!WritePassword(h) PROVE TasksAreSound'
  BY <1>t, <1>13, TaskGoes, SpentGoes DEF Staff!WritePassword, TasksAreSound, MemberIsUser, Staff!Nobody
<1>14. ASSUME NEW h \in Hands, Staff!DeleteLink(h) PROVE TasksAreSound'
  BY <1>t, <1>14, TaskGoes DEF Staff!DeleteLink, TasksAreSound, MemberIsUser, Staff!Nobody
<1>15. ASSUME NEW h \in Hands, Staff!RequestDies(h) PROVE TasksAreSound'
  BY <1>t, <1>15, TaskGoes, StaffFrames DEF TasksAreSound, MemberIsUser, Staff!Nobody
<1>16. ASSUME Staff!LinkExpires \/ UNCHANGED Staff!accountVars PROVE TasksAreSound'
  BY <1>t, <1>16 DEF Staff!LinkExpires, Staff!accountVars, TasksAreSound, MemberIsUser, Staff!Nobody
<1> HIDE DEF Staff!At, Staff!invites, Staff!roles, Staff!resets, Staff!Inviting, Staff!Resetting
<1> QED BY <1>1, <1>2, <1>3, <1>4, <1>5, <1>6, <1>7, <1>8, <1>9, <1>10, <1>11, <1>12, <1>13, <1>14, <1>15, <1>16 DEF Staff!Next

(* A used link stays watched. *)
LEMMA LinksKept ==
  ASSUME StaffTypes, MemberIsUser, TasksAreSound, LinksAreWatched,
         [Staff!Next]_(Staff!accountVars)
  PROVE  LinksAreWatched'
<1> USE StaffAssumption DEF Staff!At, Staff!invites, Staff!roles, Staff!resets, Staff!Inviting, Staff!Resetting,
             Keeps, Rests, OtherTasks
<1>t. /\ task \in [Hands -> Tasks] /\ links \subseteq Choices /\ loose \subseteq Choices
      /\ secret \in {None, "random", "chosen"} /\ {owner, told, overlap, roleCrossed} \subseteq BOOLEAN
  BY DEF StaffTypes
<1>1. ASSUME NEW h \in Hands, Staff!RegisterStep(h) PROVE LinksAreWatched'
  BY <1>t, <1>1, TaskGoes DEF Staff!RegisterStep, Staff!Register, LinksAreWatched, TasksAreSound, Staff!Unused
<1>2. ASSUME NEW h \in Hands, Staff!Invite(h) PROVE LinksAreWatched'
  BY <1>t, <1>2, TaskGoes DEF Staff!Invite, LinksAreWatched, TasksAreSound, Staff!Unused
<1>3. ASSUME NEW h \in Hands, Staff!CreateUser(h) PROVE LinksAreWatched'
  BY <1>t, <1>3, TaskGoes DEF Staff!CreateUser, LinksAreWatched, TasksAreSound, Staff!Unused
<1>4. ASSUME NEW h \in Hands, Staff!FindMember(h) PROVE LinksAreWatched'
  BY <1>t, <1>4, TaskGoes DEF Staff!FindMember, LinksAreWatched, TasksAreSound, Staff!Unused
<1>5. ASSUME NEW h \in Hands, Staff!CommitMember(h) PROVE LinksAreWatched'
  BY <1>t, <1>5, TaskGoes, MemberGoes, StaffFrames DEF LinksAreWatched, TasksAreSound, Staff!Unused
<1>6. ASSUME NEW h \in Hands, Staff!SetLink(h) PROVE LinksAreWatched'
  BY <1>t, <1>6, TaskGoes, StaffFrames DEF LinksAreWatched, TasksAreSound, Staff!Unused
<1>7. ASSUME NEW h \in Hands, Staff!QueueInvite(h) PROVE LinksAreWatched'
  BY <1>t, <1>7, TaskGoes, StaffFrames DEF LinksAreWatched, TasksAreSound, Staff!Unused
<1>8. ASSUME NEW h \in Hands, Staff!UpdateMember(h) PROVE LinksAreWatched'
  BY <1>t, <1>8, TaskGoes, StaffFrames DEF LinksAreWatched, TasksAreSound, Staff!Unused
<1>9. ASSUME NEW h \in Hands, Staff!CommitUpdate(h) PROVE LinksAreWatched'
  BY <1>t, <1>9, TaskGoes, MemberGoes, StaffFrames DEF LinksAreWatched, TasksAreSound, Staff!Unused
<1>10. ASSUME NEW h \in Hands, Staff!RemoveMember(h) PROVE LinksAreWatched'
  BY <1>t, <1>10, TaskGoes, MemberGoes DEF Staff!RemoveMember, LinksAreWatched, TasksAreSound, Staff!Unused
<1>11. ASSUME NEW h \in Hands, Staff!ForgotPassword(h) PROVE LinksAreWatched'
  BY <1>t, <1>11, TaskGoes, StaffFrames DEF LinksAreWatched, TasksAreSound, Staff!Unused
<1>12. ASSUME NEW h \in Hands, Staff!GetLink(h) PROVE LinksAreWatched'
  BY <1>t, <1>12, TaskGoes, StaffFrames DEF LinksAreWatched, TasksAreSound, Staff!Unused
<1>13. ASSUME NEW h \in Hands, Staff!WritePassword(h) PROVE LinksAreWatched'
  BY <1>t, <1>13, TaskGoes, SpentGoes DEF Staff!WritePassword, LinksAreWatched, TasksAreSound, Staff!Unused
<1>14. ASSUME NEW h \in Hands, Staff!DeleteLink(h) PROVE LinksAreWatched'
  BY <1>t, <1>14, TaskGoes DEF Staff!DeleteLink, LinksAreWatched, TasksAreSound, Staff!Unused
<1>15. ASSUME NEW h \in Hands, Staff!RequestDies(h) PROVE LinksAreWatched'
  BY <1>t, <1>15, TaskGoes, StaffFrames DEF LinksAreWatched, TasksAreSound, Staff!Unused
<1>16. ASSUME Staff!LinkExpires \/ UNCHANGED Staff!accountVars PROVE LinksAreWatched'
  BY <1>t, <1>16 DEF Staff!LinkExpires, Staff!accountVars, LinksAreWatched, TasksAreSound, Staff!Unused
<1> HIDE DEF Staff!At, Staff!invites, Staff!roles, Staff!resets, Staff!Inviting, Staff!Resetting
<1> QED BY <1>1, <1>2, <1>3, <1>4, <1>5, <1>6, <1>7, <1>8, <1>9, <1>10, <1>11, <1>12, <1>13, <1>14, <1>15, <1>16 DEF Staff!Next

(* The invitation that made the user goes on. *)
LEMMA InvitationKept ==
  ASSUME StaffTypes, MemberIsUser, TasksAreSound, InvitationGoesOn,
         [Staff!Next]_(Staff!accountVars)
  PROVE  InvitationGoesOn'
<1> USE StaffAssumption DEF Staff!At, Staff!invites, Staff!roles, Staff!resets, Staff!Inviting, Staff!Resetting,
             Keeps, Rests, OtherTasks
<1>t. /\ task \in [Hands -> Tasks] /\ links \subseteq Choices /\ loose \subseteq Choices
      /\ secret \in {None, "random", "chosen"} /\ {owner, told, overlap, roleCrossed} \subseteq BOOLEAN
  BY DEF StaffTypes
<1>1. ASSUME NEW h \in Hands, Staff!RegisterStep(h) PROVE InvitationGoesOn'
  BY <1>t, <1>1, TaskGoes DEF Staff!RegisterStep, Staff!Register, InvitationGoesOn, TasksAreSound, MemberIsUser
<1>2. ASSUME NEW h \in Hands, Staff!Invite(h) PROVE InvitationGoesOn'
  <2>1. /\ UNCHANGED <<secret, member, told>>
        /\ overlap' <=> overlap \/ \E g \in Hands : task[g].pc \in Staff!Inviting
        /\ task[h].pc = "idle"
    BY <1>t, <1>2 DEF Staff!Invite
  <2>2. /\ OtherTasks(h) /\ task'[h].pc \in {"create", "member"}
    BY <1>2, TaskGoes
  <2> QED BY <1>t, <2>1, <2>2 DEF InvitationGoesOn
<1>3. ASSUME NEW h \in Hands, Staff!CreateUser(h) PROVE InvitationGoesOn'
  BY <1>t, <1>3, TaskGoes DEF Staff!CreateUser, InvitationGoesOn, TasksAreSound, MemberIsUser
<1>4. ASSUME NEW h \in Hands, Staff!FindMember(h) PROVE InvitationGoesOn'
  <2>1. UNCHANGED <<secret, member, told, overlap>> /\ task[h].pc = "member"
    BY <1>4 DEF Staff!FindMember
  <2>2. CASE member = Staff!Nobody /\ Keeps(h, "insert")
    BY <1>t, <2>1, <2>2 DEF InvitationGoesOn
  <2>3. CASE member # Staff!Nobody /\ (Keeps(h, "update") \/ Rests(h))
    BY <1>t, <2>1, <2>3 DEF InvitationGoesOn
  <2> QED BY <1>4, <2>2, <2>3, TaskGoes DEF MemberIsUser, Staff!Nobody
<1>5. ASSUME NEW h \in Hands, Staff!CommitMember(h) PROVE InvitationGoesOn'
  BY <1>t, <1>5, TaskGoes, MemberGoes, StaffFrames DEF InvitationGoesOn, TasksAreSound, MemberIsUser
<1>6. ASSUME NEW h \in Hands, Staff!SetLink(h) PROVE InvitationGoesOn'
  BY <1>t, <1>6, TaskGoes, StaffFrames DEF InvitationGoesOn, TasksAreSound, MemberIsUser
<1>7. ASSUME NEW h \in Hands, Staff!QueueInvite(h) PROVE InvitationGoesOn'
  BY <1>t, <1>7, TaskGoes, StaffFrames DEF InvitationGoesOn, TasksAreSound, MemberIsUser
<1>8. ASSUME NEW h \in Hands, Staff!UpdateMember(h) PROVE InvitationGoesOn'
  BY <1>t, <1>8, TaskGoes, StaffFrames DEF InvitationGoesOn, TasksAreSound, MemberIsUser
<1>9. ASSUME NEW h \in Hands, Staff!CommitUpdate(h) PROVE InvitationGoesOn'
  BY <1>t, <1>9, TaskGoes, MemberGoes, StaffFrames DEF InvitationGoesOn, TasksAreSound, MemberIsUser
<1>10. ASSUME NEW h \in Hands, Staff!RemoveMember(h) PROVE InvitationGoesOn'
  BY <1>t, <1>10, TaskGoes, MemberGoes DEF Staff!RemoveMember, InvitationGoesOn, TasksAreSound, MemberIsUser
<1>11. ASSUME NEW h \in Hands, Staff!ForgotPassword(h) PROVE InvitationGoesOn'
  BY <1>t, <1>11, TaskGoes, StaffFrames DEF InvitationGoesOn, TasksAreSound, MemberIsUser
<1>12. ASSUME NEW h \in Hands, Staff!GetLink(h) PROVE InvitationGoesOn'
  BY <1>t, <1>12, TaskGoes, StaffFrames DEF InvitationGoesOn, TasksAreSound, MemberIsUser
<1>13. ASSUME NEW h \in Hands, Staff!WritePassword(h) PROVE InvitationGoesOn'
  <2>1. secret' = "chosen" /\ UNCHANGED overlap /\ task[h].pc = "write" BY <1>13 DEF Staff!WritePassword
  <2>2. Keeps(h, "delete") BY <1>13, TaskGoes
  <2> QED BY <1>t, <2>1, <2>2 DEF InvitationGoesOn
<1>14. ASSUME NEW h \in Hands, Staff!DeleteLink(h) PROVE InvitationGoesOn'
  BY <1>t, <1>14, TaskGoes DEF Staff!DeleteLink, InvitationGoesOn, TasksAreSound, MemberIsUser
<1>15. ASSUME NEW h \in Hands, Staff!RequestDies(h) PROVE InvitationGoesOn'
  <2>1. Rests(h) BY <1>15, TaskGoes
  <2>2. (task[h].pc \in Staff!Inviting => overlap') /\ (overlap => overlap') BY <1>t, <1>15, StaffFrames
  <2> QED BY <1>t, <1>15, <2>1, <2>2, StaffFrames DEF InvitationGoesOn
<1>16. ASSUME Staff!LinkExpires \/ UNCHANGED Staff!accountVars PROVE InvitationGoesOn'
  BY <1>t, <1>16 DEF Staff!LinkExpires, Staff!accountVars, InvitationGoesOn, TasksAreSound, MemberIsUser
<1> HIDE DEF Staff!At, Staff!invites, Staff!roles, Staff!resets, Staff!Inviting, Staff!Resetting
<1> QED BY <1>1, <1>2, <1>3, <1>4, <1>5, <1>6, <1>7, <1>8, <1>9, <1>10, <1>11, <1>12, <1>13, <1>14, <1>15, <1>16 DEF Staff!Next

(* An older role is brought back only by a crossing. *)
LEMMA RoleKept ==
  ASSUME StaffTypes, MemberIsUser, TasksAreSound, RoleIsKept,
         [Staff!Next]_(Staff!accountVars)
  PROVE  RoleIsKept'
<1> USE StaffAssumption DEF Staff!At, Staff!invites, Staff!roles, Staff!resets, Staff!Inviting, Staff!Resetting,
             Keeps, Rests, OtherTasks
<1>t. /\ task \in [Hands -> Tasks] /\ links \subseteq Choices /\ loose \subseteq Choices
      /\ secret \in {None, "random", "chosen"} /\ {owner, told, overlap, roleCrossed} \subseteq BOOLEAN
  BY DEF StaffTypes
<1>1. ASSUME NEW h \in Hands, Staff!RegisterStep(h) PROVE RoleIsKept'
  BY <1>t, <1>1, TaskGoes DEF Staff!RegisterStep, Staff!Register, RoleIsKept, TasksAreSound, Staff!KeepsRole
<1>2. ASSUME NEW h \in Hands, Staff!Invite(h) PROVE RoleIsKept'
  BY <1>t, <1>2, TaskGoes DEF Staff!Invite, RoleIsKept, TasksAreSound, Staff!KeepsRole
<1>3. ASSUME NEW h \in Hands, Staff!CreateUser(h) PROVE RoleIsKept'
  BY <1>t, <1>3, TaskGoes DEF Staff!CreateUser, RoleIsKept, TasksAreSound, Staff!KeepsRole
<1>4. ASSUME NEW h \in Hands, Staff!FindMember(h) PROVE RoleIsKept'
  BY <1>t, <1>4, TaskGoes DEF Staff!FindMember, RoleIsKept, TasksAreSound, Staff!KeepsRole
<1>5. ASSUME NEW h \in Hands, Staff!CommitMember(h) PROVE RoleIsKept'
  <2>1. CASE task[h].pc = "insert" /\ member # Staff!Nobody
    BY <1>t, <1>5, <2>1, TaskGoes, MemberGoes DEF RoleIsKept
  <2>2. CASE ~(task[h].pc = "insert" /\ member # Staff!Nobody)
    <3>1. /\ member'.role = asked' /\ roleCrossed' = Staff!KeepsRole(h)
      BY <1>5, <2>2, MemberGoes
    <3>2. OtherTasks(h) /\ task'[h].pc \in {"link", "mail"} BY <1>5, <2>2, TaskGoes
    <3> QED BY <1>t, <3>1, <3>2 DEF RoleIsKept, Staff!KeepsRole
  <2> QED BY <2>1, <2>2
<1>6. ASSUME NEW h \in Hands, Staff!SetLink(h) PROVE RoleIsKept'
  <2>1. UNCHANGED <<member, asked, roleCrossed>> BY <1>6, StaffFrames
  <2>2. OtherTasks(h) /\ task'[h].pc = "mail" BY <1>6, TaskGoes
  <2> QED BY <1>t, <2>1, <2>2 DEF RoleIsKept
<1>7. ASSUME NEW h \in Hands, Staff!QueueInvite(h) PROVE RoleIsKept'
  BY <1>t, <1>7, TaskGoes, StaffFrames DEF RoleIsKept, TasksAreSound, Staff!KeepsRole
<1>8. ASSUME NEW h \in Hands, Staff!UpdateMember(h) PROVE RoleIsKept'
  <2>1. UNCHANGED <<member, asked, roleCrossed>> BY <1>8, StaffFrames
  <2>2. /\ OtherTasks(h) /\ task'[h].pc = "change"
        /\ task'[h].new \/ task'[h].role = member.role
    BY <1>8, TaskGoes
  <2> QED BY <1>t, <2>1, <2>2 DEF RoleIsKept
<1>9. ASSUME NEW h \in Hands, Staff!CommitUpdate(h) PROVE RoleIsKept'
  <2>1. task[h].pc = "change" /\ member # Staff!Nobody BY <1>9, StaffFrames DEF TasksAreSound
  <2>2. member'.role = task[h].role BY <1>9, MemberGoes
  <2>3. Rests(h) BY <1>9, TaskGoes
  <2>4. CASE task[h].new
    <3>1. asked' = task[h].role /\ roleCrossed' = Staff!KeepsRole(h) BY <1>9, <2>4 DEF Staff!CommitUpdate
    <3> QED BY <1>t, <2>2, <2>3, <3>1 DEF RoleIsKept, Staff!KeepsRole
  <2>5. CASE ~task[h].new
    <3>1. UNCHANGED <<asked, roleCrossed>> BY <1>9, <2>5 DEF Staff!CommitUpdate
    <3> QED BY <1>t, <2>1, <2>2, <2>3, <2>5, <3>1 DEF RoleIsKept
  <2> QED BY <2>4, <2>5
<1>10. ASSUME NEW h \in Hands, Staff!RemoveMember(h) PROVE RoleIsKept'
  BY <1>t, <1>10, TaskGoes, MemberGoes DEF Staff!RemoveMember, RoleIsKept, TasksAreSound, Staff!KeepsRole
<1>11. ASSUME NEW h \in Hands, Staff!ForgotPassword(h) PROVE RoleIsKept'
  BY <1>t, <1>11, TaskGoes, StaffFrames DEF RoleIsKept, TasksAreSound, Staff!KeepsRole
<1>12. ASSUME NEW h \in Hands, Staff!GetLink(h) PROVE RoleIsKept'
  BY <1>t, <1>12, TaskGoes, StaffFrames DEF RoleIsKept, TasksAreSound, Staff!KeepsRole
<1>13. ASSUME NEW h \in Hands, Staff!WritePassword(h) PROVE RoleIsKept'
  BY <1>t, <1>13, TaskGoes, SpentGoes DEF Staff!WritePassword, RoleIsKept, TasksAreSound, Staff!KeepsRole
<1>14. ASSUME NEW h \in Hands, Staff!DeleteLink(h) PROVE RoleIsKept'
  BY <1>t, <1>14, TaskGoes DEF Staff!DeleteLink, RoleIsKept, TasksAreSound, Staff!KeepsRole
<1>15. ASSUME NEW h \in Hands, Staff!RequestDies(h) PROVE RoleIsKept'
  BY <1>t, <1>15, TaskGoes, StaffFrames DEF RoleIsKept, TasksAreSound, Staff!KeepsRole
<1>16. ASSUME Staff!LinkExpires \/ UNCHANGED Staff!accountVars PROVE RoleIsKept'
  BY <1>t, <1>16 DEF Staff!LinkExpires, Staff!accountVars, RoleIsKept, TasksAreSound, Staff!KeepsRole
<1> HIDE DEF Staff!At, Staff!invites, Staff!roles, Staff!resets, Staff!Inviting, Staff!Resetting
<1> QED BY <1>1, <1>2, <1>3, <1>4, <1>5, <1>6, <1>7, <1>8, <1>9, <1>10, <1>11, <1>12, <1>13, <1>14, <1>15, <1>16 DEF Staff!Next

(* Who is invited gets a link to set a password, unless invitations overlap or
   die, and has the role that was last asked for, unless two updates cross. *)
THEOREM StaffCorrect == Staff!Spec => [](Staff!TypeOK /\ Staff!MemberIsAsAsked)
<1>1. Staff!Init => StaffInv
  <2> SUFFICES ASSUME Staff!Init PROVE StaffInv OBVIOUS
  <2>1. Staff!Idle \in Tasks /\ Staff!Idle.pc = "idle" /\ ~Staff!Idle.new
    BY DEF Staff!Idle, Tasks, TaskSteps
  <2>2. task \in [Hands -> Tasks] /\ \A h \in Hands : task[h].pc = "idle"
    BY <2>1 DEF Staff!Init
  <2>3. StaffTypes BY <2>2 DEF Staff!Init, StaffTypes, Members, Staff!Nobody
  <2>4. MemberIsUser BY DEF Staff!Init, MemberIsUser
  <2>5. TasksAreSound /\ LinksAreWatched
    BY <2>2 DEF Staff!Init, TasksAreSound, LinksAreWatched, Staff!Inviting, Staff!Resetting
  <2>6. InvitationGoesOn /\ RoleIsKept
    BY <2>2, StaffAssumption DEF Staff!Init, InvitationGoesOn, RoleIsKept, Staff!Inviting
  <2> QED BY <2>3, <2>4, <2>5, <2>6 DEF StaffInv
<1>2. StaffInv /\ [Staff!Next]_(Staff!accountVars) => StaffInv'
  BY StaffTypesKept, MemberKept, TasksKept, LinksKept, InvitationKept, RoleKept DEF StaffInv
<1>3. StaffInv => Staff!TypeOK /\ Staff!MemberIsAsAsked
  <2> SUFFICES ASSUME StaffInv PROVE Staff!TypeOK /\ Staff!MemberIsAsAsked OBVIOUS
  <2>1. Staff!Nobody.status = "none" BY DEF Staff!Nobody
  <2>2. Staff!TypeOK
    BY <2>1 DEF StaffInv, StaffTypes, MemberIsUser, LinksAreWatched, Staff!TypeOK, Tasks, TaskSteps, Members
  <2>3. Staff!InviteReaches
    <3> SUFFICES ASSUME member.status = "invited", secret = "random", ~told, ~overlap
                 PROVE  \E h \in Hands : task[h].pc \in {"link", "mail"} /\ task[h].new
      BY DEF Staff!InviteReaches
    <3> QED BY <2>1 DEF StaffInv, InvitationGoesOn
  <2>4. Staff!RoleIsAsked BY DEF StaffInv, RoleIsKept, Staff!RoleIsAsked
  <2> QED BY <2>2, <2>3, <2>4 DEF Staff!MemberIsAsAsked
<1> QED BY <1>1, <1>2, <1>3, PTL DEF Staff!Spec

-----------------------------------------------------------------------------
(* Gateways: the rows of a venue's payment gateways (payment.service.ts). *)

(* The operator Cardinality of the instance is that of FiniteSets. *)
LEMMA GatewaysCountedAlike == \A S : Gateways!Cardinality(S) = Cardinality(S)
BY DEF Gateways!Cardinality, Cardinality

(* A save under way; what a resolution may find. *)
Saves  == [driver : Drivers, cleared : SUBSET Drivers, missed : BOOLEAN]
Rights == [driver : Drivers, account : Choices \cup {None}]

(* A save that has missed no new row has cleared every row there is but its own. *)
SavesSee ==
  \A h \in Hands : saving[h] # None /\ ~saving[h].missed =>
    \A d \in Drivers : Gateways!Exists(d) => d \in saving[h].cleared \cup {saving[h].driver}

(* What is right now was right at some moment of every resolution under way. *)
RightIsSeen ==
  \A p \in Payers : taking[p].driver # None => Gateways!Right(config) \subseteq seen[p]

(* The inductive invariant of GatewayConfigs. *)
GatewaysInv ==
  /\ Gateways!TypeOK /\ SavesSee /\ RightIsSeen /\ Gateways!TakesTheRight
  /\ twins \/ \A d, e \in Gateways!Active : d = e

(* What is right is an active row with its account, or the platform's when there is none. *)
LEMMA RightOnes ==
  ASSUME NEW cfg \in [Drivers -> Gateways!Row \cup {None}]
  PROVE  /\ Gateways!Right(cfg) \subseteq Rights
         /\ \E r \in Gateways!Right(cfg) : TRUE
         /\ \A d \in Drivers : cfg[d] # None /\ cfg[d].active =>
              [driver |-> d, account |-> cfg[d].account] \in Gateways!Right(cfg)
         /\ \A r \in Gateways!Right(cfg) :
              \/ r.driver \in Drivers /\ cfg[r.driver] # None /\ cfg[r.driver].active
              \/ /\ r = [driver |-> PayHere, account |-> None]
                 /\ \A d \in Drivers : ~(cfg[d] # None /\ cfg[d].active)
<1> USE DEF Gateways!Row, Rights
<1> DEFINE act == {d \in Drivers : cfg[d] # None /\ cfg[d].active}
           platform == [driver |-> PayHere, account |-> None]
<1>0. \A d \in act : cfg[d].account \in Choices
  OBVIOUS
<1>1. CASE act = {}
  <2>1. Gateways!Right(cfg) = {platform} BY <1>1 DEF Gateways!Right
  <2>2. platform \in Rights /\ \A d \in Drivers : ~(cfg[d] # None /\ cfg[d].active) BY <1>1, GatewayAssumption
  <2> HIDE DEF platform
  <2> QED BY <2>1, <2>2 DEF platform
<1>2. CASE act # {}
  <2> DEFINE right(d) == [driver |-> d, account |-> cfg[d].account]
  <2>1. Gateways!Right(cfg) = {right(d) : d \in act} BY <1>2 DEF Gateways!Right
  <2>2. \A d \in act : right(d) \in Rights /\ right(d).driver = d BY <1>0
  <2>3. \A d \in Drivers : cfg[d] # None /\ cfg[d].active => right(d) \in Gateways!Right(cfg) BY <2>1
  <2> HIDE DEF right
  <2>4. \A r \in Gateways!Right(cfg) : r \in Rights /\ r.driver \in act BY <2>1, <2>2
  <2>5. \E r \in Gateways!Right(cfg) : TRUE BY <1>2, <2>1
  <2> QED BY <2>3, <2>4, <2>5 DEF right
<1> QED BY <1>1, <1>2

(* A commit sets its own row, clears those it saw and leaves the rest. *)
LEMMA RowsCleared ==
  ASSUME Gateways!TypeOK, NEW h \in Hands, NEW k \in Choices, saving[h] # None, config' = Gateways!Cleared(h, k)
  PROVE  /\ config' \in [Drivers -> Gateways!Row \cup {None}]
         /\ config'[saving[h].driver] = [account |-> k, active |-> TRUE]
         /\ \A d \in saving[h].cleared : config'[d] # None /\ ~config'[d].active
         /\ \A d \in Drivers \ (saving[h].cleared \cup {saving[h].driver}) : config'[d] = config[d]
<1> USE DEF Gateways!TypeOK, Gateways!Exists, Gateways!Row
<1>1. saving[h] \in Saves /\ saving[h].cleared \subseteq {d \in Drivers : config[d] # None} \ {saving[h].driver}
  BY DEF Saves
<1> DEFINE off(d) == [config[d] EXCEPT !.active = FALSE]
           on     == [account |-> k, active |-> TRUE]
<1>2. \A r \in Gateways!Row : [r EXCEPT !.active = FALSE] \in Gateways!Row /\ ~[r EXCEPT !.active = FALSE].active
  OBVIOUS
<1>3. \A d \in saving[h].cleared : config[d] \in Gateways!Row
  BY <1>1
<1>4. \A d \in saving[h].cleared : off(d) \in Gateways!Row /\ ~off(d).active
  BY <1>2, <1>3
<1>5. on \in Gateways!Row /\ None \notin Gateways!Row
  BY GatewayAssumption
<1>6. config' = [d \in Drivers |-> IF d = saving[h].driver THEN on
                                  ELSE IF d \in saving[h].cleared THEN off(d) ELSE config[d]]
  BY DEF Gateways!Cleared
<1> HIDE DEF off, on
<1>7. /\ config' \in [Drivers -> Gateways!Row \cup {None}]
      /\ config'[saving[h].driver] = on
      /\ \A d \in saving[h].cleared : config'[d] # None /\ ~config'[d].active
      /\ \A d \in Drivers \ (saving[h].cleared \cup {saving[h].driver}) : config'[d] = config[d]
  BY <1>1, <1>4, <1>5, <1>6 DEF Saves
<1> QED BY <1>7 DEF on

(* A commit clears every row its save has seen, and its own row becomes active. *)
LEMMA CommitKeeps ==
  ASSUME GatewaysInv, NEW h \in Hands, Gateways!CommitGateway(h)
  PROVE  GatewaysInv'
<1> DEFINE d == saving[h].driver
<1>1. PICK k \in Choices : config' = Gateways!Cleared(h, k)
  BY DEF Gateways!CommitGateway
<1>2. saving[h] # None /\ saving[h] \in Saves /\ saving[h].cleared \subseteq {e \in Drivers : config[e] # None} \ {d}
  BY DEF Gateways!CommitGateway, GatewaysInv, Gateways!TypeOK, Gateways!Exists, Saves
<1>3. /\ config' \in [Drivers -> Gateways!Row \cup {None}]
      /\ config'[d] = [account |-> k, active |-> TRUE]
      /\ \A e \in saving[h].cleared : config'[e] # None /\ ~config'[e].active
      /\ \A e \in Drivers \ (saving[h].cleared \cup {d}) : config'[e] = config[e]
  BY <1>1, <1>2, RowsCleared DEF GatewaysInv
<1>4. d \in Drivers /\ config'[d] # None /\ \A e \in Drivers : (config'[e] # None) <=> (config[e] # None \/ e = d)
  <2>1. d \in Drivers BY <1>2 DEF Saves
  <2>2. [account |-> k, active |-> TRUE] \in [account : Choices, active : BOOLEAN] OBVIOUS
  <2>3. config'[d] # None BY <1>3, <2>2, GatewayAssumption
  <2>4. ASSUME NEW e \in Drivers \ {d} PROVE (config'[e] # None) <=> (config[e] # None)
    <3>1. CASE e \in saving[h].cleared BY <1>2, <1>3, <3>1
    <3>2. CASE e \notin saving[h].cleared BY <1>3, <3>2
    <3> QED BY <3>1, <3>2
  <2> QED BY <2>1, <2>3, <2>4
<1>5. \A j \in Hands : saving'[j] # None =>
         j # h /\ saving[j] # None /\ saving'[j] = [saving[j] EXCEPT !.missed = @ \/ ~Gateways!Exists(d)]
  BY DEF Gateways!CommitGateway
<1>6. saving' \in [Hands -> Saves \cup {None}]
  BY <1>2 DEF Gateways!CommitGateway, GatewaysInv, Gateways!TypeOK, Saves
<1>7. \A j \in Hands : saving'[j] # None =>
         /\ saving[j] # None /\ saving'[j].driver = saving[j].driver /\ saving'[j].cleared = saving[j].cleared
         /\ (saving'[j].missed <=> (saving[j].missed \/ config[d] = None))
  <2>1. \A j \in Hands : saving[j] \in Saves \cup {None} BY DEF GatewaysInv, Gateways!TypeOK, Saves
  <2> DEFINE after(s) == [s EXCEPT !.missed = @ \/ ~Gateways!Exists(d)]
  <2>2. \A s \in Saves : /\ after(s).driver = s.driver /\ after(s).cleared = s.cleared
                         /\ (after(s).missed <=> (s.missed \/ config[d] = None))
    BY DEF Saves, Gateways!Exists
  <2>3. \A j \in Hands : saving'[j] # None => saving[j] # None /\ saving'[j] = after(saving[j])
    BY <1>5
  <2> HIDE DEF after
  <2> QED BY <2>1, <2>2, <2>3
<1>8. /\ taking' = taking /\ offered' = offered
      /\ seen' = [p \in Payers |-> IF taking[p].driver = None THEN seen[p] ELSE seen[p] \cup Gateways!Right(config')]
  BY DEF Gateways!CommitGateway
<1>9. Gateways!Right(config') \subseteq Rights
  BY <1>3, RightOnes
<1>10. Gateways!TypeOK'
  <2>1. seen' \in [Payers -> SUBSET Rights] BY <1>8, <1>9 DEF GatewaysInv, Gateways!TypeOK, Rights
  <2>2. twins' \in BOOLEAN BY <1>2 DEF Gateways!CommitGateway, Saves
  <2>3. \A j \in Hands : saving'[j] # None => saving'[j].cleared \subseteq {e \in Drivers : config'[e] # None} \ {saving'[j].driver}
    BY <1>4, <1>7 DEF GatewaysInv, Gateways!TypeOK, Gateways!Exists
  <2> QED BY <1>3, <1>6, <1>8, <2>1, <2>2, <2>3 DEF GatewaysInv, Gateways!TypeOK, Gateways!Exists, Rights, Saves
<1>11. SavesSee'
  BY <1>4, <1>7 DEF GatewaysInv, SavesSee, Gateways!Exists
<1>12. RightIsSeen'
  BY <1>8 DEF GatewaysInv, RightIsSeen
<1>13. Gateways!TakesTheRight'
  BY <1>8 DEF GatewaysInv, Gateways!TakesTheRight, Gateways!TypeOK
<1>14. twins' \/ \A e \in Gateways!Active' : e = d
  BY <1>2, <1>3 DEF GatewaysInv, SavesSee, Gateways!Exists, Gateways!Active, Gateways!CommitGateway
<1> QED BY <1>10, <1>11, <1>12, <1>13, <1>14 DEF GatewaysInv

(* A save that begins has cleared what there is; one that ends leaves the rows. *)
LEMMA SaveKeeps ==
  ASSUME GatewaysInv, NEW h \in Hands, Gateways!SaveGateway(h) \/ Gateways!SaveFails(h)
  PROVE  GatewaysInv'
<1>1. UNCHANGED <<config, offered, taking, twins, seen>>
  BY DEF Gateways!SaveGateway, Gateways!SaveFails
<1>2. \E new \in Saves \cup {None} :
        /\ saving' = [saving EXCEPT ![h] = new]
        /\ new # None => /\ new.cleared \subseteq {e \in Drivers : config[e] # None} \ {new.driver}
                         /\ \A e \in Drivers : config[e] # None => e \in new.cleared \cup {new.driver}
  <2>1. CASE Gateways!SaveFails(h)
    BY <2>1 DEF Gateways!SaveFails
  <2>2. CASE Gateways!SaveGateway(h)
    <3> DEFINE new(d) == [driver |-> d, cleared |-> {r \in Drivers \ {d} : config[r] # None}, missed |-> FALSE]
    <3>1. PICK d \in offered : saving' = [saving EXCEPT ![h] = new(d)]
      BY <2>2 DEF Gateways!SaveGateway, Gateways!Exists
    <3>2. d \in Drivers BY DEF GatewaysInv, Gateways!TypeOK
    <3>3. /\ new(d) \in Saves /\ new(d).cleared \subseteq {e \in Drivers : config[e] # None} \ {new(d).driver}
          /\ \A e \in Drivers : config[e] # None => e \in new(d).cleared \cup {new(d).driver}
      BY <3>2 DEF Saves
    <3> HIDE DEF new
    <3> QED BY <3>1, <3>3
  <2> QED BY <2>1, <2>2
<1>3. SavesSee' /\ Gateways!TypeOK'
  BY <1>1, <1>2 DEF GatewaysInv, Gateways!TypeOK, SavesSee, Gateways!Exists, Saves
<1> QED BY <1>1, <1>3 DEF GatewaysInv, RightIsSeen, Gateways!TakesTheRight, Gateways!Active, Gateways!Exists

(* The platform's list of drivers is not read by a payment. *)
LEMMA DriverKeeps ==
  ASSUME GatewaysInv, NEW d \in Drivers, Gateways!UpdateDriver(d)
  PROVE  GatewaysInv'
<1>1. UNCHANGED <<config, saving, taking, twins, seen>> /\ offered' \subseteq Drivers
  BY DEF Gateways!UpdateDriver, GatewaysInv, Gateways!TypeOK
<1> QED
  BY <1>1 DEF GatewaysInv, Gateways!TypeOK, Gateways!Active, SavesSee, RightIsSeen, Gateways!TakesTheRight, Gateways!Exists

(* A resolution under way changes nothing but itself. *)
LEMMA TakingKeeps ==
  ASSUME GatewaysInv, NEW p \in Payers, Gateways!FindDriver(p) \/ Gateways!FindAccount(p) \/ Gateways!PayerLeaves(p)
  PROVE  GatewaysInv'
<1> DEFINE Takings == [driver : Drivers \cup {None}, got : {"none", "account", "refused"}, account : Choices \cup {None}]
           Takes(t, s) ==
             \/ t.got = "none"
             \/ t.got = "account" /\ [driver |-> t.driver, account |-> t.account] \in s
             \/ t.account = None /\ \E r \in s : r.driver # t.driver
<1>t. /\ config \in [Drivers -> Gateways!Row \cup {None}]
      /\ taking \in [Payers -> Takings] /\ seen \in [Payers -> SUBSET Rights]
  BY DEF GatewaysInv, Gateways!TypeOK, Rights
<1>1. UNCHANGED <<config, offered, saving, twins>>
  BY DEF Gateways!FindDriver, Gateways!FindAccount, Gateways!PayerLeaves, Gateways!Ends
<1>2. SUFFICES ASSUME NEW t \in Takings, NEW s \in SUBSET Rights,
                      taking' = [taking EXCEPT ![p] = t], seen' = [seen EXCEPT ![p] = s],
                      t.driver # None => Gateways!Right(config) \subseteq s,
                      Takes(t, s)
               PROVE  GatewaysInv'
  <2>1. CASE Gateways!FindDriver(p)
    <3>1. PICK r \in Gateways!Right(config) : taking' = [taking EXCEPT ![p].driver = r.driver]
      BY <2>1 DEF Gateways!FindDriver
    <3> DEFINE t == [taking[p] EXCEPT !.driver = r.driver]
    <3>2. r.driver \in Drivers /\ Gateways!Right(config) \subseteq Rights
      BY <1>t, RightOnes DEF Rights
    <3>3. t \in Takings /\ t.got = "none"
      BY <1>t, <2>1, <3>2 DEF Gateways!FindDriver, Gateways!Idle
    <3>4. taking' = [taking EXCEPT ![p] = t] /\ seen' = [seen EXCEPT ![p] = Gateways!Right(config)]
      BY <1>t, <2>1, <3>1 DEF Gateways!FindDriver
    <3> HIDE DEF t
    <3> QED BY <1>2, <3>2, <3>3, <3>4
  <2>2. CASE Gateways!PayerLeaves(p)
    <3>1. Gateways!Idle \in Takings /\ Gateways!Idle.driver = None /\ Gateways!Idle.got = "none"
      BY DEF Gateways!Idle
    <3>2. taking' = [taking EXCEPT ![p] = Gateways!Idle] /\ seen' = [seen EXCEPT ![p] = {}]
      BY <2>2 DEF Gateways!PayerLeaves
    <3>3. Takes(Gateways!Idle, {})
      BY <3>1
    <3> HIDE DEF Takes
    <3> QED BY <1>2, <3>1, <3>2, <3>3
  <2>3. CASE Gateways!FindAccount(p)
    <3> DEFINE d == taking[p].driver
    <3>1. d \in Drivers /\ d # None /\ Gateways!Right(config) \subseteq seen[p]
      BY <1>t, <2>3 DEF Gateways!FindAccount, GatewaysInv, RightIsSeen
    <3>2. SUFFICES ASSUME NEW got \in {"account", "refused"}, NEW a \in Choices \cup {None}, Gateways!Ends(p, got, a),
                          \/ got = "account" /\ [driver |-> d, account |-> a] \in Gateways!Right(config)
                          \/ a = None /\ \E r \in Gateways!Right(config) : r.driver # d
                   PROVE  GatewaysInv'
      <4>1. CASE d \in Gateways!Active
        <5>1. Gateways!Ends(p, "account", config[d].account)
          BY <2>3, <4>1 DEF Gateways!FindAccount
        <5>2. config[d] # None /\ config[d].active /\ config[d] \in Gateways!Row
          BY <1>t, <3>1, <4>1 DEF Gateways!Active, Gateways!Exists
        <5>3. [driver |-> d, account |-> config[d].account] \in Gateways!Right(config) /\ config[d].account \in Choices
          BY <1>t, <3>1, <5>2, RightOnes DEF Gateways!Row
        <5> QED BY <3>2, <5>1, <5>3
      <4>2. CASE d \notin Gateways!Active
        <5>1. PICK r \in Gateways!Right(config) : TRUE BY <1>t, RightOnes
        <5>2. r.driver # d \/ (d = PayHere /\ r = [driver |-> d, account |-> None])
          BY <1>t, <3>1, <4>2, RightOnes DEF Gateways!Active, Gateways!Exists
        <5>3. (Gateways!Ends(p, "account", None) /\ d = PayHere) \/ (Gateways!Ends(p, "refused", None) /\ d # PayHere)
          BY <2>3, <4>2 DEF Gateways!FindAccount
        <5> QED BY <3>2, <5>1, <5>2, <5>3
      <4> QED BY <4>1, <4>2
    <3> DEFINE t == [taking[p] EXCEPT !.got = got, !.account = a]
    <3>3. t \in Takings /\ t.got = got /\ t.account = a /\ t.driver = d
      BY <1>t
    <3>4. taking' = [taking EXCEPT ![p] = t] /\ seen' = [seen EXCEPT ![p] = seen[p]]
      BY <1>t, <3>2 DEF Gateways!Ends
    <3> HIDE DEF t
    <3>5. Takes(t, seen[p])
      <4>1. CASE got = "account" /\ [driver |-> d, account |-> a] \in Gateways!Right(config)
        <5>1. [driver |-> t.driver, account |-> t.account] \in seen[p] /\ t.got = "account"
          BY <3>1, <3>3, <4>1
        <5> QED BY <5>1
      <4>2. CASE a = None /\ \E r \in Gateways!Right(config) : r.driver # d
        <5>1. PICK r \in seen[p] : r.driver # t.driver
          BY <3>1, <3>3, <4>2
        <5> QED BY <3>3, <4>2, <5>1
      <4> QED BY <3>2, <4>1, <4>2
    <3> QED BY <1>t, <1>2, <3>1, <3>3, <3>4, <3>5
  <2> QED BY <2>1, <2>2, <2>3
<1>3. taking' \in [Payers -> Takings] /\ seen' \in [Payers -> SUBSET Rights]
  BY <1>t, <1>2
<1>4. Gateways!TypeOK'
  BY <1>1, <1>3 DEF GatewaysInv, Gateways!TypeOK, Gateways!Exists, Rights
<1>5. RightIsSeen'
  BY <1>t, <1>1, <1>2 DEF GatewaysInv, RightIsSeen
<1>6. Gateways!TakesTheRight'
  BY <1>t, <1>1, <1>2 DEF GatewaysInv, Gateways!TakesTheRight
<1> QED BY <1>1, <1>4, <1>5, <1>6 DEF GatewaysInv, SavesSee, Gateways!Active, Gateways!Exists

(* payment.service.ts: one row is active and a payment takes a right one, in every behaviour of
   the component. *)
THEOREM GatewaysCorrect == Gateways!Spec => [](Gateways!TypeOK /\ Gateways!PaysTheVenue)
<1>1. Gateways!Init => GatewaysInv
  <2> SUFFICES ASSUME Gateways!Init PROVE GatewaysInv OBVIOUS
  <2>1. Gateways!TypeOK
    BY DEF Gateways!Init, Gateways!TypeOK, Gateways!Idle
  <2> QED
    BY <2>1 DEF Gateways!Init, Gateways!Idle, GatewaysInv, SavesSee, RightIsSeen, Gateways!TakesTheRight,
                Gateways!Active, Gateways!Exists
<1>2. GatewaysInv /\ [Gateways!Next]_(Gateways!vars) => GatewaysInv'
  <2> SUFFICES ASSUME GatewaysInv, [Gateways!Next]_(Gateways!vars) PROVE GatewaysInv' OBVIOUS
  <2>1. CASE UNCHANGED Gateways!vars
    BY <2>1 DEF Gateways!vars, GatewaysInv, Gateways!TypeOK, SavesSee, RightIsSeen, Gateways!TakesTheRight,
                Gateways!Active, Gateways!Exists
  <2> QED BY <2>1, CommitKeeps, SaveKeeps, DriverKeeps, TakingKeeps DEF Gateways!Next
<1>3. GatewaysInv => Gateways!TypeOK /\ Gateways!PaysTheVenue
  <2> SUFFICES ASSUME GatewaysInv PROVE Gateways!OneActive BY DEF GatewaysInv, Gateways!PaysTheVenue
  <2>1. CASE Gateways!Active = {}
    BY <2>1, GatewaysCountedAlike, FS_EmptySet DEF Gateways!OneActive
  <2>2. ASSUME ~twins, NEW d \in Gateways!Active PROVE Cardinality(Gateways!Active) <= 1
    <3>1. Gateways!Active = {d} BY <2>2 DEF GatewaysInv
    <3>2. Cardinality({d}) = 1 BY FS_Singleton
    <3> QED BY <3>1, <3>2
  <2> QED BY <2>1, <2>2, GatewaysCountedAlike DEF Gateways!OneActive
<1> QED BY <1>1, <1>2, <1>3, PTL DEF Gateways!Spec

-----------------------------------------------------------------------------
(* The instance of all four: a behaviour of MCSettings is one of every component, with stutters. *)

(* The subscript of MCSettings' specification. *)
AllVars == <<focus, photos, domain, staff, gateways>>

(* Every step is one of the photos, or leaves them alone. *)
LEMMA PhotosRun == Spec => Photos!Spec
<1>1. Init => Photos!Init BY DEF Init
<1>2. [Next]_AllVars => [Photos!Next]_(Photos!mediaVars)
  BY DEF Next, AllVars, photos, domain, staff, gateways, Photos!mediaVars
<1> QED BY <1>1, <1>2, PTL DEF Spec, AllVars, Photos!Spec

(* Every step is one of the domain, or leaves them alone. *)
LEMMA DomainRun == Spec => Domain!Spec
<1>1. Init => Domain!Init BY DEF Init
<1>2. [Next]_AllVars => [Domain!Next]_(Domain!domainVars)
  BY DEF Next, AllVars, photos, domain, staff, gateways, Domain!domainVars
<1> QED BY <1>1, <1>2, PTL DEF Spec, AllVars, Domain!Spec

(* Every step is one of the members, or leaves them alone. *)
LEMMA StaffRun == Spec => Staff!Spec
<1>1. Init => Staff!Init BY DEF Init
<1>2. [Next]_AllVars => [Staff!Next]_(Staff!accountVars)
  BY DEF Next, AllVars, photos, domain, staff, gateways, Staff!accountVars
<1> QED BY <1>1, <1>2, PTL DEF Spec, AllVars, Staff!Spec

(* Every step is one of the gateways, or leaves them alone. *)
LEMMA GatewaysRun == Spec => Gateways!Spec
<1>1. Init => Gateways!Init BY DEF Init
<1>2. [Next]_AllVars => [Gateways!Next]_(Gateways!vars)
  BY DEF Next, AllVars, photos, domain, staff, gateways, Gateways!vars
<1> QED BY <1>1, <1>2, PTL DEF Spec, AllVars, Gateways!Spec

(* Every component keeps its types (media.service.ts, domain.service.ts,
   company.service.ts and auth.service.ts, payment.service.ts). *)
THEOREM SettingsTypesCorrect == Spec => []TypeOK
<1>1. /\ Photos!TypeOK /\ Domain!TypeOK /\ Staff!TypeOK /\ Gateways!TypeOK
      => TypeOK
  BY DEF TypeOK
<1> QED BY <1>1, PhotosRun, DomainRun, StaffRun, GatewaysRun,
           PhotosCorrect, DomainCorrect, StaffCorrect, GatewaysCorrect, PTL

(* A venue that has photos has one cover, unless two changes crossed or a
   request gave it up (media.service.ts). *)
THEOREM CoversAreKept == Spec => []CoverIsKept
BY PhotosRun, PhotosCorrect, PTL DEF CoverIsKept

(* A verified domain is verified by the record of its own claim, served only
   then, and live only with its certificate (domain.service.ts, domain-ssl.worker.ts). *)
THEOREM DomainsAreProven == Spec => []DomainIsProven
BY DomainRun, DomainCorrect, PTL DEF DomainIsProven

(* A verified domain without a certificate has a request or a job that works on
   it, unless one died or gave up (domain.service.ts, domain-ssl.worker.ts). *)
THEOREM CertificatesAreAwaited == Spec => []CertificateIsAwaited
BY DomainRun, DomainCorrect, PTL DEF CertificateIsAwaited

(* Who is invited gets a link to set a password, and has the role that was last
   asked for, with the exceptions the code allows (company.service.ts). *)
THEOREM MembersAreAsAsked == Spec => []MemberIsAsAsked
BY StaffRun, StaffCorrect, PTL DEF MemberIsAsAsked

(* One gateway is active unless two saves made twins, and a payment takes the account that
   was right for its driver at some moment of its two reads (payment.service.ts). *)
THEOREM VenuesArePaid == Spec => []PaysTheVenue
BY GatewaysRun, GatewaysCorrect, PTL DEF PaysTheVenue
=============================================================================
