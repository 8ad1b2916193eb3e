-------------------------------- MODULE Gallery --------------------------------
(***************************************************************************)
(* Photo albums (src/app/services/gallery.py).  The cover of an album is   *)
(* the key of a photo, which has a flag of its own saying that it is the   *)
(* featured one: two columns in two tables, kept together by the handlers. *)
(* Reactions and comments are rows of one user each and left out.          *)
(***************************************************************************)
EXTENDS UnitOfWork

CONSTANTS Albums, Photos

ASSUME GalleryConstants == "none" \notin Photos

Album == [cover : Photos \cup {"none"}]
Photo == [of : {"album"} \X Albums, featured : BOOLEAN]

GalleryTypeOK == area = "gallery" => /\ Table("album", Albums, Album)
                                     /\ Table("photo", Photos, Photo)

GalleryInit == Starts("gallery", [album |-> None, photo |-> None])

PhotosOf(al) == {p \in Keys("photo") : db.photo[p].of = <<"album", al>>}
-----------------------------------------------------------------------------
CreateAlbum(s, al) ==
    /\ Unused("album", al)
    /\ Begin(s, [Work EXCEPT !.insert = [album |-> al :> [cover |-> "none"]]])

(* upload_photo: the first one becomes the cover.                          *)
UploadPhoto(s, al, p) ==
    LET first == db.album[al].cover = "none" IN
    /\ al \in Keys("album") /\ Unused("photo", p)
    /\ BeginStoring(s,
          [Work EXCEPT !.insert = [photo |-> p :> [of |-> <<"album", al>>, featured |-> first]],
                       !.update = IF first THEN [album |-> Sets("album", al, [cover |-> p])] ELSE None,
                       !.needs = {<<"album", al>>}],
          {<<"photo", p>>})

(* toggle_featured: the other photos of the album lose the flag.           *)
ToggleFeatured(s, p) ==
    LET al == db.photo[p].of[2]
        on == ~db.photo[p].featured
        cover == IF on THEN p ELSE IF db.album[al].cover = p THEN "none" ELSE db.album[al].cover
    IN  /\ p \in Keys("photo")
        /\ Begin(s, [Work EXCEPT !.update =
               [album |-> Sets("album", al, [cover |-> cover]),
                photo |-> IF on THEN [q \in PhotosOf(al) |-> Changed(db.photo[q], [featured |-> q = p])]
                          ELSE Sets("photo", p, [featured |-> FALSE])]])

(* delete_album of an empty album.                                         *)
DeleteAlbum(s, al) ==
    /\ al \in Keys("album") /\ PhotosOf(al) = {}
    /\ Begin(s, [Work EXCEPT !.drop = [album |-> {al}]])

(* delete_album of one with photos: their files are removed at once, then  *)
(* the mapper detaches the photos from the album, which the database       *)
(* refuses, and the request can only fail.                                 *)
DeleteFullAlbum(s, al) ==
    /\ al \in Keys("album") /\ PhotosOf(al) # {}
    /\ BeginWith(s, [Work EXCEPT !.needs = {<<"album", "null">>}],
                 stored \ {<<"photo", p>> : p \in PhotosOf(al)})

GalleryStep(s) ==
    /\ area = "gallery"
    /\ \/ \E al \in Albums : \/ CreateAlbum(s, al) \/ DeleteAlbum(s, al) \/ DeleteFullAlbum(s, al)
                             \/ \E p \in Photos : UploadPhoto(s, al, p)
       \/ \E p \in Keys("photo") : ToggleFeatured(s, p)
-----------------------------------------------------------------------------
(* While handlers do not overlap, an album has at most one featured photo, *)
(* which is its cover.                                                     *)
CoverIsFeatured ==
    area = "gallery" /\ serial => \A al \in Keys("album") :
        {p \in PhotosOf(al) : db.photo[p].featured} = {db.album[al].cover} \ {"none"}
=============================================================================
