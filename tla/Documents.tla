-------------------------------- MODULE Documents --------------------------------
(***************************************************************************)
(* Student documents (src/app/services/document.py): requested, uploaded,  *)
(* reviewed, and required of every student.  One year.                     *)
(*                                                                         *)
(* A document is found by its student and type; no constraint makes it the *)
(* only one, and of several the one updated last is taken, which here is   *)
(* any of them.  Reviews are kept in one JSON value of the school's        *)
(* settings, which is read, extended and written back whole.               *)
(***************************************************************************)
EXTENDS UnitOfWork

CONSTANTS DocIds, DocTypes,
          Wishes                \* what a school may require

ASSUME DocumentsConstants == Wishes \subseteq SUBSET DocTypes

DocumentStatus == {"not_uploaded", "requested", "pending", "approved", "rejected"}
Document == [student : Pupils, type : DocTypes, status : DocumentStatus, file : BOOLEAN,
             dated : BOOLEAN]

DocumentsTypeOK ==
    area = "documents" => /\ Table("document", DocIds, Document)
                          /\ Table("setting", {"review", "required"},
                                   [value : (SUBSET DocIds) \cup (SUBSET DocTypes)])

DocumentsInit == Starts("documents", [document |-> None, setting |-> None])

Setting(key) == IF key \in Keys("setting") THEN db.setting[key].value ELSE {}
SettingPut(key, value) == key :> [new |-> [value |-> value], set |-> [value |-> value]]
Told(notices) == [n \in notices |-> [new |-> [read |-> FALSE], set |-> None]]

(* get_by_student_type_year: those of which the latest is taken.           *)
DocumentsOf(p, type) == {d \in Keys("document") : /\ db.document[d].student = p
                                                 /\ db.document[d].type = type}
Blank(p, type, status) == [student |-> p, type |-> type, status |-> status, file |-> FALSE,
                           dated |-> FALSE]
-----------------------------------------------------------------------------
(* request_document: a new one, or one that is only a placeholder.         *)
RequestDocument(s, d, p, type) ==
    \/ /\ DocumentsOf(p, type) = {} /\ Unused("document", d)
       /\ Begin(s, [Work EXCEPT !.insert = [document |-> d :> Blank(p, type, "requested")]])
    \/ /\ d \in DocumentsOf(p, type) /\ db.document[d].status = "not_uploaded"
       /\ Begin(s, [Work EXCEPT !.update = [document |->
              Sets("document", d, [status |-> "requested", dated |-> FALSE])]])

(* An upload by staff is approved with it; that of a student or parent, or *)
(* of a teacher, waits for a review.                                       *)
Uploaded(by) == [file |-> TRUE, dated |-> by = "staff",
                 status |-> IF by = "staff" THEN "approved" ELSE "pending"]

(* A family may not replace what is approved or waits for a review.        *)
MayReplace(by, row) == by = "family" =>
    row.status # "approved" /\ ~(row.status = "pending" /\ row.file)

(* upload_document: the file is stored first, then the latest document of  *)
(* the type is found and overwritten, or one is made; a family may only    *)
(* bring what is required, when anything is, and is told.                  *)
UploadDocument(s, d, p, type, by) ==
    LET new == Unused("document", d) /\ DocumentsOf(p, type) = {} IN
    /\ by = "family" => Setting("required") \in {{}} \cup {T \in SUBSET DocTypes : type \in T}
    /\ \/ new
       \/ d \in DocumentsOf(p, type) /\ MayReplace(by, db.document[d])
    /\ BeginStoring(s, [Work EXCEPT
           !.insert = IF new THEN [document |-> d :> Over(Blank(p, type, "pending"), Uploaded(by))]
                      ELSE None,
           !.update = IF new THEN None ELSE [document |-> Sets("document", d, Uploaded(by))],
           !.put = IF by = "family" THEN [notice |-> Told({<<"uploaded", d>>})] ELSE None],
           {<<"document", d>>})

(* _save_review_meta_for_document                                          *)
Reviewed(d) == SettingPut("review", Setting("review") \cup {d})

(* verify_document: an uploaded document that is pending is approved or    *)
(* rejected; the review, the notice to the family and the audit entry are  *)
(* written with it.                                                        *)
VerifyDocument(s, d, approve) ==
    /\ d \in Keys("document") /\ db.document[d].status = "pending" /\ db.document[d].file
    /\ Begin(s, [Work EXCEPT
           !.update = [document |-> Sets("document", d,
               IF approve THEN [status |-> "approved", dated |-> TRUE]
               ELSE [status |-> "rejected", dated |-> FALSE])],
           !.put = [setting |-> Reviewed(d), notice |-> Told({<<"reviewed", d>>})]])

(* upsert_required_documents: the list is replaced, and every student who  *)
(* has no document of a type gets a placeholder                            *)
(* (_sync_placeholders_for_requirements).                                  *)
Lacking(types) == {k \in Pupils \X types : DocumentsOf(k[1], k[2]) = {}}
RequireDocuments(s, types, id) ==
    /\ \A k \in DOMAIN id : Unused("document", id[k])
    /\ Begin(s, [Work EXCEPT
           !.put = [setting |-> SettingPut("required", types)],
           !.insert = [document |-> [d \in Range(id) |->
               LET k == CHOOSE k \in DOMAIN id : id[k] = d IN Blank(k[1], k[2], "not_uploaded")]]])

DocumentsStep(s) ==
    /\ area = "documents"
    /\ \/ \E d \in DocIds, p \in Pupils, type \in DocTypes :
             \/ RequestDocument(s, d, p, type)
             \/ \E by \in {"staff", "teacher", "family"} : UploadDocument(s, d, p, type, by)
       \/ \E d \in DocIds, approve \in BOOLEAN : VerifyDocument(s, d, approve)
       \/ \E types \in Wishes : \E id \in Injection(Lacking(types), DocIds) :
             RequireDocuments(s, types, id)
-----------------------------------------------------------------------------
(* list_for_student, list_documents for the school                         *)
ListForStudent(p) == {d \in Keys("document") : db.document[d].student = p}

(* _document_slots_for_admin_grid: what is required, or the defaults.      *)
GridTypes == IF Setting("required") = {} THEN DocTypes ELSE Setting("required")

(* _admin_expand_missing_not_uploaded: rows that are shown but not stored. *)
Missing == Lacking(GridTypes)

(* list_required_documents_for_student: with the status of the latest      *)
(* document of each type.                                                  *)
RequiredOf(p) == [type \in Setting("required") |->
    LET all == DocumentsOf(p, type) IN
    IF all = {} THEN "none" ELSE db.document[CHOOSE d \in all : TRUE].status]

(* The office's grid shows every student and type once, as a document or   *)
(* as missing, and a student sees what is required with its status.        *)
DocumentViewsAgree ==
    area = "documents" =>
        /\ \A p \in Pupils, type \in GridTypes :
              (<<p, type>> \in Missing) = (\A d \in ListForStudent(p) : db.document[d].type # type)
        /\ serial => \A p \in Pupils, type \in DocTypes : Cardinality(DocumentsOf(p, type)) <= 1
        /\ serial => \A p \in Pupils : \A type \in Setting("required") : RequiredOf(p)[type] # "none"

(* While handlers do not overlap, a review that was told of is on record,  *)
(* and an approval has a date.                                             *)
ReviewsKept ==
    area = "documents" =>
        /\ serial => \A d \in Keys("document") :
                        <<"reviewed", d>> \in Keys("notice") => d \in Setting("review")
        /\ serial => \A d \in Keys("document") :
                        db.document[d].dated = (db.document[d].status = "approved")
=============================================================================
