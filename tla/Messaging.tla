-------------------------------- MODULE Messaging --------------------------------
(***************************************************************************)
(* Conversations (src/app/services/chat.py), announcements                 *)
(* (announcement.py) and the inbox their notifications arrive in           *)
(* (notification.py).                                                      *)
(*                                                                         *)
(* A person stands for a user of each role.  Whom an announcement is told  *)
(* to is worked out by a background task when it runs; who sees it is      *)
(* worked out again, by other code, whenever somebody lists announcements. *)
(***************************************************************************)
EXTENDS UnitOfWork

CONSTANTS People,               \* the roles that have a user
          Conversations, Messages, Announcements,       \* ids
          Targets,              \* <<role, class, section>>, "all" where left open
          Places                \* sets of <<class, section>> a person may belong to

ASSUME MessagingConstants == "null" \notin Conversations
ASSUME AnnouncementConstants ==
    {} \in Places /\ \A places \in Places : \A place \in places : place = <<place[1], place[2]>>

Conversation == [direct : BOOLEAN, members : SUBSET People]
Message == [of : {"conversation"} \X Conversations, sender : People]
Reaction == [of : {"message"} \X Messages, emoji : {"up", "down"}]
Announcement == [target : Targets, active : BOOLEAN]

MessagingTypeOK ==
    /\ area = "chat" => /\ Table("conversation", Conversations, Conversation)
                        /\ Table("message", Messages, Message)
                        /\ Table("read", Messages \X People, [of : {"message"} \X Messages])
                        /\ Table("reaction", Messages \X People, Reaction)
    /\ area = "announcements" => /\ Table("announcement", Announcements, Announcement)
                                 /\ Table("person", People, [places : Places])

MessagingInit ==
    \/ Starts("chat", [conversation |-> None, message |-> None, read |-> None, reaction |-> None])
    \/ Starts("announcements", [announcement |-> None,
                                person |-> [u \in People |-> [places |-> {}]]])
-----------------------------------------------------------------------------
(* _allowed_one_to_one_targets                                             *)
MayAddress(from) ==
    CASE from = "teacher" -> {"parent", "student", "principal", "trustee"}
      [] from = "principal" -> {"teacher", "parent", "student", "trustee"}
      [] from = "trustee" -> {"principal", "teacher"}
      [] from = "staff_admin" -> {"principal", "trustee", "teacher"}
      [] OTHER -> {"teacher", "principal"}

DirectOf(u, v) == {c \in Keys("conversation") : /\ db.conversation[c].direct
                                               /\ {u, v} \subseteq db.conversation[c].members}
MemberOf(c, u) == c \in Keys("conversation") /\ u \in db.conversation[c].members

(* create_conversation, one-to-one: the one that exists is returned, and   *)
(* two that exist make scalar_one_or_none raise.                           *)
OpenDirect(s, c, u, v) ==
    /\ v \in MayAddress(u) /\ DirectOf(u, v) = {} /\ Unused("conversation", c)
    /\ Begin(s, [Work EXCEPT !.insert = [conversation |-> c :>
                                            [direct |-> TRUE, members |-> {u, v}]]])

(* create_conversation, group: a teacher gathers students and parents, of  *)
(* the classes taught by the teacher, here all of them.                    *)
OpenGroup(s, c, u, members) ==
    /\ u = "teacher" => members # {} /\ members \subseteq {"student", "parent"}
    /\ Unused("conversation", c)
    /\ Begin(s, [Work EXCEPT !.insert = [conversation |-> c :>
                                            [direct |-> FALSE, members |-> members \cup {u}]]])

SendMessage(s, m, c, u) ==
    /\ MemberOf(c, u) /\ Unused("message", m)
    /\ Begin(s, [Work EXCEPT !.insert = [message |-> m :> [of |-> <<"conversation", c>>, sender |-> u]],
                             !.needs = {<<"conversation", c>>}])

(* mark_read: of all the messages named, or, when one of them was read     *)
(* before, of none: the failed insert leaves a transaction that can only   *)
(* be rolled back.                                                         *)
MarkMessagesRead(s, c, u, messages) ==
    /\ MemberOf(c, u)
    /\ Begin(s, [Work EXCEPT
           !.insert = [read |-> [r \in messages \X {u} |-> [of |-> <<"message", r[1]>>]]],
           !.needs = {<<"message", m>> : m \in messages}])

(* upload_file: the key is given to the client, who may send it.           *)
UploadChatFile(s, c, u) == MemberOf(c, u) /\ BeginStoring(s, Work, {<<"conversation", c>>})

(* delete_conversation: the mapper sets the conversation of its members to *)
(* NULL first, which the database refuses, as no row can satisfy it.       *)
DeleteConversation(s, c, u) ==
    /\ MemberOf(c, u) /\ u \in {"principal", "teacher"}
    /\ Begin(s, [Work EXCEPT !.drop = [conversation |-> {c}],
                             !.needs = {<<"conversation", "null">>}])

(* react_to_message: a reaction is set, changed, or taken back.            *)
React(s, m, u, emoji) ==
    LET r == <<m, u>> IN
    /\ m \in Keys("message") /\ MemberOf(db.message[m].of[2], u)
    /\ u \in {"parent", "student", "teacher", "principal"}
    /\ Begin(s,
          IF r \notin Keys("reaction")
          THEN [Work EXCEPT !.insert = [reaction |-> r :> [of |-> <<"message", m>>, emoji |-> emoji]],
                            !.needs = {<<"message", m>>}]
          ELSE IF db.reaction[r].emoji = emoji
          THEN [Work EXCEPT !.drop = [reaction |-> {r}]]
          ELSE [Work EXCEPT !.update = [reaction |-> Sets("reaction", r, [emoji |-> emoji])]])

ChatStep(s) ==
    /\ area = "chat"
    /\ \/ \E c \in Conversations, u \in People, v \in People : OpenDirect(s, c, u, v)
       \/ \E c \in Conversations, u \in People, members \in SUBSET People : OpenGroup(s, c, u, members)
       \/ \E c \in Conversations, u \in People :
             \/ \E m \in Messages : SendMessage(s, m, c, u)
             \/ \E messages \in SUBSET Messages \ {{}} : MarkMessagesRead(s, c, u, messages)
             \/ UploadChatFile(s, c, u)
             \/ DeleteConversation(s, c, u)
       \/ \E m \in Messages, u \in People, emoji \in {"up", "down"} : React(s, m, u, emoji)
-----------------------------------------------------------------------------
(* Announcements.  A teacher addresses a class or section of their own.    *)
InScope(place, target) == target[2] \in {"all", place[1]} /\ target[3] \in {"all", place[2]}
MayTarget(u, target) ==
    u = "teacher" => target[2] # "all" /\ \E place \in db.person[u].places : InScope(place, target)

(* create_announcement: the targets as they are now go to the task.        *)
CreateAnnouncement(s, a, u, target) ==
    /\ MayTarget(u, target) /\ Unused("announcement", a)
    /\ Begin(s, [Work EXCEPT !.insert = [announcement |-> a :> [target |-> target, active |-> TRUE]],
                             !.jobs = {<<a, target>>}])

(* update_announcement, and delete_announcement, which withdraws it.       *)
UpdateAnnouncement(s, a, u, target, active) ==
    /\ a \in Keys("announcement") /\ MayTarget(u, target)
    /\ Begin(s, [Work EXCEPT !.update =
           [announcement |-> Sets("announcement", a, [target |-> target, active |-> active])]])
DeleteAnnouncement(s, a) ==
    /\ a \in Keys("announcement")
    /\ Begin(s, [Work EXCEPT !.update = [announcement |-> Sets("announcement", a, [active |-> FALSE])]])

(* _notify_announcement: whom the task finds.                              *)
Recipients(target) ==
    IF target[2] # "all" /\ target[1] \in {"all", "student", "parent", "teacher"}
    THEN {u \in People \cap {"student", "parent", "teacher"} :
             /\ target[1] \in {"all", u}
             /\ \E place \in db.person[u].places : InScope(place, target)}
    ELSE {u \in People : target[1] \in {"all", u}}

NoticesOf(jobs) == UNION {{<<"announcement", job[1], u>> : u \in Recipients(job[2])} : job \in jobs}
Announce(s) ==
    /\ tx[s].state = "after" /\ tx[s].jobs # {}
    /\ db' = [db EXCEPT !.notice = @ @@ [n \in NoticesOf(tx[s].jobs) |-> [read |-> FALSE]]]
    /\ tx' = [tx EXCEPT ![s] = Idle]
    /\ UNCHANGED <<area, stored, today, serial>>

(* list_announcements                                                      *)
Listed(u) ==
    {a \in Keys("announcement") :
        LET target == db.announcement[a].target
            places == db.person[u].places
        IN  /\ db.announcement[a].active
            /\ u \notin {"principal", "staff_admin"} =>
                  /\ target[1] \in {"all", u}
                  /\ target[2] # "all" /\ u \in {"student", "parent", "teacher"} =>
                        \E place \in places : place[1] = target[2]
                  /\ target[3] # "all" => target[2] # "all" /\ <<target[2], target[3]>> \in places}

(* The inbox.  A single statement changes all rows it finds and locks      *)
(* them, so that it is one step with its commit.                           *)
Inbox(u) == {n \in Keys("notice") : n[1] = "announcement" /\ n[3] = u}
ChangeInbox(s, rows) ==
    /\ tx[s].state = "idle" /\ (serial => ~\E q \in Sessions : Busy(q))
    /\ db' = [db EXCEPT !.notice = rows]
    /\ UNCHANGED <<area, stored, today, tx, serial>>

(* mark_read and mark_all_read, among one's own                            *)
MarkRead(s, u, chosen) ==
    ChangeInbox(s, [n \in Keys("notice") |->
        IF n \in chosen \cap Inbox(u) THEN [read |-> TRUE] ELSE db.notice[n]])

(* clear_read                                                              *)
ReadOnes(S) == {n \in S : db.notice[n].read}
ClearRead(s, u) == ChangeInbox(s, [n \in Keys("notice") \ ReadOnes(Inbox(u)) |-> db.notice[n]])

(* External: enrolment and the assignment of teachers move people.         *)
Move(s, u, places) ==
    /\ places \in Places \ {db.person[u].places}
    /\ Begin(s, [Work EXCEPT !.update = [person |-> u :> [places |-> places]]])

AnnouncementsStep(s) ==
    /\ area = "announcements"
    /\ \/ \E a \in Announcements, u \in {"teacher", "principal"}, target \in Targets :
             \/ CreateAnnouncement(s, a, u, target)
             \/ \E active \in BOOLEAN : UpdateAnnouncement(s, a, u, target, active)
       \/ \E a \in Announcements : DeleteAnnouncement(s, a)
       \/ Announce(s)

InboxStep(s) ==
    /\ area = "announcements"
    /\ \E u \in People : \/ \E chosen \in SUBSET Inbox(u) \ {{}} : MarkRead(s, u, chosen)
                         \/ ClearRead(s, u)
                         \/ \E places \in Places : Move(s, u, places)
-----------------------------------------------------------------------------
(* One conversation between two people while handlers do not overlap.      *)
DirectOnce == area = "chat" /\ serial =>
                  \A u, v \in People : u # v => Cardinality(DirectOf(u, v)) <= 1

(* Students, parents and teachers who are told of an announcement as it    *)
(* stands find it in their list, and those who find it are told, when its  *)
(* section, if any, comes with a class.                                    *)
ToldAreListed ==
    area = "announcements" =>
        \A a \in Keys("announcement") :
            LET row == db.announcement[a] IN
            row.active /\ (row.target[3] # "all" => row.target[2] # "all") =>
                \A u \in People \cap {"student", "parent", "teacher"} :
                    (u \in Recipients(row.target)) = (a \in Listed(u))
=============================================================================
