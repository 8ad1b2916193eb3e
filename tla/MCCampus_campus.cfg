SPECIFICATION CampusSpec
CONSTANTS
    Sessions = {s1, s2}
    Pupils = {p1, p2}
    Subjects = {m}
    Classes = {k1, k2}
    Sections = {a, b}
    MaxDay = 1
    k1 = k1
    k2 = k2
    a = a
    b = b
    Posts = {x}
    Guardians = {g2, g3}
    Seats <- MCSeats
    Duties <- MCDuties
    Assignments = {w1}
    Submissions = {u1, u2}
    DueDays <- MCDueDays
    Attachments = {FALSE, TRUE}
    Lessons = {h1}
    ExamNames = {e1}
    Marks <- MCMarks
    Bands <- MCBands
    Series = {x1, x2}
    Entries = {n1}
    Statuses = {"present", "absent", "late"}
    Threshold = 75
    Batches <- MCBatches
    Chapters = {h2}
    Topics = {t1}
    Items = {i1}
    Questions = {q1, q2}
    Attempts = {r1}
    Weights <- MCWeights
    Years = {y1, y2}
    Levels = {1}
    Forms = {1, 2}
    HistoryIds = {i3, i4}
    ClassIds = {c1, c2}
    Codes = {k}
    Letters = {"A"}
    Percents = {0, 50, 100}
    Copies <- MCCopies
    Teachers = {t}
    Postings = {i2}
    Uploads = {f1}
    DocIds = {d1, d2}
    DocTypes = {"id", "bonafide"}
    Wishes <- MCWishes
    People = {"teacher", "parent"}
    Conversations = {v1, v2}
    Messages = {g1}
    Announcements = {o1}
    Targets <- MCTargets
    Places <- MCPlaces
    Albums = {l1}
    Photos = {f2, f3}
    Accounts = {z}
    Tokens = {j1, j2, j3}
    Otps = {o2, o3}
    Resets = {z1, z2}
SYMMETRY Alike
CONSTRAINT FewRows
INVARIANTS CampusTypeOK ToldOfFacts  OneOfAKind   AudienceAgrees
 
CHECK_DEADLOCK FALSE
