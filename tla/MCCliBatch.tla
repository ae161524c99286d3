----------------------------- MODULE MCCliBatch -----------------------------
(***************************************************************************)
(* A small file system for CliBatch: two directories whose files share     *)
(* names, formats, contents (by a link) and output paths.                  *)
(***************************************************************************)
EXTENDS CliBatch

File(real, out, format, link) == [real |-> real, out |-> out, format |-> format, link |-> link]

Reports == [kind |-> "dir", files |->
  <<File("reports/x.docx", "x", "docx", FALSE),
    File("reports/notes.txt", "notes", "other", FALSE),
    File("drafts/y.docx", "link", "docx", TRUE),
    File("reports/sub/x.docx", "sub/x", "docx", FALSE)>>]
Drafts == [kind |-> "dir", files |->
  <<File("drafts/y.docx", "y", "docx", FALSE),
    File("drafts/y.xlsx", "y", "xlsx", FALSE)>>]
NoFiles == [kind |-> "dir", files |-> <<>>]
Report == [kind |-> "file", file |-> File("reports/x.docx", "x", "docx", FALSE)]
Nested == [kind |-> "file", file |-> File("reports/sub/x.docx", "x", "docx", FALSE)]
Draft == [kind |-> "file", file |-> File("drafts/y.xlsx", "y", "xlsx", FALSE)]
Linked == [kind |-> "file", file |-> File("drafts/y.docx", "link", "docx", TRUE)]
Notes == [kind |-> "file", file |-> File("reports/notes.txt", "notes", "other", FALSE)]
Missing == [kind |-> "missing"]

SmallTree == {Reports, Drafts, NoFiles, Report, Nested, Draft, Linked, Notes, Missing}
=============================================================================
