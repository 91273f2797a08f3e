----------------------------- MODULE Repository -----------------------------
(***************************************************************************)
(* The version control of a project as its operations use it:              *)
(* server/app/core/gitOperator2.js.  A repository is a record of what is   *)
(* in the working tree, in the index and in HEAD; each of the three maps   *)
(* the files of the project to their contents.                             *)
(***************************************************************************)
EXTENDS Naturals

newRepository(files) == [tree |-> files, index |-> files, head |-> files]

\* fs.writeJson(), fs.writeFile(): only the working tree changes.
write(r, file, content) == [r EXCEPT !.tree[file] = content]

gitAdd(r, file) == [r EXCEPT !.index[file] = r.tree[file]]

writeAndAdd(r, file, content) == gitAdd(write(r, file, content), file)

\* What is staged is committed; having nothing to commit is no error.
gitCommit(r) == [r EXCEPT !.head = r.index]

\* With names of files, git takes them from the working tree and leaves alone
\* what else is staged.
gitCommitFiles(r, files) ==
  LET Taken(area) == [f \in DOMAIN area |-> IF f \in files THEN r.tree[f] ELSE area[f]]
  IN  [r EXCEPT !.index = Taken(r.index), !.head = Taken(r.head)]

\* reset HEAD --hard
gitResetHEAD(r) == newRepository(r.head)

gitStatus(r) == {f \in DOMAIN r.tree : r.tree[f] # r.index[f] \/ r.index[f] # r.head[f]}

\* The component files and the project file are not asked about.
askedAbout(r) == gitStatus(r) \ {"json", "project"}

=============================================================================
