--------------------------- MODULE WorkbenchClaims ---------------------------
(***************************************************************************)
(* What the repository's documents say of the guided-learning page and the *)
(* code does not do. Each formula here is refuted by a run.                *)
(***************************************************************************)
EXTENDS Workbench

(* docs/tasks/backlog/T-W1-015-guided-learning-web.yaml:80: the page works *)
(* with the session id of the URL and an AbortController. So what it shows *)
(* is the session of the URL, and nothing once the reader went back to the *)
(* project.                                                                *)
TheUrlNamesTheSessionShown == page.view # NoView => page.view.of = page.url
=============================================================================
