------------------------ MODULE MCDownloadScheduler ------------------------
(* Instances of DownloadScheduler for TLC: two tasks of one file each, or  *)
(* one of them.                                                             *)
EXTENDS DownloadScheduler

TwoTasks == {1, 2}
OneEach == <<1, 1>>
OneTask == {1}
OneFile == <<1>>
=============================================================================
