\* One matching-file task, the three jobs, one "Check folder" request and one
\* other request at a time, any number of them one after another, one restart.
SPECIFICATION FairSpec
CONSTANTS
  match = match  folder = folder
  Tasks = {match}
  Matching = {match}
  Folders = {folder}
  FolderOf <- MCFolderOf
  Scheduled = job
  Manual = {m1}
  Requests = {r1}
  MaxCrashes = 1
INVARIANTS TypeOK CompletedHasDelivery
PROPERTIES LateIsMarked ScheduledFileCompletes
