\* One matching-file task, the jobs and one request at a time; no restart.
SPECIFICATION FairSpec
CONSTANTS
  match = match  folder = folder
  Tasks = {match}
  Matching = {match}
  Folders = {folder}
  FolderOf <- MCFolderOf
  Scheduled = job
  Manual = {}
  Requests = {r1}
  MaxCrashes = 0
PROPERTIES DeliveredFileCompletes
