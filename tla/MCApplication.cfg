CONSTANTS
 None = None
 RowLocks = TRUE
 Rows = {a1, a2}
 Typed = {b1, b2}
 Suggested = {z}
 ProposalIds = {p1}
 MaxChanges = 2
 MaxSheetCalls = 2
 Forms = {f1}
 Assistant = assistant
 Original = 2
 MaxVersion = 3
 MaxEntries = 1
 MaxDeskCalls = 2
 Files = {d1, d2, bad}
 Unsupported = {bad}
 UploadIds = {a1, a2}
 Tabs = {a1, a2}
 Codes = {b1, b2}
 Setups = {s1, s2, s3}
 MaxBankChanges = 3
 MaxBankCalls = 2
 MaxProposals = 2
 PageSize = 1
 MaxDecisions = 1
 Conversations = {a1, a2}
 MaxTasks = 2
 MaxClicks = 4
 MaxTroubles = 1
 Selections = {m1, m2}
 Preset = m1
 Unreviewed = {m3}
 MaxOpenings = 3
 MaxMishaps = 2
 Installed = 1
 Newest = 3
 MaxCopies = 2
 MaxChecks = 2
 MaxPosts = 2
SPECIFICATION Spec
SYMMETRY Exchangeable
INVARIANTS OneBookingPerForm RowsHaveFiles InstallerAsShown ReadyAsBound OneThreadReports ChildrenServeAndStop
PROPERTIES ReplacedInSight NoUpdateLost DecidedStaysDecided PromptWhereTyped RemovedStaysRemoved
CHECK_DEADLOCK FALSE
