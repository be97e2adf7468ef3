CONSTANTS
  EmptyDef <- MCEmptyDef
  Providers <- MCProviders
  Fragments <- MCFragments
  MaxInt = 4
  MaxParses = 2
  Options <- MCOptions
  Edits <- MCEdits
  MaxBuilds = 2
  MaxRuns = 3
SPECIFICATION Spec
INVARIANT SourcesKeepFaith
INVARIANT AcceptsExactly
INVARIANT ReplayDetected
INVARIANT LintFindsTheGaps
INVARIANT ReportedCoversTimes
