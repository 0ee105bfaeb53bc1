\* A tab, and rows written elsewhere, pages of two rows.
SPECIFICATION ActivitySpec
CONSTANTS
  Tabs = {t1}
  MaxOld = 2
  MaxRow = 6
  Page = 2
  MaxShown = 6
  Retries = 1
  MaxClicks = 1
  MaxFailures = 2
  MaxRestarts = 1
INVARIANTS
  HistoryGapless
  DownloadsCounted
CHECK_DEADLOCK FALSE
