SPECIFICATION Spec
CONSTANTS
  Occurs <- Texts
  PageSizeOptions = {2, 4}
  DefaultPageSize = 2
  MaxFilters = 1
  Urls <- SomeUrls
  Totals = {2, 7, 8, 10}
INVARIANTS TypeOK PageInRange ShownIsAPage ListedOnce PagerSound NavigationIsSound GraphIsReadable
PROPERTIES ChipTellsCount DriftIsShownFirst
