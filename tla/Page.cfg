SPECIFICATION Spec
CONSTANTS
  Off = Off
\* CheckBoxes
  b1 = b1
  b2 = b2
  b3 = b3
  b4 = b4
  b5 = b5
  b6 = b6
  Row <- MCRow
  Above <- MCAbove
  Top = Top
  Disabled = {b2}
  Header = Header
\* MoreMenu
  m1 = m1
  m2 = m2
  m3 = m3
  m4 = m4
  Menus <- MCMenus
  MenuWidth <- MCMenuWidth
  Rooms <- MCRooms
\* Amount
  MaxLength = 5
\* Cookies
  CookieName = {k1, k2}
  QueryParams = k1
  BadName = BadName
  CookieValue = {v1, v2}
  BadValue = BadValue
  Undefined = Undefined
  Depth = {0, 1}
  MaxCookies = 3
\* Forms
  n1 = n1
  n2 = n2
  FieldNames <- MCFieldNames
  FieldKinds = {"text", "checkbox", "list", "button"}
  Texts = {e, v}
  NoText = e
\* Conversion
  Converters <- MCConverters
  Equivalences <- MCEquivalences
  Asked <- MCAsked
  ContentTypes <- MCContentTypes
  Responses <- MCResponses
  None = None
\* Jsonp
  Request = {r1, r2, r3}
  Given = Given
  PageValue = PageValue
  Empty = Empty
  Failed = Failed
\* Ready
  Fn = {f1, f2}
  MaxHolds = 3
\* Scripts
  Holder = {h1, h2}
  Body = Body
  Nowhere = Nowhere
  MaxContents = 3
INVARIANTS
  BoxesKeepRule
  MenusInPlace
  AmountIsKept
  CookiesAreRead
  SerializedKeeps
  EndsAsAsked
  AnswersKeptApart
  ScriptsRunOnce
PROPERTY ReadyInTime
\* A page's requests come to an end, and so does its loading.
CHECK_DEADLOCK FALSE
