\* Two requests at a time on two accounts.
CONSTANTS
  sql = sql
  SQL = SQL
  go = go
  slug1 = slug1
  slug2 = slug2
  Ids = {i1, i2}
  Emails = {admin, mail}
  AdminEmail = admin
  Passwords = {w1, w2}
  Names = {sql, SQL, go}
  Slug <- SlugOf
  SkillLists <- Lists
  Sessions = {s1, s2}
  Failing <- Writes
  NoRow = NoRow
  NoId = NoId
  NoRequest = NoRequest
SPECIFICATION Spec
SYMMETRY Symmetry
INVARIANTS
  TypeOK
  AccountsWhole
  AnsweredAsAsked
